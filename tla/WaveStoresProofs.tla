--------------------------- MODULE WaveStoresProofs ---------------------------
(***************************************************************************)
(* The stores stay readable and an operation changes only what it names,   *)
(* proved for every store, every set of documents and every way a write    *)
(* can fail.                                                               *)
(***************************************************************************)
EXTENDS WaveStores, SequenceFiltersProofs

(***************************************************************************)
(* The inductive invariant: what a store file holds.                       *)
(***************************************************************************)
ListEntry(entry) ==
    entry \in [name : Names, signals : Seq(Signals)] /\ NoRepeat(entry.signals)

Origins == {"manual", "search"}
CursorEntry(entry) ==
    entry \in [name : Names, time : Nat, origin : Origins, created_at : Nat, active : BOOLEAN]

\* A stream as the writer writes it.
StreamEntry(entry) ==
    /\ entry.name \in Nat
    /\ parse_stream_config_json(entry).ok
    /\ stream_config_json(parse_stream_config_json(entry)) = entry

EntryOk(entry) ==
    CASE kind = "lists"   -> ListEntry(entry)
      [] kind = "cursors" -> CursorEntry(entry)
      [] kind = "apb"     -> json_to_apb(entry).ok
      [] kind = "axi"     -> json_to_axi(entry).ok
      [] kind = "events"  -> json_to_event(entry).ok
      [] kind = "streams" -> StreamEntry(entry)

Identified(set) == \A a, b \in set : IdentityOf(a) = IdentityOf(b) => a = b

OneActive(set) ==
    kind = "cursors" => \A a, b \in set : a.active /\ b.active => a = b

GoodSet(set) ==
    /\ Identified(set) /\ OneActive(set)
    /\ \A entry \in set : EntryOk(entry)

\* The entries of a store, in any order.
Good(seq) == Listing(seq) /\ GoodSet(Range(seq))

StoreInv == kind \in Kinds /\ Good(items)

(***************************************************************************)
(* Sequences of entries.                                                   *)
(***************************************************************************)
LEMMA ListingFacts ==
  ASSUME NEW s, Listing(s)
  PROVE  /\ Len(s) \in Nat /\ DOMAIN s = 1..Len(s) /\ NoRepeat(s)
         /\ IsFiniteSet(Range(s)) /\ Cardinality(Range(s)) = Len(s)
BY NoRepeatLen DEF Listing

LEMMA EmptyListing ==
  Listing(<<>>) /\ Range(<<>>) = {}
<1>1. <<>> \in Seq({}) /\ DOMAIN <<>> = {}
  OBVIOUS
<1>2. Range(<<>>) = {}
  BY <1>1 DEF Range
<1> QED
  BY <1>1, <1>2 DEF Listing, NoRepeat

LEMMA SingleListing ==
  ASSUME NEW x
  PROVE  Listing(<<x>>) /\ Range(<<x>>) = {x}
<1>1. PICK s : s = <<x>>
  OBVIOUS
<1>2. s \in Seq({x}) /\ DOMAIN s = 1..1 /\ s[1] = x
  BY <1>1
<1>3. NoRepeat(s)
  BY <1>2 DEF NoRepeat
<1>4. Range(s) = {x}
  BY <1>2 DEF Range
<1> QED
  BY <1>1, <1>2, <1>3, <1>4 DEF Listing

\* The entries in front of one are fewer than those in front of a later one.
LEMMA BeforeGrows ==
  ASSUME NEW set, IsFiniteSet(set), \A x \in set : x.name \in Nat,
         NEW a \in set, NEW b \in set, a.name < b.name
  PROVE  Before(set, a) < Before(set, b)
<1> DEFINE A == {other \in set : other.name < a.name}
           B == {other \in set : other.name < b.name}
<1>1. A \subseteq B /\ a \in B /\ a \notin A
  OBVIOUS
<1>2. IsFiniteSet(B)
  BY FS_Subset
<1> HIDE DEF A, B
<1>3. IsFiniteSet(A) /\ Cardinality(A) <= Cardinality(B) /\ Cardinality(A) # Cardinality(B)
  BY <1>1, <1>2, FS_Subset
<1>4. Cardinality(A) \in Nat /\ Cardinality(B) \in Nat
  BY <1>2, <1>3, FS_CardinalityType
<1>5. Before(set, a) = Cardinality(A) /\ Before(set, b) = Cardinality(B)
  BY DEF Before, A, B
<1> QED
  BY <1>3, <1>4, <1>5

LEMMA BeforeRange ==
  ASSUME NEW set, IsFiniteSet(set), \A x \in set : x.name \in Nat, NEW a \in set
  PROVE  Before(set, a) \in 0..(Cardinality(set) - 1)
<1> DEFINE A == {other \in set : other.name < a.name}
<1>1. A \subseteq set /\ a \notin A
  OBVIOUS
<1> HIDE DEF A
<1>2. IsFiniteSet(A) /\ Cardinality(A) <= Cardinality(set) /\ Cardinality(A) # Cardinality(set)
  BY <1>1, FS_Subset
<1>3. Cardinality(A) \in Nat /\ Cardinality(set) \in Nat
  BY <1>2, FS_CardinalityType
<1>4. Before(set, a) = Cardinality(A)
  BY DEF Before, A
<1> QED
  BY <1>2, <1>3, <1>4

\* A map from names to entries, read in the order of the names, has them all.
LEMMA IncreasingListing ==
  ASSUME NEW set, IsFiniteSet(set), \A x \in set : x.name \in Nat,
         \A a, b \in set : a.name = b.name => a = b
  PROVE  Listing(Increasing(set)) /\ Range(Increasing(set)) = set
<1>1. PICK n \in Nat : n = Cardinality(set)
  BY FS_CardinalityType
<1>2. PICK rank : rank = [x \in set |-> Before(set, x)]
  OBVIOUS
<1>3. PICK q : q = Increasing(set)
  OBVIOUS
<1>4. q = [i \in 1..n |-> CHOOSE x \in set : Before(set, x) = i - 1]
  BY <1>1, <1>3 DEF Increasing
<1>5. rank \in [set -> 0..(n - 1)]
  BY <1>1, <1>2, BeforeRange
<1>6. ASSUME NEW a \in set, NEW b \in set, Before(set, a) = Before(set, b)
      PROVE  a = b
  <2>1. Before(set, a) \in Nat
    BY <1>5, <1>2
  <2>2. ~(a.name < b.name) /\ ~(b.name < a.name)
    BY <1>6, <2>1, BeforeGrows
  <2> QED
    BY <2>2
<1>7. IsFiniteSet(0..(n - 1)) /\ Cardinality(0..(n - 1)) = n
  <2>1. /\ IsFiniteSet(0..(n - 1))
        /\ Cardinality(0..(n - 1)) = IF 0 > n - 1 THEN 0 ELSE n - 1 - 0 + 1
    BY FS_Interval
  <2> QED
    BY <2>1
<1>8. rank \in Injection(set, 0..(n - 1))
  BY <1>2, <1>5, <1>6 DEF Injection, IsInjective
<1>9. rank \in Surjection(set, 0..(n - 1))
  BY <1>1, <1>7, <1>8, FS_Injection
<1>10. ASSUME NEW i \in 1..n
       PROVE  q[i] \in set /\ Before(set, q[i]) = i - 1
  <2>1. i - 1 \in 0..(n - 1)
    OBVIOUS
  <2>2. PICK x \in set : rank[x] = i - 1
    BY <1>9, <2>1 DEF Surjection
  <2>3. \E y \in set : Before(set, y) = i - 1
    BY <1>2, <2>2
  <2> QED
    BY <1>4, <2>3
<1>11. DOMAIN q = 1..n /\ q \in Seq(set)
  BY <1>4, <1>10
<1>12. NoRepeat(q)
  BY <1>10, <1>11 DEF NoRepeat
<1>13. ASSUME NEW x \in set PROVE x \in Range(q)
  <2>1. Before(set, x) + 1 \in 1..n
    BY <1>2, <1>5
  <2>2. PICK i \in 1..n : i = Before(set, x) + 1
    BY <2>1
  <2>3. i - 1 = Before(set, x)
    BY <1>2, <1>5, <2>2
  <2>4. q[i] = x
    BY <1>6, <1>10, <2>3
  <2> QED
    BY <1>11, <2>4 DEF Range
<1>14. Range(q) = set
  BY <1>10, <1>11, <1>13 DEF Range
<1> QED
  BY <1>3, <1>11, <1>12, <1>14, SeqOfRange DEF Listing

(***************************************************************************)
(* What the writers write, the parsers read.                               *)
(***************************************************************************)
\* A clock is accepted with an edge and a sample point of the kinds there are.
LEMMA ClockAccepted ==
  ASSUME NEW doc, NEW reject \in BOOLEAN,
         NEW clock, clock = parse_clock_sample_config(doc, reject), clock.ok
  PROVE  clock.edge \in Edges /\ clock.sample_point \in Points
<1> DEFINE edge == IF doc.edge = "absent" THEN "negedge" ELSE doc.edge
           has == doc.sample_point # "absent"
           Taken == /\ ~doc.legacy
                    /\ doc.clock = "ok"
                    /\ edge \in Edges
                    /\ has => doc.sample_point \in Points
                    /\ ~(reject /\ edge = "negedge" /\ has)
           Clock == [ok |-> TRUE, edge |-> edge, has_sample_point |-> has,
                     sample_point |-> IF has THEN doc.sample_point ELSE "before"]
<1>1. clock = IF Taken THEN Clock ELSE Refused
  BY Zenon DEF parse_clock_sample_config
<1>2. Taken
  <2>1. CASE ~Taken
    <3>1. clock = Refused
      BY <1>1, <2>1, Zenon
    <3>2. ~clock.ok
      BY <3>1 DEF Refused
    <3> QED
      BY <3>2
  <2> QED
    BY <2>1
<1>3. clock = Clock
  BY <1>1, <1>2, Zenon
<1>4. clock.edge = edge /\ clock.sample_point = IF has THEN doc.sample_point ELSE "before"
  BY <1>3
<1> QED
  BY <1>2, <1>4 DEF Points

\* An entry with an edge, and a sample point where the edge takes one, is accepted as it is.
LEMMA ClockTaken ==
  ASSUME NEW doc, NEW reject \in BOOLEAN, ~doc.legacy, doc.clock = "ok", doc.edge \in Edges,
         doc.sample_point = "absent" \/ doc.sample_point \in Points,
         doc.edge = "negedge" => doc.sample_point = "absent",
         NEW clock, clock = parse_clock_sample_config(doc, reject)
  PROVE  /\ clock.ok /\ clock.edge = doc.edge
         /\ doc.sample_point # "absent" => clock.sample_point = doc.sample_point
<1>1. PICK edge : edge = doc.edge
  OBVIOUS
<1>2. edge # "absent" /\ edge \in Edges
  BY <1>1 DEF Edges
<1>3. edge = IF doc.edge = "absent" THEN "negedge" ELSE doc.edge
  BY <1>1, <1>2
<1> DEFINE has == doc.sample_point # "absent"
<1>4. /\ ~doc.legacy /\ doc.clock = "ok" /\ edge \in Edges
      /\ has => doc.sample_point \in Points
      /\ ~(reject /\ edge = "negedge" /\ has)
  BY <1>1, <1>2
<1>5. clock = [ok |-> TRUE, edge |-> edge, has_sample_point |-> has,
               sample_point |-> IF has THEN doc.sample_point ELSE "before"]
  BY <1>3, <1>4, Zenon DEF parse_clock_sample_config
<1> QED
  BY <1>1, <1>5

\* An event configuration of a document is read back from its entry.
LEMMA EventWritten ==
  ASSUME NEW fsdb, NEW doc, NEW name \in Names, NEW config,
         config = parse_event_config(doc, name), config.ok
  PROVE  json_to_event(event_to_json(fsdb, config)).ok
<1>1. PICK clock : clock = parse_clock_sample_config(doc, FALSE)
  OBVIOUS
<1> DEFINE Accepted ==
      /\ ~doc.unknown /\ clock.ok
      /\ doc.reset \in Levels \cup {"absent"}
      /\ doc.aliases # {} /\ "malformed" \notin doc.aliases
      /\ \A field \in doc.fields : parse_field_ref(field, doc.aliases)
<1>2. Accepted
  <2>1. CASE ~Accepted
    <3>1. config = Refused
      BY <1>1, <2>1, Zenon DEF parse_event_config
    <3>2. ~config.ok
      BY <3>1 DEF Refused
    <3> QED
      BY <3>2
  <2> QED
    BY <2>1
<1>3. config = [ok |-> TRUE, name |-> name, reset |-> doc.reset, edge |-> clock.edge,
                has_sample_point |-> clock.has_sample_point,
                sample_point |-> clock.sample_point, aliases |-> doc.aliases,
                fields |-> {field.alias : field \in doc.fields}]
  BY <1>1, <1>2, Zenon DEF parse_event_config
<1>4. /\ clock.edge \in Edges /\ clock.sample_point \in Points
  BY <1>1, <1>2, ClockAccepted
<1>5. PICK value : value = event_to_json(fsdb, config)
  OBVIOUS
<1>6. /\ value.name = name /\ value.edge = clock.edge /\ value.reset = doc.reset
      /\ value.aliases = doc.aliases /\ value.fields = {field.alias : field \in doc.fields}
      /\ value.sample_point = IF config.has_sample_point THEN clock.sample_point ELSE "absent"
      /\ (config.has_sample_point <=> clock.has_sample_point)
  BY <1>3, <1>5 DEF event_to_json
<1>7. value.sample_point \in Points \cup {"absent"}
  BY <1>4, <1>6
<1>8. value.fields \subseteq value.aliases
  BY <1>2, <1>6 DEF parse_field_ref
<1>9. name # 0
  BY StoresAssumption
<1>10. /\ value.name # 0 /\ value.edge \in Edges
       /\ value.reset \in Levels \cup {"absent"}
       /\ value.sample_point \in Points \cup {"absent"}
       /\ value.aliases # {} /\ value.fields \subseteq value.aliases
  BY <1>2, <1>4, <1>6, <1>7, <1>8, <1>9
<1>11. PICK read : read = json_to_event(value)
  OBVIOUS
<1>12. read = [ok |-> TRUE, name |-> value.name, reset |-> value.reset,
               edge |-> value.edge,
               has_sample_point |-> value.sample_point # "absent",
               sample_point |-> IF value.sample_point = "absent" THEN "before"
                                ELSE value.sample_point,
               aliases |-> value.aliases, fields |-> value.fields]
  BY <1>10, <1>11, Zenon DEF json_to_event
<1>13. read.ok
  BY <1>12
<1> QED
  BY <1>5, <1>11, <1>13

\* The writer's form of a map of fields is read back as the fields.
LEMMA FieldsWritten ==
  ASSUME NEW map, parse_field_map(map),
         NEW written, written = [present |-> FieldNames(map) # {}, names |-> FieldNames(map)]
  PROVE  parse_field_map(written) /\ FieldNames(written) = FieldNames(map)
<1>1. PICK names : names = FieldNames(map)
  OBVIOUS
<1>2. written = [present |-> names # {}, names |-> names]
  BY <1>1
<1>3. (written.present <=> names # {}) /\ written.names = names
  <2>1. PICK some : some = (names # {})
    OBVIOUS
  <2>2. written = [present |-> some, names |-> names]
    BY <1>2, <2>1, Zenon
  <2>3. written.present = some /\ written.names = names
    BY <2>2
  <2> QED
    BY <2>1, <2>3, Zenon
<1>4. \A field \in names : stream_field_name_valid(field)
  BY <1>1, Zenon DEF FieldNames, parse_field_map
<1>5. parse_field_map(written)
  BY <1>3, <1>4, Zenon DEF parse_field_map
<1>6. FieldNames(written) = names
  BY <1>3 DEF FieldNames
<1> QED
  BY <1>1, <1>5, <1>6

StreamValidity(item) ==
  IF item.channel_id_valid = "absent" THEN "every_beat" ELSE item.channel_id_valid

StreamAccepted(item) ==
  /\ ~item.unknown
  /\ item.name # 0
  /\ parse_signal_map(item.aliases)
  /\ parse_clock_sample_config(item, TRUE).ok
  /\ item.reset \in Levels \cup {"absent"}
  /\ item.vld = "ok"
  /\ "bad" \notin {item.sop, item.eop, item.data, item.channel_id}
  /\ StreamValidity(item) \in {"sop", "eop", "every_beat"}
  /\ parse_field_map(item.packet_stable_fields)
  /\ parse_field_map(item.beat_fields)
  /\ stream_fields_consistent(item, StreamValidity(item))

StreamStruct(item) ==
  LET clock == parse_clock_sample_config(item, TRUE)
  IN [ok |-> TRUE, name |-> item.name, aliases |-> item.aliases,
      edge |-> clock.edge, has_sample_point |-> clock.has_sample_point,
      sample_point |-> clock.sample_point, reset |-> item.reset,
      vld |-> item.vld, sop |-> item.sop, eop |-> item.eop,
      data |-> item.data, channel_id |-> item.channel_id,
      channel_id_valid |-> StreamValidity(item),
      allow_interleaving |-> item.allow_interleaving,
      beat_fields |-> FieldNames(item.beat_fields),
      packet_stable_fields |-> FieldNames(item.packet_stable_fields)]

LEMMA StreamParsed ==
  ASSUME NEW item
  PROVE  parse_stream_config_json(item) =
           IF StreamAccepted(item) THEN StreamStruct(item) ELSE Refused
BY Zenon DEF parse_stream_config_json, StreamAccepted, StreamStruct, StreamValidity

LEMMA StreamOk ==
  ASSUME NEW item
  PROVE  parse_stream_config_json(item).ok <=> StreamAccepted(item)
<1>1. CASE StreamAccepted(item)
  <2>1. parse_stream_config_json(item) = StreamStruct(item)
    BY <1>1, StreamParsed, Zenon
  <2>2. StreamStruct(item).ok
    BY DEF StreamStruct
  <2> QED
    BY <1>1, <2>1, <2>2, Zenon
<1>2. CASE ~StreamAccepted(item)
  <2>1. parse_stream_config_json(item) = Refused
    BY <1>2, StreamParsed, Zenon
  <2>2. ~Refused.ok
    BY DEF Refused
  <2> QED
    BY <1>2, <2>1, <2>2, Zenon
<1> QED
  BY <1>1, <1>2

\* What a stream entry has in common with the document it was made of.
Carries(value, item, clock) ==
  /\ ~value.unknown /\ ~value.legacy /\ value.clock = "ok"
  /\ value.name = item.name /\ value.aliases = item.aliases
  /\ value.edge = clock.edge /\ value.reset = item.reset /\ value.vld = item.vld
  /\ value.sample_point = IF clock.edge = "negedge" THEN "absent" ELSE clock.sample_point
  /\ value.sop = item.sop /\ value.eop = item.eop /\ value.data = item.data
  /\ value.channel_id = item.channel_id
  /\ value.channel_id_valid = StreamValidity(item)
  /\ value.allow_interleaving = item.allow_interleaving
  /\ value.beat_fields = [present |-> FieldNames(item.beat_fields) # {},
                            names |-> FieldNames(item.beat_fields)]
  /\ value.packet_stable_fields =
         [present |-> FieldNames(item.packet_stable_fields) # {},
          names |-> FieldNames(item.packet_stable_fields)]

LEMMA StreamFields ==
  ASSUME NEW item, parse_stream_config_json(item).ok,
         NEW value, value = stream_config_json(parse_stream_config_json(item)),
         NEW clock, clock = parse_clock_sample_config(item, TRUE)
  PROVE  Carries(value, item, clock)
<1>1. PICK config : config = parse_stream_config_json(item)
  OBVIOUS
<1>2. config = StreamStruct(item)
  BY <1>1, StreamOk, StreamParsed, Zenon
<1>3. /\ config.name = item.name /\ config.aliases = item.aliases
      /\ config.edge = clock.edge /\ config.reset = item.reset /\ config.vld = item.vld
      /\ config.sample_point = clock.sample_point
      /\ config.sop = item.sop /\ config.eop = item.eop /\ config.data = item.data
      /\ config.channel_id = item.channel_id
      /\ config.channel_id_valid = StreamValidity(item)
      /\ config.allow_interleaving = item.allow_interleaving
      /\ config.beat_fields = FieldNames(item.beat_fields)
      /\ config.packet_stable_fields = FieldNames(item.packet_stable_fields)
  BY <1>2 DEF StreamStruct
<1>4. value = stream_config_json(config)
  BY <1>1
<1>5. /\ ~value.unknown /\ ~value.legacy /\ value.clock = "ok"
      /\ value.name = config.name /\ value.aliases = config.aliases
      /\ value.edge = config.edge /\ value.reset = config.reset /\ value.vld = config.vld
      /\ value.sample_point = IF config.edge = "negedge" THEN "absent" ELSE config.sample_point
      /\ value.sop = config.sop /\ value.eop = config.eop /\ value.data = config.data
      /\ value.channel_id = config.channel_id
      /\ value.channel_id_valid = config.channel_id_valid
      /\ value.allow_interleaving = config.allow_interleaving
      /\ value.beat_fields = [present |-> config.beat_fields # {}, names |-> config.beat_fields]
      /\ value.packet_stable_fields =
           [present |-> config.packet_stable_fields # {}, names |-> config.packet_stable_fields]
  BY <1>4 DEF stream_config_json
<1> QED
  BY <1>3, <1>5 DEF Carries

LEMMA Consistent ==
  ASSUME NEW item, NEW value, NEW valid,
         value.sop = item.sop, value.eop = item.eop, value.data = item.data,
         value.channel_id = item.channel_id,
         value.allow_interleaving = item.allow_interleaving,
         FieldNames(value.beat_fields) = FieldNames(item.beat_fields),
         FieldNames(value.packet_stable_fields) = FieldNames(item.packet_stable_fields),
         stream_fields_consistent(item, valid)
  PROVE  stream_fields_consistent(value, valid)
<1>1. PacketEnabled(value) <=> PacketEnabled(item)
  BY DEF PacketEnabled
<1> QED
  BY <1>1, Zenon DEF stream_fields_consistent

\* A stream configuration of a document is read back from its entry, and the
\* writer gives it the form it has.
LEMMA StreamWritten ==
  ASSUME NEW item, parse_stream_config_json(item).ok, item.name \in Nat,
         NEW value, value = stream_config_json(parse_stream_config_json(item))
  PROVE  StreamEntry(value) /\ value.name = item.name
<1>1. PICK clock : clock = parse_clock_sample_config(item, TRUE)
  OBVIOUS
<1>2. PICK valid : valid = StreamValidity(item)
  OBVIOUS
<1>3. StreamAccepted(item)
  BY StreamOk, Zenon
<1>4. /\ ~value.unknown /\ ~value.legacy /\ value.clock = "ok"
      /\ value.name = item.name /\ value.aliases = item.aliases
      /\ value.edge = clock.edge /\ value.reset = item.reset /\ value.vld = item.vld
      /\ value.sample_point = IF clock.edge = "negedge" THEN "absent" ELSE clock.sample_point
      /\ value.sop = item.sop /\ value.eop = item.eop /\ value.data = item.data
      /\ value.channel_id = item.channel_id
      /\ value.channel_id_valid = valid
      /\ value.allow_interleaving = item.allow_interleaving
      /\ value.beat_fields = [present |-> FieldNames(item.beat_fields) # {},
                              names |-> FieldNames(item.beat_fields)]
      /\ value.packet_stable_fields =
           [present |-> FieldNames(item.packet_stable_fields) # {},
            names |-> FieldNames(item.packet_stable_fields)]
  <2>1. Carries(value, item, clock)
    BY <1>1, StreamFields
  <2> QED
    BY <1>2, <2>1 DEF Carries
<1>5. clock.edge \in Edges /\ clock.sample_point \in Points
  BY <1>1, <1>3, ClockAccepted, Zenon DEF StreamAccepted
<1>6. PICK read : read = parse_clock_sample_config(value, TRUE)
  OBVIOUS
<1>7. /\ read.ok /\ read.edge = clock.edge
      /\ clock.edge # "negedge" => read.sample_point = clock.sample_point
  <2>1. /\ ~value.legacy /\ value.clock = "ok" /\ value.edge \in Edges
        /\ value.sample_point = "absent" \/ value.sample_point \in Points
        /\ value.edge = "negedge" => value.sample_point = "absent"
    BY <1>4, <1>5
  <2>2. /\ read.ok /\ read.edge = value.edge
        /\ value.sample_point # "absent" => read.sample_point = value.sample_point
    BY <1>6, <2>1, ClockTaken
  <2>3. clock.edge # "negedge" => value.sample_point = clock.sample_point
    BY <1>4
  <2>4. clock.sample_point # "absent"
    BY <1>5 DEF Points
  <2> QED
    BY <1>4, <2>2, <2>3, <2>4
<1>8. StreamValidity(value) = valid
  <2>1. valid # "absent"
    BY <1>2, <1>3 DEF StreamAccepted
  <2> QED
    BY <1>4, <2>1 DEF StreamValidity
<1>9. /\ parse_field_map(value.beat_fields)
      /\ FieldNames(value.beat_fields) = FieldNames(item.beat_fields)
      /\ parse_field_map(value.packet_stable_fields)
      /\ FieldNames(value.packet_stable_fields) = FieldNames(item.packet_stable_fields)
  <2>1. parse_field_map(item.beat_fields) /\ parse_field_map(item.packet_stable_fields)
    BY <1>3, Zenon DEF StreamAccepted
  <2>2. PICK beat : beat = value.beat_fields
    OBVIOUS
  <2>3. PICK stable : stable = value.packet_stable_fields
    OBVIOUS
  <2>4. parse_field_map(beat) /\ FieldNames(beat) = FieldNames(item.beat_fields)
    BY <1>4, <2>1, <2>2, FieldsWritten
  <2>5. /\ parse_field_map(stable)
        /\ FieldNames(stable) = FieldNames(item.packet_stable_fields)
    BY <1>4, <2>1, <2>3, FieldsWritten
  <2> QED
    BY <2>2, <2>3, <2>4, <2>5
<1>10. stream_fields_consistent(value, valid)
  BY <1>2, <1>3, <1>4, <1>9, Consistent, Zenon DEF StreamAccepted
<1>11. StreamAccepted(value)
  <2>1. ~value.unknown /\ value.name # 0 /\ parse_signal_map(value.aliases)
    BY <1>3, <1>4, Zenon DEF StreamAccepted
  <2>2. /\ value.reset \in Levels \cup {"absent"} /\ value.vld = "ok"
        /\ "bad" \notin {value.sop, value.eop, value.data, value.channel_id}
    BY <1>3, <1>4, Zenon DEF StreamAccepted
  <2>3. valid \in {"sop", "eop", "every_beat"}
    BY <1>2, <1>3, Zenon DEF StreamAccepted
  <2> QED
    BY <1>6, <1>7, <1>8, <1>9, <1>10, <2>1, <2>2, <2>3, Zenon DEF StreamAccepted
<1>12. PICK again : again = stream_config_json(parse_stream_config_json(value))
  OBVIOUS
<1>13. parse_stream_config_json(value).ok
  BY <1>11, StreamOk, Zenon
<1>14. again = value
  <2>1. /\ ~again.unknown /\ ~again.legacy /\ again.clock = "ok"
        /\ again.name = value.name /\ again.aliases = value.aliases
        /\ again.edge = read.edge /\ again.reset = value.reset /\ again.vld = value.vld
        /\ again.sample_point = IF read.edge = "negedge" THEN "absent" ELSE read.sample_point
        /\ again.sop = value.sop /\ again.eop = value.eop /\ again.data = value.data
        /\ again.channel_id = value.channel_id
        /\ again.channel_id_valid = valid
        /\ again.allow_interleaving = value.allow_interleaving
        /\ again.beat_fields = [present |-> FieldNames(value.beat_fields) # {},
                                names |-> FieldNames(value.beat_fields)]
        /\ again.packet_stable_fields =
             [present |-> FieldNames(value.packet_stable_fields) # {},
              names |-> FieldNames(value.packet_stable_fields)]
    <3>1. Carries(again, value, read)
      BY <1>6, <1>12, <1>13, StreamFields
    <3> QED
      BY <1>8, <3>1 DEF Carries
  <2>2. again.beat_fields = value.beat_fields
    BY <1>4, <1>9, <2>1
  <2>3. again.packet_stable_fields = value.packet_stable_fields
    BY <1>4, <1>9, <2>1
  <2>4. again.sample_point = value.sample_point /\ again.edge = value.edge
    BY <1>4, <1>7, <2>1
  <2>5. again.channel_id_valid = value.channel_id_valid
    BY <1>4, <2>1
  <2>6. ASSUME NEW c
        PROVE  stream_config_json(c) =
                 [unknown |-> FALSE, legacy |-> FALSE, name |-> stream_config_json(c).name,
                  aliases |-> stream_config_json(c).aliases, clock |-> "ok",
                  edge |-> stream_config_json(c).edge,
                  sample_point |-> stream_config_json(c).sample_point,
                  reset |-> stream_config_json(c).reset, vld |-> stream_config_json(c).vld,
                  sop |-> stream_config_json(c).sop, eop |-> stream_config_json(c).eop,
                  data |-> stream_config_json(c).data,
                  channel_id |-> stream_config_json(c).channel_id,
                  channel_id_valid |-> stream_config_json(c).channel_id_valid,
                  allow_interleaving |-> stream_config_json(c).allow_interleaving,
                  beat_fields |-> stream_config_json(c).beat_fields,
                  packet_stable_fields |-> stream_config_json(c).packet_stable_fields]
    BY DEF stream_config_json
  <2> DEFINE Form(v) ==
        v = [unknown |-> FALSE, legacy |-> FALSE, name |-> v.name, aliases |-> v.aliases,
             clock |-> "ok", edge |-> v.edge, sample_point |-> v.sample_point,
             reset |-> v.reset, vld |-> v.vld, sop |-> v.sop, eop |-> v.eop,
             data |-> v.data, channel_id |-> v.channel_id,
             channel_id_valid |-> v.channel_id_valid,
             allow_interleaving |-> v.allow_interleaving,
             beat_fields |-> v.beat_fields,
             packet_stable_fields |-> v.packet_stable_fields]
  <2>7. Form(again) /\ Form(value)
    BY <1>12, <2>6
  <2> QED
    BY <2>1, <2>2, <2>3, <2>4, <2>5, <2>7
<1> QED
  BY <1>4, <1>12, <1>13, <1>14 DEF StreamEntry

(***************************************************************************)
(* A good store is readable.                                               *)
(***************************************************************************)
LEMMA GoodUnique ==
  ASSUME NEW seq, Listing(seq), Identified(Range(seq))
  PROVE  Unique(seq)
<1>1. PICK ids : ids = [i \in DOMAIN seq |-> IdentityOf(seq[i])]
  OBVIOUS
<1>2. Len(seq) \in Nat /\ DOMAIN seq = 1..Len(seq) /\ NoRepeat(seq)
  BY ListingFacts
<1>3. DOMAIN ids = DOMAIN seq /\ \A i \in DOMAIN seq : ids[i] = IdentityOf(seq[i])
  BY <1>1
<1>4. Range(ids) = {IdentityOf(seq[i]) : i \in DOMAIN seq}
  BY <1>3 DEF Range
<1>5. ids \in Seq(Range(ids)) /\ Len(ids) = Len(seq)
  <2>1. PICK n \in Nat : n = Len(seq)
    BY <1>2
  <2>2. PICK T : T = Range(ids)
    OBVIOUS
  <2>3. ids = [i \in 1..n |-> ids[i]] /\ \A i \in 1..n : ids[i] \in T
    BY <1>1, <1>2, <1>3, <2>1, <2>2 DEF Range
  <2>4. ids \in [1..n -> T]
    BY <2>3
  <2>5. ids \in Seq(T) /\ Len(ids) = n
    BY <2>4
  <2> QED
    BY <2>1, <2>2, <2>5
<1>6. NoRepeat(ids)
  <2>1. ASSUME NEW i \in DOMAIN seq, NEW j \in DOMAIN seq,
               IdentityOf(seq[i]) = IdentityOf(seq[j])
        PROVE  i = j
    <3>1. seq[i] \in Range(seq) /\ seq[j] \in Range(seq)
      BY DEF Range
    <3>2. seq[i] = seq[j]
      BY <2>1, <3>1 DEF Identified
    <3> QED
      BY <1>2, <3>2 DEF NoRepeat
  <2> QED
    BY <1>3, <2>1 DEF NoRepeat
<1>7. Cardinality(Range(ids)) = Len(seq)
  BY <1>5, <1>6, NoRepeatLen
<1> QED
  BY <1>4, <1>7 DEF Unique

LEMMA ListRead ==
  ASSUME NEW entry, ListEntry(entry)
  PROVE  json_to_list(entry)
<1>1. PICK s : s = entry.signals
  OBVIOUS
<1>2. s \in Seq(Signals) /\ NoRepeat(s)
  BY <1>1 DEF ListEntry
<1>3. Cardinality(Range(s)) = Len(s)
  BY <1>2, NoRepeatLen
<1> QED
  BY <1>1, <1>3 DEF json_to_list

LEMMA CursorRead ==
  ASSUME NEW entry, CursorEntry(entry)
  PROVE  json_to_cursor(entry)
<1>1. entry.origin \in Origins /\ entry.time \in Nat /\ entry.created_at \in Nat
  BY DEF CursorEntry
<1>2. entry.time >= 0 /\ entry.created_at >= 0
  BY <1>1
<1>3. entry.origin # ""
  BY <1>1, Zenon DEF Origins
<1> QED
  BY <1>2, <1>3, Zenon DEF json_to_cursor

LEMMA AtMostOneActive ==
  ASSUME NEW seq, Listing(seq), \A a, b \in Range(seq) : a.active /\ b.active => a = b
  PROVE  Cardinality({i \in DOMAIN seq : seq[i].active}) <= 1
<1> DEFINE M == {i \in DOMAIN seq : seq[i].active}
<1>1. ASSUME NEW i \in M, NEW j \in M PROVE i = j
  <2>1. seq[i] \in Range(seq) /\ seq[j] \in Range(seq)
    BY DEF Range
  <2>2. seq[i] = seq[j]
    BY <2>1
  <2> QED
    BY <2>2, ListingFacts DEF NoRepeat
<1>2. CASE M = {}
  BY <1>2, FS_EmptySet
<1>3. CASE M # {}
  <2>1. PICK i : i \in M
    BY <1>3
  <2>2. M = {i}
    BY <1>1, <2>1
  <2>3. Cardinality({i}) = 1
    BY FS_Singleton
  <2> QED
    BY <2>2, <2>3
<1> QED
  BY <1>2, <1>3

LEMMA GoodReadable ==
  ASSUME NEW seq, kind \in Kinds, Good(seq)
  PROVE  parse_items(seq)
<1>1. Listing(seq) /\ Unique(seq) /\ \A i \in DOMAIN seq : EntryOk(seq[i])
  BY GoodUnique DEF Good, GoodSet, Range
<1>2. CASE kind = "lists"
  <2>1. \A i \in DOMAIN seq : ListEntry(seq[i])
    BY <1>1, <1>2 DEF EntryOk
  <2>2. parse_lists(seq)
    BY <1>1, <2>1, ListRead DEF parse_lists
  <2> QED
    BY <1>2, <2>2 DEF parse_items
<1>3. CASE kind = "cursors"
  <2>1. \A i \in DOMAIN seq : CursorEntry(seq[i])
    BY <1>1, <1>3 DEF EntryOk
  <2>2. Cardinality({i \in DOMAIN seq : seq[i].active}) <= 1
    BY <1>1, <1>3, AtMostOneActive DEF Good, GoodSet, OneActive
  <2>3. parse_cursors(seq)
    BY <1>1, <2>1, <2>2, CursorRead DEF parse_cursors
  <2> QED
    BY <1>3, <2>3 DEF parse_items
<1>4. CASE kind = "apb"
  <2>1. parse_apb_configs(seq)
    BY <1>1, <1>4 DEF EntryOk, parse_apb_configs
  <2> QED
    BY <1>4, <2>1 DEF parse_items
<1>5. CASE kind = "axi"
  <2>1. parse_axi_configs(seq)
    BY <1>1, <1>5 DEF EntryOk, parse_axi_configs
  <2> QED
    BY <1>5, <2>1 DEF parse_items
<1>6. CASE kind = "events"
  <2>1. parse_event_configs(seq)
    BY <1>1, <1>6 DEF EntryOk, parse_event_configs
  <2> QED
    BY <1>6, <2>1 DEF parse_items
<1>7. CASE kind = "streams"
  <2>1. \A i \in DOMAIN seq : StreamEntry(seq[i])
    BY <1>1, <1>7 DEF EntryOk
  <2>2. parse_stored_streams(seq)
    BY <1>1, <2>1 DEF parse_stored_streams, StreamEntry
  <2> QED
    BY <1>7, <2>2 DEF parse_items
<1> QED
  BY <1>2, <1>3, <1>4, <1>5, <1>6, <1>7 DEF Kinds

\* A "@" resolves to the name of the active cursor, or to none.
LEMMA ActiveName ==
  ASSUME NEW seq, kind = "cursors", Good(seq)
  PROVE  /\ \A a \in Range(seq) : a.active => get_active_cursor(seq) = a.name
         /\ (\A a \in Range(seq) : ~a.active) => get_active_cursor(seq) = 0
<1> DEFINE M == {i \in DOMAIN seq : seq[i].active}
<1>0. Len(seq) \in Nat /\ DOMAIN seq = 1..Len(seq) /\ NoRepeat(seq)
  BY ListingFacts DEF Good
<1>1. ASSUME NEW a \in Range(seq), a.active
      PROVE  get_active_cursor(seq) = a.name
  <2>1. PICK i \in DOMAIN seq : seq[i] = a
    BY DEF Range
  <2>2. i \in M
    BY <1>1, <2>1
  <2>3. ASSUME NEW j \in M PROVE j = i
    <3>1. seq[j] \in Range(seq) /\ seq[j].active
      BY DEF Range
    <3>2. seq[j] = a
      BY <1>1, <3>1 DEF Good, GoodSet, OneActive
    <3> QED
      BY <1>0, <2>1, <3>2 DEF NoRepeat
  <2>4. M = {i} /\ i \in Nat
    BY <1>0, <2>2, <2>3
  <2> HIDE DEF M
  <2>5. (CHOOSE x \in M : \A y \in M : x <= y) = i
    BY <2>4
  <2>6. get_active_cursor(seq) = seq[CHOOSE x \in M : \A y \in M : x <= y].name
    BY <2>4 DEF get_active_cursor, M
  <2> QED
    BY <2>1, <2>5, <2>6
<1>2. ASSUME \A a \in Range(seq) : ~a.active
      PROVE  get_active_cursor(seq) = 0
  <2>1. M = {}
    BY <1>2 DEF Range
  <2> QED
    BY <2>1 DEF get_active_cursor
<1> QED
  BY <1>1, <1>2

(***************************************************************************)
(* One operation on a store.                                               *)
(***************************************************************************)
\* seq differs from the store only in entries of the names.
Keeps(op, names, seq) ==
  /\ {Content(entry) : entry \in Untouched(items, names)}
       = {Content(entry) : entry \in Untouched(seq, names)}
  /\ kind = "cursors" /\ get_active_cursor(items) # get_active_cursor(seq)
       => \/ get_active_cursor(seq) \in names
          \/ get_active_cursor(items) \in names /\ op = "remove"

Proper(op, names, outcome) ==
  outcome.status = "ok" => Good(outcome.items) /\ Keeps(op, names, outcome.items)

LEMMA GoodNext ==
  ASSUME kind \in Kinds, kind' = kind, Good(items')
  PROVE  StoreInv'
<1>1. \A e : EntryOk(e)' <=> EntryOk(e)
  BY DEF EntryOk
<1>2. \A s : Identified(s)' <=> Identified(s)
  BY DEF Identified, IdentityOf
<1>3. \A s : OneActive(s)' <=> OneActive(s)
  BY DEF OneActive
<1> QED
  BY <1>1, <1>2, <1>3 DEF StoreInv, Good, GoodSet

LEMMA QuietStep ==
  ASSUME StoreInv, UNCHANGED <<kind, items>>
  PROVE  StoreInv' /\ NamedEntriesChange
<1>1. StoreInv'
  BY GoodNext DEF StoreInv
<1> QED
  BY <1>1 DEF NamedEntriesChange

LEMMA UpdateStep ==
  ASSUME StoreInv, NEW op, NEW names, NEW outcome, Proper(op, names, outcome),
         store_update(op, names, outcome)
  PROVE  StoreInv' /\ NamedEntriesChange
<1>1. kind' = kind
  BY DEF store_update
<1>2. CASE items' = items
  BY <1>1, <1>2, QuietStep
<1>3. CASE items' # items
  <2>1. /\ outcome.status = "ok" /\ items' = outcome.items
        /\ \E status \in {"ok", "io"} :
             reply' = [status |-> status, names |-> names, op |-> op]
    BY <1>3 DEF store_update
  <2>2. PICK status \in {"ok", "io"} : reply' = [status |-> status, names |-> names, op |-> op]
    BY <2>1
  <2>3. reply'.status \in {"ok", "io"} /\ reply'.names = names /\ reply'.op = op
    BY <2>2
  <2>4. Good(items') /\ Keeps(op, names, items')
    BY <2>1 DEF Proper
  <2>5. StoreInv'
    BY <1>1, <2>4, GoodNext DEF StoreInv
  <2>6. NamedEntriesChange
    BY <2>3, <2>4, Zenon DEF NamedEntriesChange, Keeps
  <2> QED
    BY <2>5, <2>6
<1> QED
  BY <1>2, <1>3

LEMMA RefusedStep ==
  ASSUME StoreInv, NEW op, NEW names, store_refused(op, names)
  PROVE  StoreInv' /\ NamedEntriesChange
BY QuietStep DEF store_refused

LEMMA ReadStep ==
  ASSUME StoreInv, NEW found, store_read(found)
  PROVE  StoreInv' /\ NamedEntriesChange
BY QuietStep DEF store_read

LEMMA RefusedProper ==
  ASSUME NEW op, NEW names, NEW status \in {"conflict", "not_found", "precondition", "invalid"}
  PROVE  Proper(op, names, Refuse(status))
<1>1. Refuse(status).status # "ok"
  BY DEF Refuse
<1> QED
  BY <1>1 DEF Proper

LEMMA StoredProper ==
  ASSUME NEW op, NEW names, NEW seq, Good(seq), Keeps(op, names, seq)
  PROVE  Proper(op, names, Stored(seq))
BY DEF Proper, Stored

\* In the stores of lists, buses and streams a name identifies an entry.
LEMMA NameIdentifies ==
  ASSUME kind # "events", NEW a, NEW b
  PROVE  IdentityOf(a) = IdentityOf(b) <=> a.name = b.name
<1>1. IdentityOf(a) = <<a.name>> /\ IdentityOf(b) = <<b.name>>
  BY DEF IdentityOf
<1>2. ASSUME <<a.name>> = <<b.name>> PROVE a.name = b.name
  <2>1. <<a.name>>[1] = <<b.name>>[1]
    BY <1>2
  <2> QED
    BY <2>1
<1> QED
  BY <1>1, <1>2

LEMMA KeepsSame ==
  ASSUME kind # "cursors", NEW op, NEW names, NEW seq,
         Untouched(items, names) = Untouched(seq, names)
  PROVE  Keeps(op, names, seq)
BY DEF Keeps

Others(seq, names) == {entry \in Range(seq) : entry.name \notin names}

\* New entries of the names take the place of the old ones.
LEMMA ReplacedProper ==
  ASSUME StoreInv, kind \notin {"cursors", "events"}, NEW op, NEW names, NEW fresh,
         \A e \in fresh : EntryOk(e) /\ e.name \in names,
         \A a, b \in fresh : a.name = b.name => a = b,
         NEW seq, Listing(seq), Range(seq) = Others(items, names) \cup fresh
  PROVE  Proper(op, names, Stored(seq))
<1>1. PICK old : old = Range(items)
  OBVIOUS
<1>2. /\ \A a, b \in old : a.name = b.name => a = b
      /\ \A e \in old : EntryOk(e)
  BY <1>1, NameIdentifies DEF StoreInv, Good, GoodSet, Identified
<1>3. Others(items, names) = {e \in old : e.name \notin names}
  BY <1>1 DEF Others
<1>4. ASSUME NEW a \in Range(seq), NEW b \in Range(seq), a.name = b.name
      PROVE  a = b
  <2>1. CASE a.name \in names
    BY <1>3, <1>4, <2>1
  <2>2. CASE a.name \notin names
    BY <1>2, <1>3, <1>4, <2>2
  <2> QED
    BY <2>1, <2>2
<1>5. Identified(Range(seq))
  BY <1>4, NameIdentifies DEF Identified
<1>6. \A e \in Range(seq) : EntryOk(e)
  BY <1>2, <1>3
<1>7. Good(seq)
  BY <1>5, <1>6 DEF Good, GoodSet, OneActive
<1>8. Untouched(items, names) = Others(items, names)
  BY DEF Untouched, Others
<1>9. Untouched(seq, names) = Others(items, names)
  BY <1>3 DEF Untouched
<1> QED
  BY <1>7, <1>8, <1>9, KeepsSame, StoredProper

LEMMA NamesOfRange ==
  ASSUME NEW seq
  PROVE  NamesOf(seq) = {e.name : e \in Range(seq)}
BY DEF NamesOf, Range

LEMMA ItemsFacts ==
  ASSUME StoreInv
  PROVE  /\ Listing(items) /\ IsFiniteSet(Range(items))
         /\ \A e \in Range(items) : EntryOk(e)
         /\ kind # "events" => \A a, b \in Range(items) : a.name = b.name => a = b
<1>1. Listing(items) /\ GoodSet(Range(items))
  BY DEF StoreInv, Good
<1>2. kind # "events" => \A a, b \in Range(items) : a.name = b.name => a = b
  BY <1>1, NameIdentifies DEF GoodSet, Identified
<1> QED
  BY <1>1, <1>2, ListingFacts DEF GoodSet

\* One new entry, whose name is not taken, goes to the end.
LEMMA AppendedProper ==
  ASSUME StoreInv, kind \notin {"cursors", "events"}, NEW op, NEW value, EntryOk(value),
         value.name \notin NamesOf(items)
  PROVE  Proper(op, {value.name}, Stored(Append(items, value)))
<1>1. PICK names : names = {value.name}
  OBVIOUS
<1>2. \A e \in Range(items) : e.name # value.name
  BY NamesOfRange
<1>3. Others(items, names) = Range(items)
  BY <1>1, <1>2 DEF Others
<1>4. PICK seq : seq = Append(items, value)
  OBVIOUS
<1>5. Listing(seq) /\ Range(seq) = Range(items) \cup {value}
  BY <1>2, <1>4, ItemsFacts, AppendListing
<1>6. PICK fresh : fresh = {value}
  OBVIOUS
<1>7. /\ \A e \in fresh : EntryOk(e) /\ e.name \in names
      /\ \A a, b \in fresh : a.name = b.name => a = b
      /\ Range(seq) = Others(items, names) \cup fresh
  BY <1>1, <1>3, <1>5, <1>6
<1>8. Proper(op, names, Stored(seq))
  BY <1>5, <1>7, ReplacedProper
<1> QED
  BY <1>1, <1>4, <1>8

LEMMA WithoutName ==
  ASSUME StoreInv, NEW name
  PROVE  Listing(Without(items, name)) /\ Range(Without(items, name)) = Others(items, {name})
<1>1. PICK S : S = {entry \in Range(items) : entry.name # name}
  OBVIOUS
<1>2. Listing(Filtered(items, S)) /\ Range(Filtered(items, S)) = Range(items) \cap S
  BY ItemsFacts, FilteredListing
<1>3. Without(items, name) = Filtered(items, S)
  BY <1>1, Zenon DEF Without
<1>4. Range(items) \cap S = Others(items, {name})
  BY <1>1 DEF Others
<1> QED
  BY <1>2, <1>3, <1>4

\* A changed entry moves to the end.
LEMMA MovedProper ==
  ASSUME StoreInv, kind \notin {"cursors", "events"}, NEW op, NEW entry, EntryOk(entry)
  PROVE  Proper(op, {entry.name}, move_to_end(entry))
<1>1. PICK name : name = entry.name
  OBVIOUS
<1>2. PICK rest : rest = Without(items, name)
  OBVIOUS
<1>3. Listing(rest) /\ Range(rest) = Others(items, {name})
  BY <1>2, WithoutName
<1>4. entry \notin Range(rest)
  BY <1>1, <1>3 DEF Others
<1>5. PICK seq : seq = Append(rest, entry)
  OBVIOUS
<1>6. Listing(seq) /\ Range(seq) = Others(items, {name}) \cup {entry}
  BY <1>3, <1>4, <1>5, AppendListing
<1>7. PICK fresh : fresh = {entry}
  OBVIOUS
<1>8. PICK names : names = {name}
  OBVIOUS
<1>9. /\ \A e \in fresh : EntryOk(e) /\ e.name \in names
      /\ \A a, b \in fresh : a.name = b.name => a = b
      /\ Range(seq) = Others(items, names) \cup fresh
  BY <1>1, <1>6, <1>7, <1>8
<1>10. Proper(op, names, Stored(seq))
  BY <1>6, <1>9, ReplacedProper
<1>11. move_to_end(entry) = Stored(seq)
  BY <1>1, <1>2, <1>5, Zenon DEF move_to_end
<1> QED
  BY <1>1, <1>8, <1>10, <1>11

(***************************************************************************)
(* The loaders.                                                            *)
(***************************************************************************)
\* What a document brings: entries with different names.
Fresh(incoming) ==
  /\ Listing(incoming)
  /\ \A e \in Range(incoming) : EntryOk(e) /\ e.name \in Nat
  /\ \A a, b \in Range(incoming) : a.name = b.name => a = b

LEMMA DistinctNames ==
  ASSUME NEW T, NEW s \in Seq(T), Cardinality(NamesOf(s)) = Len(s)
  PROVE  Listing(s) /\ \A a, b \in Range(s) : a.name = b.name => a = b
<1>1. PICK n \in Nat : n = Len(s)
  OBVIOUS
<1>2. PICK names : names = [i \in 1..n |-> s[i].name]
  OBVIOUS
<1>3. DOMAIN s = 1..n /\ DOMAIN names = 1..n /\ \A i \in 1..n : names[i] = s[i].name
  BY <1>1, <1>2
<1>4. Range(names) = NamesOf(s)
  BY <1>3 DEF Range, NamesOf
<1>5. names \in Seq(Range(names)) /\ Len(names) = n
  <2>1. PICK R : R = Range(names)
    OBVIOUS
  <2>2. names \in [1..n -> R]
    BY <1>2, <1>3, <2>1 DEF Range
  <2>3. names \in Seq(R) /\ Len(names) = n
    BY <2>2
  <2> QED
    BY <2>1, <2>3
<1>6. NoRepeat(names)
  BY <1>1, <1>4, <1>5, LenNoRepeat
<1>7. \A i, j \in 1..n : s[i].name = s[j].name => i = j
  BY <1>3, <1>6 DEF NoRepeat
<1>8. NoRepeat(s)
  BY <1>3, <1>7 DEF NoRepeat
<1>9. ASSUME NEW a \in Range(s), NEW b \in Range(s), a.name = b.name
      PROVE  a = b
  <2>1. PICK i \in 1..n : a = s[i]
    BY <1>3 DEF Range
  <2>2. PICK j \in 1..n : b = s[j]
    BY <1>3 DEF Range
  <2>3. i = j
    BY <1>7, <1>9, <2>1, <2>2
  <2> QED
    BY <2>1, <2>2, <2>3
<1> QED
  BY <1>8, <1>9, SeqOfRange DEF Listing

LEMMA AppendAllProper ==
  ASSUME StoreInv, kind \notin {"cursors", "events"}, NEW op, NEW incoming, Fresh(incoming)
  PROVE  Proper(op, NamesOf(incoming), append_all(incoming))
<1>1. PICK names : names = NamesOf(incoming)
  OBVIOUS
<1>2. CASE NamesOf(items) \cap names # {}
  <2>1. append_all(incoming) = Refuse("conflict")
    BY <1>1, <1>2 DEF append_all
  <2> QED
    BY <2>1, RefusedProper
<1>3. CASE NamesOf(items) \cap names = {}
  <2>1. PICK seq : seq = items \o incoming
    OBVIOUS
  <2>2. append_all(incoming) = Stored(seq)
    BY <1>1, <1>3, <2>1 DEF append_all
  <2>3. PICK fresh : fresh = Range(incoming)
    OBVIOUS
  <2>4. names = {e.name : e \in fresh}
    BY <1>1, <2>3, NamesOfRange
  <2>5. \A e \in Range(items) : e.name \notin names
    BY <1>3, NamesOfRange
  <2>6. Range(items) \cap Range(incoming) = {}
    BY <2>3, <2>4, <2>5
  <2>7. Listing(seq) /\ Range(seq) = Range(items) \cup fresh
    BY <2>1, <2>3, <2>6, ItemsFacts, ConcatListing DEF Fresh
  <2>8. Others(items, names) = Range(items)
    BY <2>5 DEF Others
  <2>9. /\ \A e \in fresh : EntryOk(e) /\ e.name \in names
        /\ \A a, b \in fresh : a.name = b.name => a = b
        /\ Range(seq) = Others(items, names) \cup fresh
    BY <2>3, <2>4, <2>7, <2>8 DEF Fresh
  <2>10. Proper(op, names, Stored(seq))
    BY <2>7, <2>9, ReplacedProper
  <2> QED
    BY <1>1, <2>2, <2>10
<1> QED
  BY <1>2, <1>3

LEMMA NamedByNumber ==
  ASSUME kind \in {"lists", "streams"}, NEW e, EntryOk(e)
  PROVE  e.name \in Nat
<1>1. CASE kind = "lists"
  <2>1. e.name \in Names
    BY <1>1 DEF EntryOk, ListEntry
  <2> QED
    BY <2>1, StoresAssumption
<1>2. CASE kind = "streams"
  BY <1>2 DEF EntryOk, StreamEntry
<1> QED
  BY <1>1, <1>2

LEMMA ReplaceProper ==
  ASSUME StoreInv, kind \in {"lists", "streams"}, NEW op, NEW incoming, Fresh(incoming)
  PROVE  Proper(op, NamesOf(incoming), replace_by_name(incoming))
<1>1. PICK names : names = NamesOf(incoming)
  OBVIOUS
<1>2. PICK fresh : fresh = Range(incoming)
  OBVIOUS
<1>3. PICK kept : kept = Others(items, names)
  OBVIOUS
<1>4. PICK set : set = kept \cup fresh
  OBVIOUS
<1>5. PICK seq : seq = Increasing(set)
  OBVIOUS
<1>6. replace_by_name(incoming) = Stored(seq)
  BY <1>1, <1>2, <1>3, <1>4, <1>5, Zenon DEF replace_by_name, Others
<1>7. /\ \A e \in fresh : EntryOk(e) /\ e.name \in names /\ e.name \in Nat
      /\ \A a, b \in fresh : a.name = b.name => a = b
  BY <1>1, <1>2, NamesOfRange DEF Fresh
<1>8. /\ kept \subseteq Range(items) /\ \A e \in kept : e.name \notin names /\ EntryOk(e)
      /\ \A a, b \in kept : a.name = b.name => a = b
  BY <1>3, ItemsFacts DEF Others
<1>9. IsFiniteSet(set)
  <2>1. IsFiniteSet(kept)
    BY <1>8, ItemsFacts, FS_Subset
  <2>2. IsFiniteSet(fresh)
    BY <1>2, ListingFacts DEF Fresh
  <2> QED
    BY <1>4, <2>1, <2>2, FS_Union
<1>10. \A e \in set : e.name \in Nat
  BY <1>4, <1>7, <1>8, NamedByNumber
<1>11. \A a, b \in set : a.name = b.name => a = b
  BY <1>4, <1>7, <1>8
<1>12. Listing(seq) /\ Range(seq) = set
  BY <1>5, <1>9, <1>10, <1>11, IncreasingListing
<1>13. Proper(op, names, Stored(seq))
  BY <1>3, <1>4, <1>7, <1>12, ReplacedProper
<1> QED
  BY <1>1, <1>6, <1>13

LEMMA LoadListsProper ==
  ASSUME StoreInv, kind = "lists", NEW op, NEW incoming, Fresh(incoming), NEW mode
  PROVE  Proper(op, NamesOf(incoming), load_lists(incoming, mode))
BY AppendAllProper, ReplaceProper DEF load_lists

LEMMA LoadConfigsProper ==
  ASSUME StoreInv, kind = "streams", NEW op, NEW incoming, Fresh(incoming), NEW mode
  PROVE  Proper(op, NamesOf(incoming), load_configs(incoming, mode))
BY AppendAllProper, ReplaceProper DEF load_configs

(***************************************************************************)
(* Lists.                                                                  *)
(***************************************************************************)
LEMMA ListOk ==
  ASSUME kind = "lists", NEW entry
  PROVE  EntryOk(entry) <=> ListEntry(entry)
BY DEF EntryOk

LEMMA SignalSequences ==
  ASSUME NEW signals \in SeqOf(Signals, 2)
  PROVE  signals \in Seq(Signals)
<1>1. PICK m \in 0..2 : signals \in [1..m -> Signals]
  BY DEF SeqOf
<1> QED
  BY <1>1

LEMMA NewList ==
  ASSUME NEW name \in Names, NEW signals \in Seq(Signals),
         NEW entry, entry = [name |-> name, signals |-> signals],
         Cardinality(Range(signals)) = Len(signals)
  PROVE  ListEntry(entry) /\ entry.name = name
<1>1. NoRepeat(signals)
  BY LenNoRepeat
<1>2. entry \in [name : Names, signals : Seq(Signals)] /\ entry.signals = signals
  <2>1. PICK S : S = Seq(Signals)
    OBVIOUS
  <2>2. signals \in S
    BY <2>1
  <2>3. entry \in [name : Names, signals : S] /\ entry.signals = signals
    BY <2>2
  <2> QED
    BY <2>1, <2>3
<1> QED
  BY <1>1, <1>2 DEF ListEntry

LEMMA ListDocument ==
  ASSUME kind = "lists", NEW signals \in SeqOf(Signals, 2), NEW loaded \in Seq(Names),
         NEW incoming,
         incoming = list_document(loaded, signals),
         list_document_ok(incoming)
  PROVE  Fresh(incoming)
<1>1. PICK n \in Nat : n = Len(loaded)
  OBVIOUS
<1>2. PICK T : T = {[name |-> name, signals |-> signals] : name \in Names}
  OBVIOUS
<1>3. /\ DOMAIN incoming = 1..n
      /\ \A i \in 1..n : /\ loaded[i] \in Names
                         /\ incoming[i] = [name |-> loaded[i], signals |-> signals]
  BY <1>1 DEF list_document
<1>4. incoming \in Seq(T)
  <2>1. incoming \in [1..n -> T]
    BY <1>1, <1>2, <1>3 DEF list_document
  <2> QED
    BY <2>1
<1>5. Listing(incoming) /\ \A a, b \in Range(incoming) : a.name = b.name => a = b
  BY <1>4, DistinctNames DEF list_document_ok
<1>6. ASSUME NEW e \in Range(incoming)
      PROVE  EntryOk(e) /\ e.name \in Nat
  <2>1. PICK i \in 1..n : e = incoming[i]
    BY <1>3 DEF Range
  <2>2. json_to_list(e)
    BY <1>3, <2>1 DEF list_document_ok
  <2>3. PICK name \in Names : name = loaded[i]
    BY <1>3
  <2>4. e = [name |-> name, signals |-> signals]
    BY <1>3, <2>1, <2>3
  <2>5. Cardinality(Range(signals)) = Len(signals)
    BY <2>2, <2>4 DEF json_to_list
  <2>6. signals \in Seq(Signals)
    BY SignalSequences
  <2>7. ListEntry(e) /\ e.name = name
    BY <2>4, <2>5, <2>6, NewList
  <2>8. name \in Nat
    BY StoresAssumption
  <2> QED
    BY <2>7, <2>8, ListOk
<1> QED
  BY <1>5, <1>6 DEF Fresh

LEMMA NamesLoaded ==
  ASSUME NEW loaded \in LoadedNames
  PROVE  loaded \in Seq(Names)
<1>1. CASE \E n \in Names : loaded = <<n>>
  BY <1>1
<1>2. CASE \E n, m \in Names : loaded = <<n, m>>
  BY <1>2
<1> QED
  BY <1>1, <1>2 DEF LoadedNames

LEMMA ListLoadStep ==
  ASSUME StoreInv, ListLoad
  PROVE  StoreInv' /\ NamedEntriesChange
<1>1. PICK mode \in {"append", "replace"}, signals \in SeqOf(Signals, 2), loaded \in LoadedNames :
         IF list_document_ok(list_document(loaded, signals))
         THEN store_update("load", NamesOf(list_document(loaded, signals)),
                           load_lists(list_document(loaded, signals), mode))
         ELSE store_refused("load", NamesOf(list_document(loaded, signals)))
  BY Zenon DEF ListLoad
<1>2. PICK incoming : incoming = list_document(loaded, signals)
  OBVIOUS
<1>3. IF list_document_ok(incoming)
      THEN store_update("load", NamesOf(incoming), load_lists(incoming, mode))
      ELSE store_refused("load", NamesOf(incoming))
  BY <1>1, <1>2
<1>4. kind = "lists" /\ loaded \in Seq(Names)
  BY NamesLoaded DEF ListLoad
<1>5. CASE list_document_ok(incoming)
  <2>1. Fresh(incoming)
    BY <1>2, <1>4, <1>5, ListDocument
  <2>2. Proper("load", NamesOf(incoming), load_lists(incoming, mode))
    BY <1>4, <2>1, LoadListsProper
  <2> QED
    BY <1>3, <1>5, <2>2, UpdateStep
<1>6. CASE ~list_document_ok(incoming)
  BY <1>3, <1>6, RefusedStep
<1> QED
  BY <1>5, <1>6

LEMMA ListCreateStep ==
  ASSUME StoreInv, ListCreate
  PROVE  StoreInv' /\ NamedEntriesChange
<1>1. PICK name \in Names, signals \in SeqOf(Signals, 2) :
         IF Range(signals) \subseteq Leaves /\ json_to_list([signals |-> signals])
         THEN store_update("create", {name}, create_list(name, signals))
         ELSE store_refused("create", {name})
  BY DEF ListCreate
<1>2. kind = "lists" /\ signals \in Seq(Signals)
  BY SignalSequences DEF ListCreate
<1>3. CASE Range(signals) \subseteq Leaves /\ json_to_list([signals |-> signals])
  <2>1. PICK entry : entry = [name |-> name, signals |-> signals]
    OBVIOUS
  <2>2. Cardinality(Range(signals)) = Len(signals)
    BY <1>3 DEF json_to_list
  <2>3. EntryOk(entry) /\ entry.name = name
    BY <1>2, <2>1, <2>2, NewList, ListOk
  <2>4. Proper("create", {name}, create_list(name, signals))
    <3>1. CASE name \in NamesOf(items)
      <4>1. create_list(name, signals) = Refuse("conflict")
        BY <3>1 DEF create_list
      <4> QED
        BY <4>1, RefusedProper
    <3>2. CASE name \notin NamesOf(items)
      <4>1. create_list(name, signals) = Stored(Append(items, entry))
        BY <2>1, <3>2 DEF create_list
      <4>2. Proper("create", {entry.name}, Stored(Append(items, entry)))
        BY <1>2, <2>3, <3>2, AppendedProper
      <4> QED
        BY <2>3, <4>1, <4>2
    <3> QED
      BY <3>1, <3>2
  <2> QED
    BY <1>1, <1>3, <2>4, UpdateStep
<1>4. CASE ~(Range(signals) \subseteq Leaves /\ json_to_list([signals |-> signals]))
  BY <1>1, <1>4, RefusedStep
<1> QED
  BY <1>3, <1>4

\* The entry a name stands for.
LEMMA EntryNamed ==
  ASSUME NEW seq, NEW name \in NamesOf(seq)
  PROVE  Entry(seq, name) \in Range(seq) /\ Entry(seq, name).name = name
<1>1. \E e \in Range(seq) : e.name = name
  BY NamesOfRange
<1> QED
  BY <1>1 DEF Entry

\* A list whose signals change, still without repetitions, moves to the end.
LEMMA ChangedList ==
  ASSUME StoreInv, kind = "lists", NEW op, NEW name \in NamesOf(items),
         NEW signals \in Seq(Signals), NoRepeat(signals),
         NEW entry, entry = [Entry(items, name) EXCEPT !.signals = signals]
  PROVE  Proper(op, {name}, move_to_end(entry))
<1>1. PICK old : old = Entry(items, name)
  OBVIOUS
<1>2. old \in Range(items) /\ old.name = name
  BY <1>1, EntryNamed
<1>3. ListEntry(old)
  BY <1>2, ItemsFacts, ListOk
<1>4. entry = [old EXCEPT !.signals = signals]
  BY <1>1
<1>5. PICK S : S = Seq(Signals)
  OBVIOUS
<1>6. old \in [name : Names, signals : S] /\ signals \in S
  BY <1>3, <1>5 DEF ListEntry
<1>7. /\ entry \in [name : Names, signals : S] /\ entry.signals = signals
      /\ entry.name = name
  BY <1>2, <1>4, <1>6
<1>8. ListEntry(entry)
  BY <1>5, <1>7 DEF ListEntry
<1> QED
  BY <1>7, <1>8, ListOk, MovedProper

LEMMA ListSignals ==
  ASSUME StoreInv, kind = "lists", NEW name \in NamesOf(items)
  PROVE  Entry(items, name).signals \in Seq(Signals) /\ NoRepeat(Entry(items, name).signals)
BY EntryNamed, ItemsFacts, ListOk DEF ListEntry

LEMMA AddSignalProper ==
  ASSUME StoreInv, kind = "lists", NEW op, NEW name, NEW signal \in Signals
  PROVE  Proper(op, {name}, add_signal(name, signal))
<1>1. CASE name \notin NamesOf(items)
  <2>1. add_signal(name, signal) = Refuse("not_found")
    BY <1>1 DEF add_signal
  <2> QED
    BY <2>1, RefusedProper
<1>2. CASE name \in NamesOf(items)
  <2>1. PICK list : list = Entry(items, name)
    OBVIOUS
  <2>2. CASE signal \in Range(list.signals)
    <3>1. add_signal(name, signal) = Refuse("conflict")
      BY <1>2, <2>1, <2>2 DEF add_signal
    <3> QED
      BY <3>1, RefusedProper
  <2>3. CASE signal \notin Range(list.signals)
    <3>1. PICK old : old = list.signals
      OBVIOUS
    <3>2. old \in Seq(Signals) /\ NoRepeat(old)
      BY <1>2, <2>1, <3>1, ListSignals
    <3>3. PICK signals : signals = Append(old, signal)
      OBVIOUS
    <3>4. Listing(old)
      BY <3>2, SeqOfRange DEF Listing
    <3>5. NoRepeat(signals) /\ signals \in Seq(Signals)
      BY <2>3, <3>1, <3>2, <3>3, <3>4, AppendListing DEF Listing
    <3>6. PICK entry : entry = [list EXCEPT !.signals = signals]
      OBVIOUS
    <3>7. add_signal(name, signal) = move_to_end(entry)
      BY <1>2, <2>1, <2>3, <3>1, <3>3, <3>6 DEF add_signal
    <3> QED
      BY <1>2, <2>1, <3>5, <3>6, <3>7, ChangedList
  <2> QED
    BY <2>2, <2>3
<1> QED
  BY <1>1, <1>2

LEMMA DeleteByPathProper ==
  ASSUME StoreInv, kind = "lists", NEW op, NEW name, NEW signal
  PROVE  Proper(op, {name}, delete_signal_by_path(name, signal))
<1>1. CASE name \notin NamesOf(items)
  <2>1. delete_signal_by_path(name, signal) = Refuse("not_found")
    BY <1>1 DEF delete_signal_by_path
  <2> QED
    BY <2>1, RefusedProper
<1>2. CASE name \in NamesOf(items)
  <2>1. PICK list : list = Entry(items, name)
    OBVIOUS
  <2>2. CASE signal \notin Range(list.signals)
    <3>1. delete_signal_by_path(name, signal) = Refuse("not_found")
      BY <1>2, <2>1, <2>2 DEF delete_signal_by_path
    <3> QED
      BY <3>1, RefusedProper
  <2>3. CASE signal \in Range(list.signals)
    <3>1. PICK old : old = list.signals
      OBVIOUS
    <3>2. old \in Seq(Signals) /\ NoRepeat(old)
      BY <1>2, <2>1, <3>1, ListSignals
    <3>3. PICK R : R = Range(old) \ {signal}
      OBVIOUS
    <3>4. PICK signals : signals = Filtered(old, R)
      OBVIOUS
    <3>5. Listing(old)
      BY <3>2, SeqOfRange DEF Listing
    <3>6. NoRepeat(signals)
      BY <3>4, <3>5, FilteredListing DEF Listing
    <3>7. signals \in Seq(Signals)
      BY <3>2, <3>4, FilteredElements
    <3>8. PICK entry : entry = [list EXCEPT !.signals = signals]
      OBVIOUS
    <3>9. delete_signal_by_path(name, signal) = move_to_end(entry)
      BY <1>2, <2>1, <2>3, <3>1, <3>3, <3>4, <3>8 DEF delete_signal_by_path
    <3> QED
      BY <1>2, <2>1, <3>6, <3>7, <3>8, <3>9, ChangedList
  <2> QED
    BY <2>2, <2>3
<1> QED
  BY <1>1, <1>2

LEMMA CutEnd ==
  ASSUME NEW T, NEW s \in Seq(T), NEW n \in Nat, n = Len(s), NEW m \in 1..(n + 1),
         NEW b, b = SubSeq(s, m, n)
  PROVE  /\ b \in Seq(T) /\ Len(b) = n - m + 1
         /\ \A j \in 1..(n - m + 1) : b[j] = s[m + j - 1]
<1>1. b \in Seq(T)
  OBVIOUS
<1>2. Len(b) = n - m + 1
  <2>1. CASE m <= n
    BY <2>1
  <2>2. CASE m = n + 1
    BY <2>2
  <2> QED
    BY <2>1, <2>2
<1>3. \A j \in 1..(n - m + 1) : b[j] = s[m + j - 1]
  OBVIOUS
<1> QED
  BY <1>1, <1>2, <1>3

LEMMA Joined ==
  ASSUME NEW T, NEW a \in Seq(T), NEW b \in Seq(T), NEW q, q = a \o b,
         NEW k \in Nat, k = Len(a), NEW l \in Nat, l = Len(b)
  PROVE  /\ q \in Seq(T) /\ DOMAIN q = 1..(k + l)
         /\ \A j \in 1..k : q[j] = a[j]
         /\ \A j \in (k + 1)..(k + l) : q[j] = b[j - k]
<1>1. q \in Seq(T) /\ Len(q) = k + l
  OBVIOUS
<1>2. DOMAIN q = 1..(k + l)
  BY <1>1
<1>3. \A j \in 1..k : q[j] = a[j]
  OBVIOUS
<1>4. \A j \in (k + 1)..(k + l) : q[j] = b[j - k]
  OBVIOUS
<1> QED
  BY <1>1, <1>2, <1>3, <1>4

LEMMA RemovedAt ==
  ASSUME NEW T, NEW s \in Seq(T), NoRepeat(s), NEW i \in DOMAIN s
  PROVE  RemoveAt(s, i) \in Seq(T) /\ NoRepeat(RemoveAt(s, i))
<1>1. PICK n \in Nat : n = Len(s)
  OBVIOUS
<1>2. DOMAIN s = 1..n /\ i \in 1..n
  BY <1>1
<1>3. PICK a : a = SubSeq(s, 1, i - 1)
  OBVIOUS
<1>4. PICK b : b = SubSeq(s, i + 1, n)
  OBVIOUS
<1>5. /\ a \in Seq(T) /\ Len(a) = i - 1 /\ \A j \in 1..(i - 1) : a[j] = s[j]
  BY <1>1, <1>2, <1>3
<1>6. /\ b \in Seq(T) /\ Len(b) = n - i /\ \A j \in 1..(n - i) : b[j] = s[i + j]
  <2>1. i + 1 \in 1..(n + 1)
    BY <1>2
  <2>2. /\ b \in Seq(T) /\ Len(b) = n - (i + 1) + 1
        /\ \A j \in 1..(n - (i + 1) + 1) : b[j] = s[(i + 1) + j - 1]
    BY <1>1, <1>4, <2>1, CutEnd
  <2>3. n - (i + 1) + 1 = n - i
    BY <1>2
  <2>4. \A j \in 1..(n - i) : (i + 1) + j - 1 = i + j
    BY <1>2
  <2> QED
    BY <2>2, <2>3, <2>4
<1>7. PICK q : q = a \o b
  OBVIOUS
<1>8. /\ q \in Seq(T) /\ DOMAIN q = 1..(n - 1)
      /\ \A j \in 1..(i - 1) : q[j] = s[j]
      /\ \A j \in i..(n - 1) : q[j] = s[j + 1]
  <2>1. PICK k \in Nat : k = i - 1
    BY <1>2
  <2>2. PICK l \in Nat : l = n - i
    BY <1>2
  <2>3. /\ q \in Seq(T) /\ DOMAIN q = 1..(k + l)
        /\ \A j \in 1..k : q[j] = a[j]
        /\ \A j \in (k + 1)..(k + l) : q[j] = b[j - k]
    <3>1. k = Len(a) /\ l = Len(b)
      BY <1>5, <1>6, <2>1, <2>2
    <3> QED
      BY <1>5, <1>6, <1>7, <3>1, Joined
  <2>4. k + l = n - 1 /\ k + 1 = i
    BY <1>2, <2>1, <2>2
  <2>5. \A j \in 1..(i - 1) : q[j] = s[j]
    BY <1>5, <2>1, <2>3
  <2>6. ASSUME NEW j \in i..(n - 1)
        PROVE  q[j] = s[j + 1]
    <3>1. j - k \in 1..(n - i) /\ i + (j - k) = j + 1
      BY <1>2, <2>1
    <3>2. j \in (k + 1)..(k + l)
      BY <2>4
    <3>3. q[j] = b[j - k]
      BY <2>3, <3>2
    <3>4. b[j - k] = s[i + (j - k)]
      BY <1>6, <3>1
    <3> QED
      BY <3>1, <3>3, <3>4
  <2> QED
    BY <2>3, <2>4, <2>5, <2>6
<1>9. NoRepeat(q)
  <2> DEFINE at(j) == IF j < i THEN j ELSE j + 1
  <2>1. \A j \in 1..(n - 1) : at(j) \in 1..n /\ q[j] = s[at(j)]
    BY <1>2, <1>8
  <2>2. \A j, k \in 1..(n - 1) : at(j) = at(k) => j = k
    BY <1>2
  <2> HIDE DEF at
  <2> QED
    BY <1>2, <1>8, <2>1, <2>2 DEF NoRepeat
<1>10. RemoveAt(s, i) = q
  BY <1>1, <1>3, <1>4, <1>7 DEF RemoveAt
<1> QED
  BY <1>8, <1>9, <1>10

LEMMA DeleteByIndexProper ==
  ASSUME StoreInv, kind = "lists", NEW op, NEW name, NEW index
  PROVE  Proper(op, {name}, delete_signal_by_one_based_index(name, index))
<1>1. CASE name \notin NamesOf(items)
  <2>1. delete_signal_by_one_based_index(name, index) = Refuse("not_found")
    BY <1>1 DEF delete_signal_by_one_based_index
  <2> QED
    BY <2>1, RefusedProper
<1>2. CASE name \in NamesOf(items)
  <2>1. PICK list : list = Entry(items, name)
    OBVIOUS
  <2>2. CASE index \notin DOMAIN list.signals
    <3>1. delete_signal_by_one_based_index(name, index) = Refuse("precondition")
      BY <1>2, <2>1, <2>2 DEF delete_signal_by_one_based_index
    <3> QED
      BY <3>1, RefusedProper
  <2>3. CASE index \in DOMAIN list.signals
    <3>1. PICK old : old = list.signals
      OBVIOUS
    <3>2. old \in Seq(Signals) /\ NoRepeat(old)
      BY <1>2, <2>1, <3>1, ListSignals
    <3>3. PICK signals : signals = RemoveAt(old, index)
      OBVIOUS
    <3>4. signals \in Seq(Signals) /\ NoRepeat(signals)
      BY <2>3, <3>1, <3>2, <3>3, RemovedAt
    <3>5. PICK entry : entry = [list EXCEPT !.signals = signals]
      OBVIOUS
    <3>6. delete_signal_by_one_based_index(name, index) = move_to_end(entry)
      BY <1>2, <2>1, <2>3, <3>1, <3>3, <3>5 DEF delete_signal_by_one_based_index
    <3> QED
      BY <1>2, <2>1, <3>4, <3>5, <3>6, ChangedList
  <2> QED
    BY <2>2, <2>3
<1> QED
  BY <1>1, <1>2

LEMMA ListAddStep ==
  ASSUME StoreInv, ListAdd
  PROVE  StoreInv' /\ NamedEntriesChange
<1>1. PICK name \in Names, signal \in Signals :
         IF signal \in Leaves
         THEN store_update("add", {name}, add_signal(name, signal))
         ELSE store_refused("add", {name})
  BY DEF ListAdd
<1>2. kind = "lists"
  BY DEF ListAdd
<1>3. Proper("add", {name}, add_signal(name, signal))
  BY <1>2, AddSignalProper
<1> QED
  BY <1>1, <1>3, UpdateStep, RefusedStep

LEMMA ListDeleteStep ==
  ASSUME StoreInv, ListDelete
  PROVE  StoreInv' /\ NamedEntriesChange
<1>1. kind = "lists"
  BY DEF ListDelete
<1>2. ASSUME NEW name, NEW signal,
             store_update("delete", {name}, delete_signal_by_path(name, signal))
      PROVE  StoreInv' /\ NamedEntriesChange
  BY <1>1, <1>2, DeleteByPathProper, UpdateStep
<1>3. ASSUME NEW name, NEW index,
             store_update("delete", {name}, delete_signal_by_one_based_index(name, index))
      PROVE  StoreInv' /\ NamedEntriesChange
  BY <1>1, <1>3, DeleteByIndexProper, UpdateStep
<1>4. ASSUME NEW name, store_refused("delete", {name})
      PROVE  StoreInv' /\ NamedEntriesChange
  BY <1>4, RefusedStep
<1>5. PICK name \in Names :
         \/ \E signal \in Signals :
              store_update("delete", {name}, delete_signal_by_path(name, signal))
         \/ \E index \in -1 .. 3 :
              IF index <= 0 THEN store_refused("delete", {name})
              ELSE store_update("delete", {name},
                                delete_signal_by_one_based_index(name, index))
  BY DEF ListDelete
<1> QED
  BY <1>2, <1>3, <1>4, <1>5

(***************************************************************************)
(* Cursors.                                                                *)
(***************************************************************************)
CursorSeq(seq) ==
  /\ Listing(seq)
  /\ \A e \in Range(seq) : CursorEntry(e)
  /\ \A a, b \in Range(seq) : a.name = b.name => a = b

LEMMA CursorGood ==
  ASSUME kind = "cursors", NEW seq
  PROVE  Good(seq) <=> /\ CursorSeq(seq)
                       /\ \A a, b \in Range(seq) : a.active /\ b.active => a = b
BY NameIdentifies DEF Good, GoodSet, Identified, OneActive, EntryOk, CursorSeq

LEMMA UntouchedCursors ==
  ASSUME kind = "cursors", NEW seq, NEW names
  PROVE  Untouched(seq, names) = Others(seq, names)
BY DEF Untouched, Others

\* A sequence with the same names at the same places.
LEMMA Relabelled ==
  ASSUME NEW s, Listing(s), \A a, b \in Range(s) : a.name = b.name => a = b,
         NEW t, t = [i \in DOMAIN s |-> t[i]],
         \A i \in DOMAIN s : t[i].name = s[i].name
  PROVE  Listing(t) /\ \A a, b \in Range(t) : a.name = b.name => a = b
<1>1. PICK n \in Nat : n = Len(s)
  BY ListingFacts
<1>2. DOMAIN s = 1..n /\ NoRepeat(s)
  BY <1>1, ListingFacts
<1>3. ASSUME NEW i \in 1..n, NEW j \in 1..n, t[i].name = t[j].name
      PROVE  i = j
  <2>1. s[i] \in Range(s) /\ s[j] \in Range(s) /\ s[i].name = s[j].name
    BY <1>2, <1>3 DEF Range
  <2>2. s[i] = s[j]
    BY <2>1
  <2> QED
    BY <1>2, <2>2 DEF NoRepeat
<1>4. DOMAIN t = 1..n
  BY <1>2
<1>5. NoRepeat(t)
  BY <1>3, <1>4 DEF NoRepeat
<1>6. ASSUME NEW a \in Range(t), NEW b \in Range(t), a.name = b.name
      PROVE  a = b
  <2>1. PICK i \in 1..n : a = t[i]
    BY <1>4 DEF Range
  <2>2. PICK j \in 1..n : b = t[j]
    BY <1>4 DEF Range
  <2> QED
    BY <1>3, <1>6, <2>1, <2>2
<1>7. t \in Seq(Range(t))
  <2>1. PICK T : T = Range(t)
    OBVIOUS
  <2>2. \A i \in 1..n : t[i] \in T
    BY <1>4, <2>1 DEF Range
  <2>3. t \in [1..n -> T]
    BY <1>2, <2>2
  <2>4. t \in Seq(T)
    BY <2>3
  <2> QED
    BY <2>1, <2>4
<1> QED
  BY <1>5, <1>6, <1>7 DEF Listing

\* The cursor e with its mark set or cleared.
Marked(e, name) == [e EXCEPT !.active = (e.name = name)]

LEMMA MarkedEntry ==
  ASSUME kind = "cursors", NEW e, CursorEntry(e), NEW name, NEW f, f = Marked(e, name)
  PROVE  /\ CursorEntry(f) /\ f.name = e.name /\ Content(f) = Content(e)
         /\ f.active <=> e.name = name
<1>1. PICK b \in BOOLEAN : b = (e.name = name)
  OBVIOUS
<1>2. f = [e EXCEPT !.active = b]
  BY <1>1, Zenon DEF Marked
<1>3. e \in [name : Names, time : Nat, origin : Origins, created_at : Nat, active : BOOLEAN]
  BY DEF CursorEntry
<1>4. /\ f \in [name : Names, time : Nat, origin : Origins, created_at : Nat, active : BOOLEAN]
      /\ f.name = e.name /\ f.active = b
  BY <1>2, <1>3
<1>5. [f EXCEPT !.active = FALSE] = [e EXCEPT !.active = FALSE]
  BY <1>2, <1>3
<1>6. Content(f) = Content(e)
  BY <1>5, Zenon DEF Content
<1>7. CursorEntry(f)
  BY <1>4 DEF CursorEntry
<1>8. f.active <=> e.name = name
  BY <1>1, <1>4, Zenon
<1> QED
  BY <1>4, <1>6, <1>7, <1>8

LEMMA MarkedCursors ==
  ASSUME kind = "cursors", NEW s, CursorSeq(s), NEW name, NEW t, t = mark_active(s, name)
  PROVE  /\ Good(t)
         /\ name \in NamesOf(s) => get_active_cursor(t) = name
         /\ {Content(e) : e \in Others(t, {name})} = {Content(e) : e \in Others(s, {name})}
<1>1. Listing(s) /\ \A a, b \in Range(s) : a.name = b.name => a = b
  BY DEF CursorSeq
<1>2. t = [i \in DOMAIN s |-> Marked(s[i], name)]
  BY Zenon DEF mark_active, Marked
<1>3. /\ DOMAIN t = DOMAIN s /\ t = [i \in DOMAIN s |-> t[i]]
      /\ \A i \in DOMAIN s : t[i] = Marked(s[i], name)
  BY <1>2
<1>4. ASSUME NEW i \in DOMAIN s
      PROVE  /\ CursorEntry(t[i]) /\ t[i].name = s[i].name /\ Content(t[i]) = Content(s[i])
             /\ t[i].active <=> t[i].name = name
  <2>1. CursorEntry(s[i])
    BY DEF CursorSeq, Range
  <2>2. PICK e : e = s[i]
    OBVIOUS
  <2>3. PICK f : f = t[i]
    OBVIOUS
  <2>4. f = Marked(e, name) /\ CursorEntry(e)
    BY <1>3, <2>1, <2>2, <2>3
  <2>5. /\ CursorEntry(f) /\ f.name = e.name /\ Content(f) = Content(e)
        /\ f.active <=> e.name = name
    BY <2>4, MarkedEntry
  <2> QED
    BY <2>2, <2>3, <2>5
<1>5. Listing(t) /\ \A a, b \in Range(t) : a.name = b.name => a = b
  <2>1. \A i \in DOMAIN s : t[i].name = s[i].name
    BY <1>4
  <2> QED
    BY <1>1, <1>3, <2>1, Relabelled
<1>6. \A e \in Range(t) : CursorEntry(e) /\ (e.active <=> e.name = name)
  BY <1>3, <1>4 DEF Range
<1>7. Good(t)
  BY <1>5, <1>6, CursorGood DEF CursorSeq
<1>8. ASSUME name \in NamesOf(s) PROVE get_active_cursor(t) = name
  <2>1. PICK i \in DOMAIN s : s[i].name = name
    BY <1>8 DEF NamesOf
  <2>2. t[i] \in Range(t) /\ t[i].name = name
    BY <1>3, <1>4, <2>1 DEF Range
  <2>3. t[i].active
    BY <1>6, <2>2
  <2> QED
    BY <1>7, <2>2, <2>3, ActiveName
<1>9. {Content(e) : e \in Others(t, {name})} = {Content(e) : e \in Others(s, {name})}
  <2>1. ASSUME NEW e \in Others(t, {name})
        PROVE  \E f \in Others(s, {name}) : Content(e) = Content(f)
    <3>1. PICK i \in DOMAIN s : e = t[i]
      BY <1>3 DEF Others, Range
    <3>2. s[i] \in Others(s, {name})
      BY <1>4, <2>1, <3>1 DEF Others, Range
    <3> QED
      BY <1>4, <3>1, <3>2
  <2>2. ASSUME NEW f \in Others(s, {name})
        PROVE  \E e \in Others(t, {name}) : Content(e) = Content(f)
    <3>1. PICK i \in DOMAIN s : f = s[i]
      BY DEF Others, Range
    <3>2. t[i] \in Others(t, {name})
      BY <1>3, <1>4, <2>2, <3>1 DEF Others, Range
    <3> QED
      BY <1>4, <3>1, <3>2
  <2> QED
    BY <2>1, <2>2
<1> QED
  BY <1>7, <1>8, <1>9

\* Two stores with the same active cursor, or none.
LEMMA SameActive ==
  ASSUME kind = "cursors", NEW s, Good(s), NEW t, Good(t),
         \A a \in Range(s) : a.active => \E b \in Range(t) : b.active /\ b.name = a.name,
         \A b \in Range(t) : b.active => \E a \in Range(s) : a.active /\ a.name = b.name
  PROVE  get_active_cursor(s) = get_active_cursor(t)
<1>1. CASE \E a \in Range(s) : a.active
  <2>1. PICK a \in Range(s) : a.active
    BY <1>1
  <2>2. PICK b \in Range(t) : b.active /\ b.name = a.name
    BY <2>1
  <2>3. get_active_cursor(s) = a.name
    BY <2>1, ActiveName
  <2>4. get_active_cursor(t) = b.name
    BY <2>2, ActiveName
  <2> QED
    BY <2>2, <2>3, <2>4
<1>2. CASE \A a \in Range(s) : ~a.active
  <2>1. \A b \in Range(t) : ~b.active
    BY <1>2
  <2>2. get_active_cursor(s) = 0
    BY <1>2, ActiveName
  <2>3. get_active_cursor(t) = 0
    BY <2>1, ActiveName
  <2> QED
    BY <2>2, <2>3
<1> QED
  BY <1>1, <1>2

LEMMA CursorOrigins ==
  ASSUME NEW origin \in OriginTexts
  PROVE  cursor_origin(origin) \in Origins
BY Zenon DEF cursor_origin, OriginTexts, Origins

LEMMA CursorRecord ==
  ASSUME NEW name \in Names, NEW time \in Nat, NEW origin, cursor_origin(origin) \in Origins,
         NEW created \in Nat, NEW active \in BOOLEAN,
         NEW e, e = cursor_record(name, time, origin, created, active)
  PROVE  CursorEntry(e) /\ e.name = name /\ e.active = active
BY DEF cursor_record, CursorEntry

\* Setting a cursor leaves the others and the mark where they are.
LEMMA PutRecord ==
  ASSUME StoreInv, kind = "cursors", NEW name \in Names, NEW time \in Nat, NEW origin,
         cursor_origin(origin) \in Origins, NEW r, r = put_record(name, time, origin)
  PROVE  /\ CursorSeq(r) /\ Good(r) /\ name \in NamesOf(r)
         /\ Others(r, {name}) = Others(items, {name})
         /\ get_active_cursor(items) = get_active_cursor(r)
<1>1. Good(items) /\ CursorSeq(items) /\ Listing(items)
  BY CursorGood DEF StoreInv, CursorSeq
<1>2. \A e \in Range(items) : CursorEntry(e)
  BY <1>1 DEF CursorSeq
<1>3. \A a, b \in Range(items) : a.name = b.name => a = b
  BY <1>1 DEF CursorSeq
<1>4. \A a, b \in Range(items) : a.active /\ b.active => a = b
  BY <1>1, CursorGood
<1>5. CASE name \notin NamesOf(items)
  <2>1. PICK e : e = cursor_record(name, time, origin, time, FALSE)
    OBVIOUS
  <2>2. CursorEntry(e) /\ e.name = name /\ ~e.active
    <3>1. PICK no \in BOOLEAN : no = FALSE
      OBVIOUS
    <3>2. e = cursor_record(name, time, origin, time, no)
      BY <2>1, <3>1
    <3>3. CursorEntry(e) /\ e.name = name /\ e.active = no
      BY <3>2, CursorRecord
    <3> QED
      BY <3>1, <3>3
  <2>3. r = Append(items, e)
    BY <1>5, <2>1, Zenon DEF put_record
  <2>4. \A x \in Range(items) : x.name # name
    BY <1>5, NamesOfRange
  <2>5. Listing(r) /\ Range(r) = Range(items) \cup {e}
    BY <1>1, <2>2, <2>3, <2>4, AppendListing
  <2>6. CursorSeq(r)
    BY <1>2, <1>3, <2>2, <2>4, <2>5 DEF CursorSeq
  <2>7. Good(r)
    BY <1>4, <2>2, <2>5, <2>6, CursorGood
  <2>8. name \in NamesOf(r)
    BY <2>2, <2>5, NamesOfRange
  <2>9. Others(r, {name}) = Others(items, {name})
    BY <2>2, <2>5 DEF Others
  <2>10. get_active_cursor(items) = get_active_cursor(r)
    BY <1>1, <2>2, <2>5, <2>7, SameActive
  <2> QED
    BY <2>6, <2>7, <2>8, <2>9, <2>10
<1>6. CASE name \in NamesOf(items)
  <2>1. /\ DOMAIN r = DOMAIN items /\ r = [i \in DOMAIN items |-> r[i]]
        /\ \A i \in DOMAIN items :
             r[i] = IF items[i].name = name
                    THEN cursor_record(name, time, origin, items[i].created_at, items[i].active)
                    ELSE items[i]
    <3>1. r = [i \in DOMAIN items |->
                 IF items[i].name = name
                 THEN cursor_record(name, time, origin, items[i].created_at, items[i].active)
                 ELSE items[i]]
      BY <1>6, Zenon DEF put_record
    <3> QED
      BY <3>1
  <2>2. ASSUME NEW i \in DOMAIN items
        PROVE  /\ CursorEntry(r[i]) /\ r[i].name = items[i].name
               /\ r[i].active = items[i].active
               /\ items[i].name # name => r[i] = items[i]
    <3>1. CursorEntry(items[i])
      BY <1>2 DEF Range
    <3>2. CASE items[i].name = name
      <4>1. items[i].created_at \in Nat /\ items[i].active \in BOOLEAN
        BY <3>1 DEF CursorEntry
      <4>2. PICK c \in Nat : c = items[i].created_at
        BY <4>1
      <4>3. PICK b \in BOOLEAN : b = items[i].active
        BY <4>1
      <4>4. PICK e : e = cursor_record(name, time, origin, c, b)
        OBVIOUS
      <4>5. CursorEntry(e) /\ e.name = name /\ e.active = b
        BY <4>4, CursorRecord
      <4>6. r[i] = e
        BY <2>1, <3>2, <4>2, <4>3, <4>4, Zenon
      <4> QED
        BY <3>2, <4>3, <4>5, <4>6
    <3>3. CASE items[i].name # name
      <4>1. r[i] = items[i]
        BY <2>1, <3>3
      <4> QED
        BY <3>1, <4>1
    <3> QED
      BY <3>2, <3>3
  <2>3. Listing(r) /\ \A a, b \in Range(r) : a.name = b.name => a = b
    <3>1. \A i \in DOMAIN items : r[i].name = items[i].name
      BY <2>2
    <3> QED
      BY <1>1, <1>3, <2>1, <3>1, Relabelled
  <2>4. \A e \in Range(r) : CursorEntry(e)
    BY <2>1, <2>2 DEF Range
  <2>5. CursorSeq(r)
    BY <2>3, <2>4 DEF CursorSeq
  <2>6. ASSUME NEW a \in Range(r), a.active
        PROVE  \E x \in Range(items) : x.active /\ x.name = a.name
    <3>1. PICK i \in DOMAIN items : a = r[i]
      BY <2>1 DEF Range
    <3>2. items[i] \in Range(items) /\ items[i].active /\ items[i].name = a.name
      BY <2>2, <2>6, <3>1 DEF Range
    <3> QED
      BY <3>2
  <2>7. ASSUME NEW x \in Range(items), x.active
        PROVE  \E a \in Range(r) : a.active /\ a.name = x.name
    <3>1. PICK i \in DOMAIN items : x = items[i]
      BY DEF Range
    <3>2. r[i] \in Range(r) /\ r[i].active /\ r[i].name = x.name
      BY <2>1, <2>2, <2>7, <3>1 DEF Range
    <3> QED
      BY <3>2
  <2>8. ASSUME NEW a \in Range(r), NEW b \in Range(r), a.active, b.active
        PROVE  a = b
    <3>1. PICK x \in Range(items) : x.active /\ x.name = a.name
      BY <2>6, <2>8
    <3>2. PICK y \in Range(items) : y.active /\ y.name = b.name
      BY <2>6, <2>8
    <3>3. x = y
      BY <1>4, <3>1, <3>2
    <3> QED
      BY <2>3, <3>1, <3>2, <3>3
  <2>9. Good(r)
    BY <2>5, <2>8, CursorGood
  <2>10. name \in NamesOf(r)
    <3>1. PICK i \in DOMAIN items : items[i].name = name
      BY <1>6 DEF NamesOf
    <3>2. r[i].name = name /\ i \in DOMAIN r
      BY <2>1, <2>2, <3>1
    <3> QED
      BY <3>2 DEF NamesOf
  <2>11. Others(r, {name}) = Others(items, {name})
    <3>1. ASSUME NEW e \in Others(r, {name}) PROVE e \in Others(items, {name})
      <4>1. PICK i \in DOMAIN items : e = r[i]
        BY <2>1 DEF Others, Range
      <4>2. items[i].name # name /\ e = items[i]
        BY <2>2, <3>1, <4>1 DEF Others
      <4> QED
        BY <4>2 DEF Others, Range
    <3>2. ASSUME NEW e \in Others(items, {name}) PROVE e \in Others(r, {name})
      <4>1. PICK i \in DOMAIN items : e = items[i]
        BY DEF Others, Range
      <4>2. items[i].name # name /\ e = r[i]
        BY <2>2, <3>2, <4>1 DEF Others
      <4> QED
        BY <2>1, <4>1, <4>2 DEF Others, Range
    <3> QED
      BY <3>1, <3>2
  <2>12. get_active_cursor(items) = get_active_cursor(r)
    BY <1>1, <2>6, <2>7, <2>9, SameActive
  <2> QED
    BY <2>5, <2>9, <2>10, <2>11, <2>12
<1> QED
  BY <1>5, <1>6

\* What a step on the cursor name leaves alone.
CursorKept(op, name, seq) ==
  /\ {Content(e) : e \in Others(seq, {name})} = {Content(e) : e \in Others(items, {name})}
  /\ \/ get_active_cursor(items) = get_active_cursor(seq)
     \/ get_active_cursor(seq) = name
     \/ get_active_cursor(items) = name /\ op = "remove"

LEMMA CursorsProper ==
  ASSUME kind = "cursors", NEW op, NEW name, NEW seq, Good(seq), CursorKept(op, name, seq)
  PROVE  Proper(op, {name}, Stored(seq))
<1>1. /\ Untouched(seq, {name}) = Others(seq, {name})
      /\ Untouched(items, {name}) = Others(items, {name})
  BY UntouchedCursors
<1>2. Keeps(op, {name}, seq)
  BY <1>1 DEF Keeps, CursorKept
<1> QED
  BY <1>2, StoredProper

LEMMA SetCursorProper ==
  ASSUME StoreInv, kind = "cursors", NEW op, NEW name \in Names, NEW time \in Nat,
         NEW origin \in OriginTexts, NEW make_active
  PROVE  Proper(op, {name}, set_cursor(name, time, origin, make_active))
<1>1. PICK r : r = put_record(name, time, origin)
  OBVIOUS
<1>2. /\ CursorSeq(r) /\ Good(r) /\ name \in NamesOf(r)
      /\ Others(r, {name}) = Others(items, {name})
      /\ get_active_cursor(items) = get_active_cursor(r)
  BY <1>1, CursorOrigins, PutRecord
<1>3. CASE make_active
  <2>1. PICK t : t = mark_active(r, name)
    OBVIOUS
  <2>2. set_cursor(name, time, origin, make_active) = Stored(t)
    BY <1>1, <1>3, <2>1, Zenon DEF set_cursor
  <2>3. /\ Good(t) /\ get_active_cursor(t) = name
        /\ {Content(e) : e \in Others(t, {name})} = {Content(e) : e \in Others(r, {name})}
    BY <1>2, <2>1, MarkedCursors
  <2>4. CursorKept(op, name, t)
    BY <1>2, <2>3 DEF CursorKept
  <2> QED
    BY <2>2, <2>3, <2>4, CursorsProper
<1>4. CASE ~make_active
  <2>1. set_cursor(name, time, origin, make_active) = Stored(r)
    BY <1>1, <1>4, Zenon DEF set_cursor
  <2>2. CursorKept(op, name, r)
    BY <1>2 DEF CursorKept
  <2> QED
    BY <1>2, <2>1, <2>2, CursorsProper
<1> QED
  BY <1>3, <1>4

LEMMA UseCursorProper ==
  ASSUME StoreInv, kind = "cursors", NEW op, NEW name
  PROVE  Proper(op, {name}, use_cursor(name))
<1>1. CASE name \notin NamesOf(items)
  <2>1. use_cursor(name) = Refuse("not_found")
    BY <1>1 DEF use_cursor
  <2> QED
    BY <2>1, RefusedProper
<1>2. CASE name \in NamesOf(items)
  <2>1. PICK t : t = mark_active(items, name)
    OBVIOUS
  <2>2. use_cursor(name) = Stored(t)
    BY <1>2, <2>1 DEF use_cursor
  <2>3. CursorSeq(items)
    BY CursorGood DEF StoreInv
  <2>4. /\ Good(t) /\ get_active_cursor(t) = name
        /\ {Content(e) : e \in Others(t, {name})} = {Content(e) : e \in Others(items, {name})}
    BY <1>2, <2>1, <2>3, MarkedCursors
  <2>5. CursorKept(op, name, t)
    BY <2>4 DEF CursorKept
  <2> QED
    BY <2>2, <2>4, <2>5, CursorsProper
<1> QED
  BY <1>1, <1>2

LEMMA RemoveCursorProper ==
  ASSUME StoreInv, kind = "cursors", NEW name
  PROVE  Proper("remove", {name}, delete_entry(name))
<1>1. CASE name \notin NamesOf(items)
  <2>1. delete_entry(name) = Refuse("not_found")
    BY <1>1 DEF delete_entry
  <2> QED
    BY <2>1, RefusedProper
<1>2. CASE name \in NamesOf(items)
  <2>1. PICK seq : seq = Without(items, name)
    OBVIOUS
  <2>2. delete_entry(name) = Stored(seq)
    BY <1>2, <2>1 DEF delete_entry
  <2>3. Listing(seq) /\ Range(seq) = Others(items, {name})
    BY <2>1, WithoutName
  <2>4. Range(seq) \subseteq Range(items) /\ \A e \in Range(seq) : e.name # name
    BY <2>3 DEF Others
  <2>5. /\ Good(items) /\ CursorSeq(items)
        /\ \A a, b \in Range(items) : a.active /\ b.active => a = b
    BY CursorGood DEF StoreInv
  <2>6. Good(seq)
    BY <2>3, <2>4, <2>5, CursorGood DEF CursorSeq
  <2>7. Others(seq, {name}) = Others(items, {name})
    BY <2>3, <2>4 DEF Others
  <2>8. \/ get_active_cursor(items) = get_active_cursor(seq)
        \/ get_active_cursor(items) = name
    <3>1. CASE \E a \in Range(items) : a.active /\ a.name = name
      BY <2>5, <3>1, ActiveName
    <3>2. CASE \A a \in Range(items) : a.active => a.name # name
      <4>1. \A a \in Range(items) : a.active => a \in Range(seq)
        BY <2>3, <3>2 DEF Others
      <4>2. /\ \A a \in Range(items) : a.active => \E b \in Range(seq) : b.active /\ b.name = a.name
            /\ \A b \in Range(seq) : b.active => \E a \in Range(items) : a.active /\ a.name = b.name
        BY <2>4, <4>1
      <4> QED
        BY <2>5, <2>6, <4>2, SameActive
    <3> QED
      BY <3>1, <3>2
  <2>9. CursorKept("remove", name, seq)
    BY <2>7, <2>8 DEF CursorKept
  <2> QED
    BY <2>2, <2>6, <2>9, CursorsProper
<1> QED
  BY <1>1, <1>2

LEMMA CursorSetStep ==
  ASSUME StoreInv, CursorSet
  PROVE  StoreInv' /\ NamedEntriesChange
<1>1. kind = "cursors"
  BY DEF CursorSet
<1>2. PICK name \in Names, time \in {1, 2}, origin \in OriginTexts, active \in BOOLEAN :
         store_update("set", {name}, set_cursor(name, time, origin, active))
  BY DEF CursorSet
<1>3. Proper("set", {name}, set_cursor(name, time, origin, active))
  BY <1>1, SetCursorProper
<1> QED
  BY <1>2, <1>3, UpdateStep

LEMMA CursorDeleteStep ==
  ASSUME StoreInv, CursorDelete
  PROVE  StoreInv' /\ NamedEntriesChange
<1>1. kind = "cursors"
  BY DEF CursorDelete
<1>2. PICK name \in Names : store_update("remove", {name}, delete_entry(name))
  BY DEF CursorDelete
<1> QED
  BY <1>1, <1>2, RemoveCursorProper, UpdateStep

LEMMA CursorUseStep ==
  ASSUME StoreInv, CursorUse
  PROVE  StoreInv' /\ NamedEntriesChange
<1>1. kind = "cursors"
  BY DEF CursorUse
<1>2. PICK name \in Names : store_update("use", {name}, use_cursor(name))
  BY DEF CursorUse
<1> QED
  BY <1>1, <1>2, UseCursorProper, UpdateStep

(***************************************************************************)
(* Bus, event and stream configurations.                                   *)
(***************************************************************************)
LEMMA CreateBusProper ==
  ASSUME StoreInv, kind \in {"apb", "axi"}, NEW op, NEW value, EntryOk(value)
  PROVE  Proper(op, {value.name}, create_bus(value))
<1>1. CASE value.name \in NamesOf(items)
  <2>1. create_bus(value) = Refuse("conflict")
    BY <1>1 DEF create_bus
  <2> QED
    BY <2>1, RefusedProper
<1>2. CASE value.name \notin NamesOf(items)
  <2>1. create_bus(value) = Stored(Append(items, value))
    BY <1>2 DEF create_bus
  <2> QED
    BY <1>2, <2>1, AppendedProper
<1> QED
  BY <1>1, <1>2

LEMMA BusNamed ==
  ASSUME NEW doc, NEW name, NEW config,
         config = parse_apb_config(doc, name) \/ config = parse_axi_config(doc, name),
         config.ok
  PROVE  bus_to_json(config).name = name
<1>1. config = Refused \/ config = parse_bus_config(doc, name)
  BY Zenon DEF parse_apb_config, parse_axi_config
<1>2. PICK clock : clock = parse_clock_sample_config(doc, TRUE)
  OBVIOUS
<1>3. \/ config = Refused
      \/ config = [ok |-> TRUE, name |-> name, required |-> "ok",
                   optional |-> doc.optional, reset |-> doc.reset, edge |-> clock.edge,
                   has_sample_point |-> clock.has_sample_point,
                   sample_point |-> clock.sample_point]
  BY <1>1, <1>2, Zenon DEF parse_bus_config
<1>4. config # Refused
  <2>1. ~Refused.ok
    BY DEF Refused
  <2> QED
    BY <2>1, Zenon
<1>5. config.name = name
  BY <1>3, <1>4
<1> QED
  BY <1>5 DEF bus_to_json

LEMMA ApbConfigLoadStep ==
  ASSUME StoreInv, ApbConfigLoad
  PROVE  StoreInv' /\ NamedEntriesChange
<1>1. kind = "apb"
  BY DEF ApbConfigLoad
<1>2. PICK name \in Names, doc \in BusDocs, waveform_ok \in BOOLEAN :
         IF parse_apb_config(doc, name).ok /\ waveform_ok
         THEN store_update("create", {name}, create_apb(parse_apb_config(doc, name)))
         ELSE store_refused("create", {name})
  BY Zenon DEF ApbConfigLoad
<1>3. PICK config : config = parse_apb_config(doc, name)
  OBVIOUS
<1>4. CASE config.ok /\ waveform_ok
  <2>1. PICK value : value = bus_to_json(config)
    OBVIOUS
  <2>2. value.name = name
    BY <1>3, <1>4, <2>1, BusNamed, Zenon
  <2>3. Proper("create", {name}, create_apb(config))
    <3>1. CASE json_to_apb(value).ok
      <4>1. EntryOk(value)
        BY <1>1, <3>1 DEF EntryOk
      <4>2. create_apb(config) = create_bus(value)
        BY <2>1, <3>1, Zenon DEF create_apb, apb_to_json
      <4> QED
        BY <1>1, <2>2, <4>1, <4>2, CreateBusProper
    <3>2. CASE ~json_to_apb(value).ok
      <4>1. create_apb(config) = Refuse("invalid")
        BY <2>1, <3>2, Zenon DEF create_apb, apb_to_json
      <4> QED
        BY <4>1, RefusedProper
    <3> QED
      BY <3>1, <3>2
  <2> QED
    BY <1>2, <1>3, <1>4, <2>3, UpdateStep
<1>5. CASE ~(config.ok /\ waveform_ok)
  BY <1>2, <1>3, <1>5, RefusedStep
<1> QED
  BY <1>4, <1>5

LEMMA AxiConfigLoadStep ==
  ASSUME StoreInv, AxiConfigLoad
  PROVE  StoreInv' /\ NamedEntriesChange
<1>1. kind = "axi"
  BY DEF AxiConfigLoad
<1>2. PICK name \in Names, doc \in BusDocs, wave \in AxiWaves :
         IF parse_axi_config(doc, name).ok /\ validate_axi_signals(wave)
         THEN store_update("create", {name}, create_axi(parse_axi_config(doc, name)))
         ELSE store_refused("create", {name})
  BY Zenon DEF AxiConfigLoad
<1>3. PICK config : config = parse_axi_config(doc, name)
  OBVIOUS
<1>4. CASE config.ok /\ validate_axi_signals(wave)
  <2>1. PICK value : value = bus_to_json(config)
    OBVIOUS
  <2>2. value.name = name
    BY <1>3, <1>4, <2>1, BusNamed, Zenon
  <2>3. Proper("create", {name}, create_axi(config))
    <3>1. CASE json_to_axi(value).ok
      <4>1. EntryOk(value)
        BY <1>1, <3>1 DEF EntryOk
      <4>2. create_axi(config) = create_bus(value)
        BY <2>1, <3>1, Zenon DEF create_axi, axi_to_json
      <4> QED
        BY <1>1, <2>2, <4>1, <4>2, CreateBusProper
    <3>2. CASE ~json_to_axi(value).ok
      <4>1. create_axi(config) = Refuse("invalid")
        BY <2>1, <3>2, Zenon DEF create_axi, axi_to_json
      <4> QED
        BY <4>1, RefusedProper
    <3> QED
      BY <3>1, <3>2
  <2> QED
    BY <1>2, <1>3, <1>4, <2>3, UpdateStep
<1>5. CASE ~(config.ok /\ validate_axi_signals(wave))
  BY <1>2, <1>3, <1>5, RefusedStep
<1> QED
  BY <1>4, <1>5

LEMMA BusDeleteStep ==
  ASSUME StoreInv, BusDelete
  PROVE  StoreInv' /\ NamedEntriesChange
<1>1. kind \in {"apb", "axi"}
  BY DEF BusDelete
<1>2. PICK name \in Names : store_update("remove", {name}, delete_entry(name))
  BY DEF BusDelete
<1>3. Proper("remove", {name}, delete_entry(name))
  <2>1. CASE name \notin NamesOf(items)
    <3>1. delete_entry(name) = Refuse("not_found")
      BY <2>1 DEF delete_entry
    <3> QED
      BY <3>1, RefusedProper
  <2>2. CASE name \in NamesOf(items)
    <3>1. PICK seq : seq = Without(items, name)
      OBVIOUS
    <3>2. delete_entry(name) = Stored(seq)
      BY <2>2, <3>1 DEF delete_entry
    <3>3. PICK none : none = {}
      OBVIOUS
    <3>4. Listing(seq) /\ Range(seq) = Others(items, {name}) \cup none
      BY <3>1, <3>3, WithoutName
    <3>5. /\ \A e \in none : EntryOk(e) /\ e.name \in {name}
          /\ \A a, b \in none : a.name = b.name => a = b
      BY <3>3
    <3> QED
      BY <1>1, <3>2, <3>4, <3>5, ReplacedProper
  <2> QED
    BY <2>1, <2>2
<1> QED
  BY <1>2, <1>3, UpdateStep

\* The event an accepted document makes carries the name it was loaded under.
LEMMA EventNamed ==
  ASSUME NEW doc, NEW name, NEW config, config = parse_event_config(doc, name), config.ok
  PROVE  config.name = name
<1>1. PICK clock : clock = parse_clock_sample_config(doc, FALSE)
  OBVIOUS
<1>2. \/ config = Refused
      \/ config = [ok |-> TRUE, name |-> name, reset |-> doc.reset, edge |-> clock.edge,
                   has_sample_point |-> clock.has_sample_point,
                   sample_point |-> clock.sample_point, aliases |-> doc.aliases,
                   fields |-> {field.alias : field \in doc.fields}]
  BY <1>1, Zenon DEF parse_event_config
<1>3. config # Refused
  <2>1. ~Refused.ok
    BY DEF Refused
  <2> QED
    BY <2>1, Zenon
<1> QED
  BY <1>2, <1>3

\* An entry of this waveform and name takes the place of the one there was.
LEMMA EventPlaced ==
  ASSUME StoreInv, kind = "events", NEW op, NEW value, EntryOk(value), value.fsdb = Fsdb,
         NEW others,
         others = {e \in Range(items) : ~(e.fsdb = Fsdb /\ e.name = value.name)}
  PROVE  Proper(op, {value.name}, Stored(Append(Filtered(items, others), value)))
<1>1. /\ Listing(items) /\ Identified(Range(items))
      /\ \A e \in Range(items) : EntryOk(e)
  BY DEF StoreInv, Good, GoodSet
<1>2. PICK rest : rest = Filtered(items, others)
  OBVIOUS
<1>3. Listing(rest) /\ Range(rest) = others
  <2>1. Range(items) \cap others = others
    OBVIOUS
  <2> QED
    BY <1>1, <1>2, <2>1, FilteredListing
<1>4. value \notin Range(rest)
  BY <1>3
<1>5. PICK seq : seq = Append(rest, value)
  OBVIOUS
<1>6. Listing(seq) /\ Range(seq) = others \cup {value}
  BY <1>3, <1>4, <1>5, AppendListing
<1>7. Good(seq)
  <2>1. \A e \in Range(seq) : EntryOk(e)
    BY <1>1, <1>6
  <2>2. \A e \in others : IdentityOf(e) # IdentityOf(value)
    BY DEF IdentityOf
  <2>3. Identified(Range(seq))
    BY <1>1, <1>6, <2>2 DEF Identified
  <2> QED
    BY <1>6, <2>1, <2>3 DEF Good, GoodSet, OneActive
<1>8. Untouched(items, {value.name}) = Untouched(seq, {value.name})
  <2>1. ASSUME NEW e
        PROVE  e \in Untouched(items, {value.name}) <=> e \in Untouched(seq, {value.name})
    BY <1>6 DEF Untouched
  <2> QED
    BY <2>1
<1>9. Keeps(op, {value.name}, seq)
  BY <1>8, KeepsSame
<1> QED
  BY <1>2, <1>5, <1>7, <1>9, StoredProper

LEMMA EventConfigLoadStep ==
  ASSUME StoreInv, EventConfigLoad
  PROVE  StoreInv' /\ NamedEntriesChange
<1>1. kind = "events"
  BY DEF EventConfigLoad
<1>2. PICK name \in Names, doc \in EventDocs, leaves \in BOOLEAN :
         IF parse_event_config(doc, name).ok /\ leaves
         THEN store_update("set", {name}, create_event(parse_event_config(doc, name)))
         ELSE store_refused("set", {name})
  BY Zenon DEF EventConfigLoad
<1>3. PICK config : config = parse_event_config(doc, name)
  OBVIOUS
<1>4. CASE config.ok /\ leaves
  <2>1. PICK value : value = event_to_json(Fsdb, config)
    OBVIOUS
  <2>2. config.name = name
    BY <1>3, <1>4, EventNamed
  <2>3. value.name = name /\ value.fsdb = Fsdb
    BY <2>1, <2>2 DEF event_to_json
  <2>4. PICK others : others = {e \in Range(items) : ~(e.fsdb = Fsdb /\ e.name = name)}
    OBVIOUS
  <2>5. Proper("set", {name}, create_event(config))
    <3>1. CASE json_to_event(value).ok
      <4>1. EntryOk(value)
        BY <1>1, <3>1 DEF EntryOk
      <4>2. create_event(config) = Stored(Append(Filtered(items, others), value))
        BY <2>1, <2>2, <2>4, <3>1, Zenon DEF create_event
      <4> QED
        BY <1>1, <2>3, <2>4, <4>1, <4>2, EventPlaced
    <3>2. CASE ~json_to_event(value).ok
      <4>1. create_event(config) = Refuse("invalid")
        BY <2>1, <3>2, Zenon DEF create_event
      <4> QED
        BY <4>1, RefusedProper
    <3> QED
      BY <3>1, <3>2
  <2> QED
    BY <1>2, <1>3, <1>4, <2>5, UpdateStep
<1>5. CASE ~(config.ok /\ leaves)
  BY <1>2, <1>3, <1>5, RefusedStep
<1> QED
  BY <1>4, <1>5

\* The entries a stream document makes: one for each name, as the writer writes it.
LEMMA StreamDocument ==
  ASSUME kind = "streams", NEW doc, "name" \in DOMAIN doc, NEW loaded \in Seq(Names),
         NEW docs, docs = stream_document(loaded, doc), parse_stream_config_list(docs),
         NEW incoming, incoming = stream_configs(docs)
  PROVE  Fresh(incoming) /\ NamesOf(incoming) = NamesOf(docs)
<1>1. DOMAIN docs = DOMAIN loaded /\ \A i \in DOMAIN docs : docs[i] = [doc EXCEPT !.name = loaded[i]]
  BY DEF stream_document
<1>2. \A i \in DOMAIN docs : docs[i].name = loaded[i]
  BY <1>1
<1>3. \A i \in DOMAIN docs : loaded[i] \in Nat
  BY <1>1, StoresAssumption
<1>4. /\ DOMAIN incoming = DOMAIN docs
      /\ \A i \in DOMAIN incoming :
           incoming[i] = stream_config_json(parse_stream_config_json(docs[i]))
  BY DEF stream_configs
<1>5. \A i \in DOMAIN incoming : StreamEntry(incoming[i]) /\ incoming[i].name = loaded[i]
  <2>1. TAKE i \in DOMAIN incoming
  <2>2. parse_stream_config_json(docs[i]).ok
    BY <1>4 DEF parse_stream_config_list
  <2>3. docs[i].name = loaded[i] /\ docs[i].name \in Nat
    BY <1>2, <1>3, <1>4
  <2>4. incoming[i] = stream_config_json(parse_stream_config_json(docs[i]))
    BY <1>4
  <2> QED
    BY <2>2, <2>3, <2>4, StreamWritten
<1>6. NamesOf(incoming) = NamesOf(docs)
  BY <1>2, <1>4, <1>5 DEF NamesOf
<1>7. Len(loaded) \in Nat /\ DOMAIN loaded = 1..Len(loaded)
  OBVIOUS
<1>8. /\ incoming = [i \in 1..Len(loaded) |-> incoming[i]]
      /\ docs = [i \in 1..Len(loaded) |-> docs[i]]
  BY <1>1, <1>4, <1>7 DEF stream_configs, stream_document
<1>9. PICK T : T = Range(incoming)
  OBVIOUS
<1>10. incoming \in Seq(T) /\ Len(incoming) = Len(docs)
  <2>1. \A i \in 1..Len(loaded) : incoming[i] \in T
    BY <1>1, <1>4, <1>7, <1>9 DEF Range
  <2>2. incoming \in Seq(T) /\ Len(incoming) = Len(loaded)
    BY <1>7, <1>8, <2>1
  <2>3. Len(docs) = Len(loaded)
    BY <1>7, <1>8
  <2> QED
    BY <2>2, <2>3
<1>11. Cardinality(NamesOf(incoming)) = Len(incoming)
  BY <1>6, <1>10 DEF parse_stream_config_list
<1>12. Listing(incoming) /\ \A a, b \in Range(incoming) : a.name = b.name => a = b
  BY <1>10, <1>11, DistinctNames
<1>13. \A e \in Range(incoming) : EntryOk(e) /\ e.name \in Nat
  <2>1. TAKE e \in Range(incoming)
  <2>2. PICK i \in DOMAIN incoming : e = incoming[i]
    BY DEF Range
  <2>3. StreamEntry(e) /\ e.name \in Nat
    BY <1>3, <1>4, <1>5, <2>2
  <2> QED
    BY <2>3 DEF EntryOk
<1> QED
  BY <1>6, <1>12, <1>13 DEF Fresh

LEMMA StreamConfigLoadStep ==
  ASSUME StoreInv, StreamConfigLoad
  PROVE  StoreInv' /\ NamedEntriesChange
<1>1. kind = "streams"
  BY DEF StreamConfigLoad
<1>2. PICK mode \in {"append", "replace"}, doc \in StreamDocs, issues \in BOOLEAN,
          loaded \in LoadedNames :
         IF parse_stream_config_list(stream_document(loaded, doc)) /\ ~issues
         THEN store_update("load", NamesOf(stream_document(loaded, doc)),
                load_configs(stream_configs(stream_document(loaded, doc)), mode))
         ELSE store_refused("load", NamesOf(stream_document(loaded, doc)))
  BY Zenon DEF StreamConfigLoad
<1>3. PICK docs : docs = stream_document(loaded, doc)
  OBVIOUS
<1>4. CASE parse_stream_config_list(docs) /\ ~issues
  <2>1. PICK incoming : incoming = stream_configs(docs)
    OBVIOUS
  <2>2. loaded \in Seq(Names)
    BY NamesLoaded
  <2>3. "name" \in DOMAIN doc
    BY StoresAssumption
  <2>4. Fresh(incoming) /\ NamesOf(incoming) = NamesOf(docs)
    BY <1>1, <1>3, <1>4, <2>1, <2>2, <2>3, StreamDocument
  <2>5. Proper("load", NamesOf(docs), load_configs(incoming, mode))
    BY <1>1, <2>4, LoadConfigsProper
  <2> QED
    BY <1>2, <1>3, <1>4, <2>1, <2>5, UpdateStep
<1>5. CASE ~(parse_stream_config_list(docs) /\ ~issues)
  BY <1>2, <1>3, <1>5, RefusedStep
<1> QED
  BY <1>4, <1>5

(***************************************************************************)
(* Every step.                                                             *)
(***************************************************************************)
Reads ==
  \/ ListShow \/ ListValidate \/ CursorGet \/ CursorList \/ ApbConfigList
  \/ AxiConfigList \/ EventConfigList \/ StreamConfigGet \/ StreamConfigList

LEMMA ReadsStep ==
  ASSUME StoreInv, Reads
  PROVE  StoreInv' /\ NamedEntriesChange
<1>1. \E found : store_read(found)
  <2>1. CASE ListShow
    BY <2>1, Zenon DEF ListShow
  <2>2. CASE ListValidate
    BY <2>2, Zenon DEF ListValidate
  <2>3. CASE CursorGet
    BY <2>3, Zenon DEF CursorGet
  <2>4. CASE CursorList
    BY <2>4, Zenon DEF CursorList
  <2>5. CASE ApbConfigList
    BY <2>5, Zenon DEF ApbConfigList
  <2>6. CASE AxiConfigList
    BY <2>6, Zenon DEF AxiConfigList
  <2>7. CASE EventConfigList
    BY <2>7, Zenon DEF EventConfigList
  <2>8. CASE StreamConfigGet
    BY <2>8, Zenon DEF StreamConfigGet
  <2>9. CASE StreamConfigList
    BY <2>9, Zenon DEF StreamConfigList
  <2> QED
    BY <2>1, <2>2, <2>3, <2>4, <2>5, <2>6, <2>7, <2>8, <2>9 DEF Reads
<1> QED
  BY <1>1, ReadStep

LEMMA StoresStep ==
  ASSUME StoreInv, NextStores
  PROVE  StoreInv' /\ NamedEntriesChange
<1>1. CASE ListLoad
  BY <1>1, ListLoadStep
<1>2. CASE ListCreate
  BY <1>2, ListCreateStep
<1>3. CASE ListAdd
  BY <1>3, ListAddStep
<1>4. CASE ListDelete
  BY <1>4, ListDeleteStep
<1>5. CASE CursorSet
  BY <1>5, CursorSetStep
<1>6. CASE CursorDelete
  BY <1>6, CursorDeleteStep
<1>7. CASE CursorUse
  BY <1>7, CursorUseStep
<1>8. CASE ApbConfigLoad
  BY <1>8, ApbConfigLoadStep
<1>9. CASE AxiConfigLoad
  BY <1>9, AxiConfigLoadStep
<1>10. CASE BusDelete
  BY <1>10, BusDeleteStep
<1>11. CASE EventConfigLoad
  BY <1>11, EventConfigLoadStep
<1>12. CASE StreamConfigLoad
  BY <1>12, StreamConfigLoadStep
<1>13. CASE Reads
  BY <1>13, ReadsStep
<1> QED
  BY <1>1, <1>2, <1>3, <1>4, <1>5, <1>6, <1>7, <1>8, <1>9, <1>10, <1>11, <1>12, <1>13
  DEF NextStores, Reads

(***************************************************************************)
(* A store starts empty, or holds an event another waveform left behind.   *)
(***************************************************************************)
LEMMA EmptyGood ==
  ASSUME NEW seq, seq = <<>>
  PROVE  Good(seq)
<1>1. Listing(seq) /\ Range(seq) = {}
  BY EmptyListing
<1> QED
  BY <1>1 DEF Good, GoodSet, Identified, OneActive

\* Whether an event document is accepted does not depend on the name.
LEMMA EventAnyName ==
  ASSUME NEW doc, parse_event_config(doc, 1).ok, NEW name
  PROVE  parse_event_config(doc, name).ok
<1>1. PICK clock : clock = parse_clock_sample_config(doc, FALSE)
  OBVIOUS
<1> DEFINE Accepted ==
      /\ ~doc.unknown /\ clock.ok
      /\ doc.reset \in Levels \cup {"absent"}
      /\ doc.aliases # {} /\ "malformed" \notin doc.aliases
      /\ \A field \in doc.fields : parse_field_ref(field, doc.aliases)
<1>2. Accepted
  <2>1. CASE ~Accepted
    <3>1. parse_event_config(doc, 1) = Refused
      BY <1>1, <2>1, Zenon DEF parse_event_config
    <3>2. ~parse_event_config(doc, 1).ok
      BY <3>1 DEF Refused
    <3> QED
      BY <3>2
  <2> QED
    BY <2>1
<1>3. PICK config : config = parse_event_config(doc, name)
  OBVIOUS
<1>4. config = [ok |-> TRUE, name |-> name, reset |-> doc.reset, edge |-> clock.edge,
                has_sample_point |-> clock.has_sample_point,
                sample_point |-> clock.sample_point, aliases |-> doc.aliases,
                fields |-> {field.alias : field \in doc.fields}]
  BY <1>1, <1>2, <1>3, Zenon DEF parse_event_config
<1>5. config.ok
  BY <1>4
<1> QED
  BY <1>3, <1>5

LEMMA InitStoresInv ==
  ASSUME InitStores
  PROVE  StoreInv
<1>1. kind \in Kinds
  BY DEF InitStores
<1>2. CASE items = <<>>
  BY <1>1, <1>2, EmptyGood DEF StoreInv
<1>3. CASE kind = "events" /\ items # <<>>
  <2>1. PICK name \in Names, doc \in {d \in EventDocs : parse_event_config(d, 1).ok} :
           items = <<event_to_json(OtherFsdb, parse_event_config(doc, name))>>
    BY <1>3 DEF InitStores
  <2>2. parse_event_config(doc, name).ok
    BY EventAnyName
  <2>3. PICK config : config = parse_event_config(doc, name)
    OBVIOUS
  <2>4. PICK value : value = event_to_json(OtherFsdb, config)
    OBVIOUS
  <2>5. json_to_event(value).ok
    BY <2>2, <2>3, <2>4, EventWritten
  <2>6. Listing(items) /\ Range(items) = {value}
    BY <2>1, <2>3, <2>4, SingleListing
  <2>7. EntryOk(value)
    BY <1>3, <2>5 DEF EntryOk
  <2> QED
    BY <1>1, <1>3, <2>6, <2>7 DEF StoreInv, Good, GoodSet, Identified, OneActive
<1> QED
  BY <1>2, <1>3 DEF InitStores

(***************************************************************************)
(* The invariant of the stores.  It holds the entries to what the parsers  *)
(* demand one by one, and the file to one entry for each identity and one  *)
(* active cursor: what StoreReadable says, in terms every writer can be    *)
(* shown to keep.                                                          *)
(***************************************************************************)
THEOREM StoresInvariant == SpecStores => []StoreInv
<1>1. InitStores => StoreInv
  BY InitStoresInv
<1>2. StoreInv /\ [NextStores]_storeVars => StoreInv'
  <2>1. ASSUME StoreInv, NextStores PROVE StoreInv'
    BY <2>1, StoresStep
  <2>2. ASSUME StoreInv, UNCHANGED storeVars PROVE StoreInv'
    BY <2>2, QuietStep DEF storeVars
  <2> QED
    BY <2>1, <2>2
<1> QED
  BY <1>1, <1>2, PTL DEF SpecStores

(***************************************************************************)
(* Every store file a session wrote can be read back, whatever operations  *)
(* ran and however their writes failed: no list.*, cursor.*, *.config.load *)
(* leaves an entry its own parser refuses, two entries of one identity, or *)
(* two active cursors, any of which makes every later operation on the     *)
(* file answer "invalid" (the loaders of the *_store.cpp files).           *)
(***************************************************************************)
THEOREM StoresStayReadable == SpecStores => []StoreReadable
<1>1. StoreInv => StoreReadable
  BY GoodReadable DEF StoreInv, StoreReadable
<1> QED
  BY <1>1, StoresInvariant, PTL

(***************************************************************************)
(* An operation changes the entries it names and no other: a replacing     *)
(* load keeps what its document does not mention, a refused append leaves  *)
(* nothing behind, an event of another waveform survives, and the active   *)
(* cursor changes only when it is removed or another one is activated      *)
(* (the mutations passed to VersionedJsonStore::update).                   *)
(***************************************************************************)
THEOREM OperationsKeepOtherEntries == SpecStores => OnlyNamedEntriesChange
<1>1. StoreInv /\ [NextStores]_storeVars => [NamedEntriesChange]_storeVars
  <2>1. ASSUME StoreInv, NextStores PROVE NamedEntriesChange
    BY <2>1, StoresStep
  <2> QED
    BY <2>1
<1> QED
  BY <1>1, StoresInvariant, PTL DEF SpecStores, OnlyNamedEntriesChange
=============================================================================
