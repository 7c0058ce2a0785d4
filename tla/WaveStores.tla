----------------------------- MODULE WaveStores -----------------------------
(***************************************************************************)
(* The configuration stores of a session: signal lists, cursors, APB, AXI  *)
(* and event configs, stream configs.  Each is one JSON file that every    *)
(* operation reads, changes and atomically replaces, so the six files are  *)
(* independent and the model follows one of them, chosen in Init.  A write *)
(* can fail before the rename (the old file stays) or after it, when the   *)
(* directory cannot be synced (the new file stays and the caller is told   *)
(* the operation failed).                                                  *)
(***************************************************************************)
EXTENDS StoreConfigs, Integers, Sequences, SequencesExt, SequenceFilters

CONSTANTS Names,        \* names of lists, cursors and configs, in map order
          Signals,      \* waveform signals; the aggregate ones are not leaves
          Leaves,       \* the signals list.* actions accept
          Fsdb, OtherFsdb,  \* the session's waveform, and one opened earlier
          BusDocs,      \* APB and AXI documents requests carry
          AxiWaves,     \* what the waveform says about an AXI config's signals
          EventDocs, StreamDocs,
          MaxItems      \* bound: entries of one store
ASSUME StoresAssumption ==
    /\ Names \subseteq Nat \ {0}
    /\ Leaves \subseteq Signals
    /\ \A doc \in StreamDocs : "name" \in DOMAIN doc
    /\ MaxItems \in Nat

Kinds == {"lists", "cursors", "apb", "axi", "events", "streams"}

VARIABLES kind,   \* which store file
          items,  \* its entries as read back, in file order
          reply   \* [status, names, op] of the last operation

storeVars == <<kind, items, reply>>

NamesOf(seq) == {seq[i].name : i \in DOMAIN seq}
Entry(seq, name) == CHOOSE entry \in Range(seq) : entry.name = name
Without(seq, name) == Filtered(seq, {entry \in Range(seq) : entry.name # name})

(* An event is identified by its waveform and its name. *)
IdentityOf(entry) == IF kind = "events" THEN <<entry.fsdb, entry.name>> ELSE <<entry.name>>

(* Entries of different names in the order of the names. *)
Before(set, entry) == Cardinality({other \in set : other.name < entry.name})
Increasing(set) ==
    [i \in 1 .. Cardinality(set) |-> CHOOSE entry \in set : Before(set, entry) = i - 1]

----------------------------------------------------------------------------
(* The parsers: an item that does not parse, or a second one with the same *)
(* identity, makes the whole store unreadable.                             *)
json_to_list(value) ==
    Cardinality(Range(value.signals)) = Len(value.signals)

json_to_cursor(value) == value.origin # "" /\ value.time >= 0 /\ value.created_at >= 0

Unique(seq) == Cardinality({IdentityOf(seq[i]) : i \in DOMAIN seq}) = Len(seq)

parse_lists(seq) == Unique(seq) /\ \A i \in DOMAIN seq : json_to_list(seq[i])

parse_cursors(seq) ==
    /\ Unique(seq) /\ \A i \in DOMAIN seq : json_to_cursor(seq[i])
    /\ Cardinality({i \in DOMAIN seq : seq[i].active}) <= 1

parse_apb_configs(seq) == Unique(seq) /\ \A i \in DOMAIN seq : json_to_apb(seq[i]).ok
parse_axi_configs(seq) == Unique(seq) /\ \A i \in DOMAIN seq : json_to_axi(seq[i]).ok
parse_event_configs(seq) == Unique(seq) /\ \A i \in DOMAIN seq : json_to_event(seq[i]).ok

(* A stored stream must also be in the form the writer gives it. *)
parse_stored_streams(seq) ==
    /\ Unique(seq)
    /\ \A i \in DOMAIN seq :
         LET config == parse_stream_config_json(seq[i])
         IN  config.ok /\ stream_config_json(config) = seq[i]

parse_items(seq) ==
    CASE kind = "lists"   -> parse_lists(seq)
      [] kind = "cursors" -> parse_cursors(seq)
      [] kind = "apb"     -> parse_apb_configs(seq)
      [] kind = "axi"     -> parse_axi_configs(seq)
      [] kind = "events"  -> parse_event_configs(seq)
      [] kind = "streams" -> parse_stored_streams(seq)

(* A mutation's outcome: the new contents, or the refusal's status. *)
Stored(seq) == [status |-> "ok", items |-> seq]
Refuse(status) == [status |-> status, items |-> <<>>]

(* VersionedJsonStore::update: load, mutate, write to a temporary, rename, *)
(* sync the directory.                                                     *)
store_update(op, names, outcome) ==
    /\ outcome.status = "ok" => Len(outcome.items) <= MaxItems
    /\ kind' = kind
    /\ IF ~parse_items(items)
       THEN /\ reply' = [status |-> "invalid", names |-> names, op |-> op]
            /\ UNCHANGED items
       ELSE IF outcome.status # "ok"
       THEN /\ reply' = [status |-> outcome.status, names |-> names, op |-> op]
            /\ UNCHANGED items
       ELSE \/ /\ items' = outcome.items
               /\ \E status \in {"ok", "io"} :
                    reply' = [status |-> status, names |-> names, op |-> op]
            \/ /\ reply' = [status |-> "io", names |-> names, op |-> op]
               /\ UNCHANGED items

(* A request refused before it reaches the store. *)
store_refused(op, names) ==
    /\ reply' = [status |-> "invalid", names |-> names, op |-> op]
    /\ UNCHANGED <<kind, items>>

----------------------------------------------------------------------------
(* Both loaders: append adds every incoming entry or, at the first name    *)
(* that is taken, none; replace merges into a map, so the result is sorted *)
(* by name and keeps the entries the document does not mention.            *)
append_all(incoming) ==
    IF NamesOf(items) \cap NamesOf(incoming) # {} THEN Refuse("conflict")
    ELSE Stored(items \o incoming)

replace_by_name_dropping(incoming) == Stored(Increasing(Range(incoming)))

replace_by_name(incoming) ==
    LET kept == {entry \in Range(items) : entry.name \notin NamesOf(incoming)}
    IN  Stored(Increasing(kept \cup Range(incoming)))

load_lists(incoming, mode) ==
    IF mode = "append" THEN append_all(incoming) ELSE replace_by_name(incoming)

load_configs(incoming, mode) ==
    IF mode = "append" THEN append_all(incoming) ELSE replace_by_name(incoming)

(* A document names one or two entries. *)
LoadedNames == {<<n>> : n \in Names} \cup {<<n, m>> : n, m \in Names}

list_document(loaded, signals) ==
    [i \in DOMAIN loaded |-> [name |-> loaded[i], signals |-> signals]]

(* list.load: every list non-empty, with leaf signals named once. *)
list_document_ok(incoming) ==
    /\ incoming # <<>>
    /\ Cardinality(NamesOf(incoming)) = Len(incoming)
    /\ \A i \in DOMAIN incoming :
         /\ incoming[i].signals # <<>>
         /\ json_to_list(incoming[i])
         /\ Range(incoming[i].signals) \subseteq Leaves

ListLoad ==
    /\ kind = "lists"
    /\ \E mode \in {"append", "replace"}, signals \in SeqOf(Signals, 2),
          loaded \in LoadedNames :
         LET incoming == list_document(loaded, signals)
         IN  IF list_document_ok(incoming)
             THEN store_update("load", NamesOf(incoming), load_lists(incoming, mode))
             ELSE store_refused("load", NamesOf(incoming))

create_list(name, signals) ==
    IF name \in NamesOf(items) THEN Refuse("conflict")
    ELSE Stored(Append(items, [name |-> name, signals |-> signals]))

ListCreate ==
    /\ kind = "lists"
    /\ \E name \in Names, signals \in SeqOf(Signals, 2) :
         IF Range(signals) \subseteq Leaves /\ json_to_list([signals |-> signals])
         THEN store_update("create", {name}, create_list(name, signals))
         ELSE store_refused("create", {name})

(* A changed list moves to the end of the file. *)
move_to_end(entry) == Stored(Append(Without(items, entry.name), entry))

add_signal(name, signal) ==
    IF name \notin NamesOf(items) THEN Refuse("not_found")
    ELSE LET list == Entry(items, name) IN
         IF signal \in Range(list.signals) THEN Refuse("conflict")
         ELSE move_to_end([list EXCEPT !.signals = Append(@, signal)])

ListAdd ==
    /\ kind = "lists"
    /\ \E name \in Names, signal \in Signals :
         IF signal \in Leaves
         THEN store_update("add", {name}, add_signal(name, signal))
         ELSE store_refused("add", {name})

delete_signal_by_path(name, signal) ==
    IF name \notin NamesOf(items) THEN Refuse("not_found")
    ELSE LET list == Entry(items, name) IN
         IF signal \notin Range(list.signals) THEN Refuse("not_found")
         ELSE move_to_end([list EXCEPT !.signals =
                Filtered(@, Range(@) \ {signal})])

delete_signal_by_one_based_index(name, index) ==
    IF name \notin NamesOf(items) THEN Refuse("not_found")
    ELSE LET list == Entry(items, name) IN
         IF index \notin DOMAIN list.signals THEN Refuse("precondition")
         ELSE move_to_end([list EXCEPT !.signals = RemoveAt(@, index)])

ListDelete ==
    /\ kind = "lists"
    /\ \E name \in Names :
         \/ \E signal \in Signals :
              store_update("delete", {name}, delete_signal_by_path(name, signal))
         \/ \E index \in -1 .. 3 :
              IF index <= 0 THEN store_refused("delete", {name})
              ELSE store_update("delete", {name},
                                delete_signal_by_one_based_index(name, index))

----------------------------------------------------------------------------
(* Setting an existing cursor keeps its place, its creation time and its   *)
(* active mark; making one active clears every other mark.                 *)
OriginTexts == {"", "search"}
cursor_origin(origin) == IF origin = "" THEN "manual" ELSE origin

mark_active_keeping(seq, name) ==
    [i \in DOMAIN seq |-> [seq[i] EXCEPT !.active = @ \/ seq[i].name = name]]

mark_active(seq, name) ==
    [i \in DOMAIN seq |-> [seq[i] EXCEPT !.active = (seq[i].name = name)]]

cursor_record(name, time, origin, created, active) ==
    [name |-> name, time |-> time, origin |-> cursor_origin(origin),
     created_at |-> created, active |-> active]

put_record(name, time, origin) ==
    IF name \in NamesOf(items)
    THEN [i \in DOMAIN items |->
            IF items[i].name = name
            THEN cursor_record(name, time, origin, items[i].created_at, items[i].active)
            ELSE items[i]]
    ELSE Append(items, cursor_record(name, time, origin, time, FALSE))

set_cursor(name, time, origin, make_active) ==
    LET replaced == put_record(name, time, origin)
    IN  Stored(IF make_active THEN mark_active(replaced, name) ELSE replaced)

CursorSet ==
    /\ kind = "cursors"
    /\ \E name \in Names, time \in {1, 2}, origin \in OriginTexts, active \in BOOLEAN :
         store_update("set", {name}, set_cursor(name, time, origin, active))

delete_entry(name) ==
    IF name \notin NamesOf(items) THEN Refuse("not_found")
    ELSE Stored(Without(items, name))

CursorDelete ==
    /\ kind = "cursors"
    /\ \E name \in Names : store_update("remove", {name}, delete_entry(name))

use_cursor(name) ==
    IF name \notin NamesOf(items) THEN Refuse("not_found")
    ELSE Stored(mark_active(items, name))

CursorUse ==
    /\ kind = "cursors"
    /\ \E name \in Names : store_update("use", {name}, use_cursor(name))

(* What a TimeSpec "@" resolves to: the marked cursor, or none. *)
get_active_cursor(seq) ==
    LET marked == {i \in DOMAIN seq : seq[i].active}
    IN  IF marked = {} THEN 0 ELSE seq[CHOOSE i \in marked : \A j \in marked : i <= j].name

----------------------------------------------------------------------------
(* apb.config.load and axi.config.load: the document, the reset's width in *)
(* the waveform (for AXI the widths of all signals and a first edge), then *)
(* a new entry; a taken name is a conflict.                                *)
create_bus(value) ==
    IF value.name \in NamesOf(items) THEN Refuse("conflict")
    ELSE Stored(Append(items, value))

create_apb(config) ==
    IF ~json_to_apb(apb_to_json(config)).ok THEN Refuse("invalid")
    ELSE create_bus(apb_to_json(config))

create_axi(config) ==
    IF ~json_to_axi(axi_to_json(config)).ok THEN Refuse("invalid")
    ELSE create_bus(axi_to_json(config))

ApbConfigLoad ==
    /\ kind = "apb"
    /\ \E name \in Names, doc \in BusDocs, waveform_ok \in BOOLEAN :
         LET config == parse_apb_config(doc, name) IN
         IF config.ok /\ waveform_ok
         THEN store_update("create", {name}, create_apb(config))
         ELSE store_refused("create", {name})

(* The waveform's side of an AXI config: every signal found, controls one  *)
(* bit wide, identifiers, data and strobes of matching widths (0 is a      *)
(* width the waveform does not tell), and at least one clock edge.         *)
WidthsAgree(left, right) == left > 0 /\ right > 0 => left = right

validate_axi_signals(wave) ==
    /\ wave.found
    /\ wave.control \in {0, 1}
    /\ WidthsAgree(wave.awid, wave.bid) /\ WidthsAgree(wave.arid, wave.rid)
    /\ WidthsAgree(wave.wdata, wave.rdata)
    /\ WidthsAgree(wave.wdata, wave.wstrb * 8)
    /\ wave.first_edge

AxiConfigLoad ==
    /\ kind = "axi"
    /\ \E name \in Names, doc \in BusDocs, wave \in AxiWaves :
         LET config == parse_axi_config(doc, name) IN
         IF config.ok /\ validate_axi_signals(wave)
         THEN store_update("create", {name}, create_axi(config))
         ELSE store_refused("create", {name})

BusDelete ==
    /\ kind \in {"apb", "axi"}
    /\ \E name \in Names : store_update("remove", {name}, delete_entry(name))

(* event.config.load replaces an entry of this waveform with its name and  *)
(* moves it to the end.  Entries of another waveform are kept.             *)
create_event(config) ==
    LET value == event_to_json(Fsdb, config)
        others == {entry \in Range(items) : ~(entry.fsdb = Fsdb /\ entry.name = config.name)}
    IN  IF ~json_to_event(value).ok THEN Refuse("invalid")
        ELSE Stored(Append(Filtered(items, others), value))

EventConfigLoad ==
    /\ kind = "events"
    /\ \E name \in Names, doc \in EventDocs, leaves \in BOOLEAN :
         LET config == parse_event_config(doc, name) IN
         IF config.ok /\ leaves
         THEN store_update("set", {name}, create_event(config))
         ELSE store_refused("set", {name})

(* A stream document: one to many streams, each valid, no name twice. *)
parse_stream_config_list(docs) ==
    /\ docs # <<>>
    /\ \A i \in DOMAIN docs : parse_stream_config_json(docs[i]).ok
    /\ Cardinality(NamesOf(docs)) = Len(docs)

stream_document(loaded, doc) ==
    [i \in DOMAIN loaded |-> [doc EXCEPT !.name = loaded[i]]]

stream_configs(docs) ==
    [i \in DOMAIN docs |-> stream_config_json(parse_stream_config_json(docs[i]))]

StreamConfigLoad ==
    /\ kind = "streams"
    /\ \E mode \in {"append", "replace"}, doc \in StreamDocs, issues \in BOOLEAN,
          loaded \in LoadedNames :
         LET docs == stream_document(loaded, doc) IN
         IF parse_stream_config_list(docs) /\ ~issues
         THEN store_update("load", NamesOf(docs),
                load_configs(stream_configs(docs), mode))
         ELSE store_refused("load", NamesOf(docs))

----------------------------------------------------------------------------
(* Reading operations: they parse the whole store and look a name up.      *)
store_read(found) ==
    /\ reply' = [status |-> IF ~parse_items(items) THEN "invalid"
                            ELSE IF found THEN "ok" ELSE "not_found",
                 names |-> {}, op |-> "read"]
    /\ UNCHANGED <<kind, items>>

ListShow == kind = "lists" /\ \E name \in Names : store_read(name \in NamesOf(items))

(* list.validate refuses an aggregate signal and reports missing ones. *)
ListValidate ==
    /\ kind = "lists"
    /\ \E name \in NamesOf(items) :
         store_read(Range(Entry(items, name).signals) \subseteq Leaves)

CursorGet == kind = "cursors" /\ \E name \in Names : store_read(name \in NamesOf(items))
CursorList == kind = "cursors" /\ store_read(TRUE)
ApbConfigList == kind = "apb" /\ \E name \in Names : store_read(name \in NamesOf(items))
AxiConfigList == kind = "axi" /\ \E name \in Names : store_read(name \in NamesOf(items))

(* Only the session's own waveform is looked at. *)
EventConfigList ==
    /\ kind = "events"
    /\ \E name \in Names :
         store_read(\E entry \in Range(items) : entry.fsdb = Fsdb /\ entry.name = name)

StreamConfigGet == kind = "streams" /\ \E name \in Names : store_read(name \in NamesOf(items))
StreamConfigList == kind = "streams" /\ store_read(TRUE)

----------------------------------------------------------------------------
InitStores ==
    /\ kind \in Kinds
    /\ reply = [status |-> "ok", names |-> {}, op |-> "open"]
    /\ items \in IF kind = "events"
                 THEN {<<>>} \cup
                      {<<event_to_json(OtherFsdb, parse_event_config(doc, name))>> :
                           name \in Names, doc \in {d \in EventDocs : parse_event_config(d, 1).ok}}
                 ELSE {<<>>}

NextStores ==
    \/ ListLoad \/ ListCreate \/ ListAdd \/ ListDelete
    \/ CursorSet \/ CursorDelete \/ CursorUse
    \/ ApbConfigLoad \/ AxiConfigLoad \/ BusDelete
    \/ EventConfigLoad \/ StreamConfigLoad
    \/ ListShow \/ ListValidate \/ CursorGet \/ CursorList \/ ApbConfigList
    \/ AxiConfigList \/ EventConfigList \/ StreamConfigGet \/ StreamConfigList

SpecStores == InitStores /\ [][NextStores]_storeVars

----------------------------------------------------------------------------
(* Whatever sequence of operations ran and however their writes failed,    *)
(* the store can be read again: what the writers put there is what the     *)
(* parsers accept (unique identities, one active cursor at most, canonical *)
(* stream documents, a sample point exactly where the parser demands it).  *)
StoreReadable == parse_items(items)

(* What an entry says, apart from the cursor mark another cursor may take. *)
Content(entry) == IF kind = "cursors" THEN [entry EXCEPT !.active = FALSE] ELSE entry

(* The entries an operation on names has no business with. *)
Untouched(seq, names) ==
    {entry \in Range(seq) : \/ entry.name \notin names
                            \/ kind = "events" /\ entry.fsdb # Fsdb}

NamedEntriesChange ==
    /\ reply'.status \notin {"ok", "io"} => items' = items
    /\ {Content(entry) : entry \in Untouched(items, reply'.names)}
          = {Content(entry) : entry \in Untouched(items', reply'.names)}
    /\ kind = "cursors" /\ get_active_cursor(items) # get_active_cursor(items')
         => \/ get_active_cursor(items') \in reply'.names
            \/ get_active_cursor(items) \in reply'.names /\ reply'.op = "remove"

(* An operation changes the entries it names and no other: list.load and   *)
(* stream.config.load keep what their document does not mention, a refused *)
(* append leaves nothing of its first half, an event of another waveform   *)
(* survives, and the active cursor is lost only by removing it or by       *)
(* activating another one.                                                 *)
OnlyNamedEntriesChange == [][NamedEntriesChange]_storeVars
=============================================================================
