---------------------------- MODULE StoreConfigs ----------------------------
(***************************************************************************)
(* What the configuration documents of APB, AXI, event and stream analysis *)
(* must look like, how they become config structs, and how structs are     *)
(* written to and read back from the session's stores.  A text field of a  *)
(* document is "absent", "bad" (present, but not a non-empty string) or    *)
(* "ok"; which signal it names does not matter here.  Names of configs are *)
(* numbers in the order of the names' text; 0 is a name that is not valid. *)
(***************************************************************************)
EXTENDS Naturals, FiniteSets

Edges == {"posedge", "negedge", "dual"}
Points == {"before", "after"}
Levels == {"active_low", "active_high"}
Refused == [ok |-> FALSE]

----------------------------------------------------------------------------
(* Clock sampling, shared by all documents: a clock is required, the edge  *)
(* defaults to negedge, and a sample point is refused with negedge except  *)
(* by event documents, which keep it.                                      *)
parse_clock_sample_config(doc, reject_for_negedge) ==
    LET edge == IF doc.edge = "absent" THEN "negedge" ELSE doc.edge
        has  == doc.sample_point # "absent"
    IN  IF /\ ~doc.legacy
           /\ doc.clock = "ok"
           /\ edge \in Edges
           /\ has => doc.sample_point \in Points
           /\ ~(reject_for_negedge /\ edge = "negedge" /\ has)
        THEN [ok |-> TRUE, edge |-> edge, has_sample_point |-> has,
              sample_point |-> IF has THEN doc.sample_point ELSE "before"]
        ELSE Refused

(* APB and AXI documents: canonical fields only, every required path       *)
(* present, optional paths non-empty when present, a reset.                *)
parse_bus_config(doc, name) ==
    LET clock == parse_clock_sample_config(doc, TRUE) IN
    IF /\ ~doc.unknown
       /\ doc.required = "ok"
       /\ doc.optional # "bad"
       /\ doc.reset \in Levels
       /\ clock.ok
    THEN [ok |-> TRUE, name |-> name, required |-> "ok",
          optional |-> doc.optional, reset |-> doc.reset, edge |-> clock.edge,
          has_sample_point |-> clock.has_sample_point,
          sample_point |-> clock.sample_point]
    ELSE Refused

parse_apb_config(doc, name) == parse_bus_config(doc, name)

(* AXI names no optional path. *)
parse_axi_config(doc, name) ==
    IF doc.optional = "absent" THEN parse_bus_config(doc, name) ELSE Refused

bus_to_json(config) ==
    [name |-> config.name, required |-> config.required,
     optional |-> config.optional, reset |-> config.reset, edge |-> config.edge,
     sample_point |-> IF config.edge = "negedge" THEN "absent"
                      ELSE config.sample_point]

apb_to_json(config) == bus_to_json(config)
axi_to_json(config) == bus_to_json(config)

json_to_bus(value) ==
    IF /\ value.name # 0 /\ value.required = "ok" /\ value.optional # "bad"
       /\ value.reset \in Levels /\ value.edge \in Edges
       /\ IF value.edge = "negedge" THEN value.sample_point = "absent"
                                    ELSE value.sample_point \in Points
    THEN [ok |-> TRUE, name |-> value.name, required |-> value.required,
          optional |-> value.optional, reset |-> value.reset,
          edge |-> value.edge, has_sample_point |-> value.edge # "negedge",
          sample_point |-> IF value.edge = "negedge" THEN "before"
                           ELSE value.sample_point]
    ELSE Refused

json_to_apb(value) == json_to_bus(value)
json_to_axi(value) == IF value.optional = "absent" THEN json_to_bus(value) ELSE Refused

----------------------------------------------------------------------------
(* A field of an event: a slice of a signal alias, written "a[l:r]" or as  *)
(* an object; its bounds must be representable non-negative ints.          *)
parse_field_ref(field, aliases) ==
    field.shape \in {"text", "object"} /\ field.bounds = "int" /\ field.alias \in aliases

parse_event_config(doc, name) ==
    LET clock == parse_clock_sample_config(doc, FALSE) IN
    IF /\ ~doc.unknown
       /\ clock.ok
       /\ doc.reset \in Levels \cup {"absent"}
       /\ doc.aliases # {} /\ "malformed" \notin doc.aliases
       /\ \A field \in doc.fields : parse_field_ref(field, doc.aliases)
    THEN [ok |-> TRUE, name |-> name, reset |-> doc.reset, edge |-> clock.edge,
          has_sample_point |-> clock.has_sample_point,
          sample_point |-> clock.sample_point, aliases |-> doc.aliases,
          fields |-> {field.alias : field \in doc.fields}]
    ELSE Refused

event_to_json(fsdb, config) ==
    [fsdb |-> fsdb, name |-> config.name, edge |-> config.edge,
     reset |-> config.reset, aliases |-> config.aliases, fields |-> config.fields,
     sample_point |-> IF config.has_sample_point THEN config.sample_point
                      ELSE "absent"]

json_to_event(value) ==
    IF /\ value.name # 0 /\ value.edge \in Edges
       /\ value.reset \in Levels \cup {"absent"}
       /\ value.sample_point \in Points \cup {"absent"}
       /\ value.aliases # {} /\ value.fields \subseteq value.aliases
    THEN [ok |-> TRUE, name |-> value.name, reset |-> value.reset,
          edge |-> value.edge,
          has_sample_point |-> value.sample_point # "absent",
          sample_point |-> IF value.sample_point = "absent" THEN "before"
                           ELSE value.sample_point,
          aliases |-> value.aliases, fields |-> value.fields]
    ELSE Refused

----------------------------------------------------------------------------
stream_name_valid(name) == name # "malformed"
stream_field_name_valid(field) == stream_name_valid(field) /\ field # "reserved"

(* A non-empty map from alias to signal path. *)
parse_signal_map(aliases) ==
    aliases # {} /\ \A alias \in aliases : stream_name_valid(alias)

(* A map of named expressions: absent, or non-empty with valid names.      *)
parse_field_map(map) ==
    map.present => /\ map.names # {}
                   /\ \A field \in map.names : stream_field_name_valid(field)

FieldNames(map) == IF map.present THEN map.names ELSE {}

PacketEnabled(item) == item.sop = "ok" /\ item.eop = "ok"

(* The rules that tie the fields of one stream together. *)
stream_fields_consistent(item, valid) ==
    LET beat   == FieldNames(item.beat_fields)
        stable == FieldNames(item.packet_stable_fields)
        data   == IF item.data = "ok" THEN {"data"} ELSE {}
    IN  /\ data \cap beat = {}
        /\ stable \cap (beat \cup data) = {}
        /\ beat \cup stable \cup data # {}
        /\ (item.sop = "ok") = (item.eop = "ok")
        /\ valid \in {"sop", "eop"} => PacketEnabled(item) /\ item.channel_id = "ok"
        /\ item.allow_interleaving =>
             PacketEnabled(item) /\ item.channel_id = "ok" /\ valid = "every_beat"

parse_stream_config_json(item) ==
    LET clock == parse_clock_sample_config(item, TRUE)
        valid == IF item.channel_id_valid = "absent" THEN "every_beat"
                 ELSE item.channel_id_valid
    IN  IF /\ ~item.unknown
           /\ item.name # 0
           /\ parse_signal_map(item.aliases)
           /\ clock.ok
           /\ item.reset \in Levels \cup {"absent"}
           /\ item.vld = "ok"
           /\ "bad" \notin {item.sop, item.eop, item.data, item.channel_id}
           /\ valid \in {"sop", "eop", "every_beat"}
           /\ parse_field_map(item.packet_stable_fields)
           /\ parse_field_map(item.beat_fields)
           /\ stream_fields_consistent(item, valid)
        THEN [ok |-> TRUE, name |-> item.name, aliases |-> item.aliases,
              edge |-> clock.edge, has_sample_point |-> clock.has_sample_point,
              sample_point |-> clock.sample_point, reset |-> item.reset,
              vld |-> item.vld, sop |-> item.sop, eop |-> item.eop,
              data |-> item.data, channel_id |-> item.channel_id,
              channel_id_valid |-> valid,
              allow_interleaving |-> item.allow_interleaving,
              beat_fields |-> FieldNames(item.beat_fields),
              packet_stable_fields |-> FieldNames(item.packet_stable_fields)]
        ELSE Refused

stream_config_json(c) ==
    [unknown |-> FALSE, legacy |-> FALSE, name |-> c.name, aliases |-> c.aliases,
     clock |-> "ok", edge |-> c.edge,
     sample_point |-> IF c.edge = "negedge" THEN "absent" ELSE c.sample_point,
     reset |-> c.reset, vld |-> c.vld, sop |-> c.sop, eop |-> c.eop,
     data |-> c.data, channel_id |-> c.channel_id,
     channel_id_valid |-> c.channel_id_valid,
     allow_interleaving |-> c.allow_interleaving,
     beat_fields |-> [present |-> c.beat_fields # {}, names |-> c.beat_fields],
     packet_stable_fields |->
        [present |-> c.packet_stable_fields # {}, names |-> c.packet_stable_fields]]
=============================================================================
