---------------------------- MODULE StreamActions ----------------------------
(***************************************************************************)
(* The actions on a configured stream: stream.query, stream.validate,      *)
(* stream.export and stream.describe.                                      *)
(*                                                                         *)
(* A request names what the handlers look at: the stored configuration     *)
(* ("ok", "absent" or "broken"), the cache scope, an optional time range,  *)
(* and optional arguments as sequences of length 0 or 1.  A time is a      *)
(* number, Absent, or Malformed for a text that does not parse.  A refusal *)
(* is [error |-> code]; an answer has error "".                            *)
(***************************************************************************)
EXTENDS StreamAnalysis

Absent == -1
Malformed == -2

\* The first refusal that applies, and one refusal.
FirstRefusal(errors) ==
    LET bad == SelectSeq(errors, LAMBDA e : e # "")
    IN  IF bad = <<>> THEN "" ELSE Head(bad)
Refusal(condition, code) == IF condition THEN code ELSE ""
Arg(optional, default) == IF optional = <<>> THEN default ELSE optional[1]

\* The configuration, looked up by the stream's name.
get_config(args) ==
    CASE args.stream = "" -> "MISSING_FIELD"
      [] args.stream # "" /\ args.stored = "absent" -> "CONFIG_NOT_FOUND"
      [] args.stream # "" /\ args.stored = "broken" -> "CONFIG_STORE_ERROR"
      [] OTHER -> ""

cache_scope_error(args) ==
    FirstRefusal(<<
        Refusal(args.cache_scope \notin {"full", "range"}, "INVALID_ENUM"),
        Refusal(args.cache_scope = "range" /\ args.begin = Absent /\ args.end = Absent,
                "INVALID_ARGUMENT")>>)

parse_time_arg(t) == t # Malformed
default_line_limit == 32

\* The window and the limit.  The limits of the waveform stand in for a time
\* that is not given; a window that ends before it begins is not refused.
range_from_args(args, min, max) ==
    [ok |-> parse_time_arg(args.begin) /\ parse_time_arg(args.end),
     begin |-> IF args.begin = Absent THEN min ELSE args.begin,
     end |-> IF args.end = Absent THEN max ELSE args.end,
     limit |-> IF Arg(args.line_limit, default_line_limit) <= 0 THEN default_line_limit
               ELSE Arg(args.line_limit, default_line_limit)]

Options(args, range) ==
    [begin |-> range.begin, end |-> range.end, limit |-> range.limit, retain_limit |-> 0,
     query_kind |-> "", packet_index |-> Arg(args.packet_index, -1),
     channel_filter |-> args.channel, filter |-> FALSE, filter_value |-> "1",
     position |-> ""]

----------------------------------------------------------------------------
(* stream.query.                                                           *)

\* A filter: its position, the fields it names and whether their values
\* parse.  Packet streams need a position, other streams must not have one.
parse_stream_filter(f, cfg) ==
    LET available == (IF cfg.data THEN {"data"} ELSE {})
                     \cup (IF cfg.stable THEN {"stable"} ELSE {})
    IN  FirstRefusal(<<
          Refusal(stream_packet_enabled(cfg) /\ f.position \notin {"sop", "eop"},
                  "INVALID_ARGUMENT"),
          Refusal(~stream_packet_enabled(cfg) /\ f.position # "", "INVALID_ARGUMENT"),
          Refusal(f.fields = {}, "INVALID_ARGUMENT"),
          Refusal(~(f.fields \subseteq available), "INVALID_ARGUMENT"),
          Refusal(~f.parses, "VALUE_FORMAT_INVALID")>>)

FilterKinds(cfg) ==
    IF stream_packet_enabled(cfg)
    THEN {"summary", "first_packet", "last_packet", "packet_window"}
    ELSE {"summary", "first_transfer", "last_transfer", "transfer_window"}

filter_refusal(args, cfg) ==
    IF args.filter = <<>> THEN ""
    ELSE FirstRefusal(<<parse_stream_filter(args.filter[1], cfg),
                        Refusal(args.query \notin FilterKinds(cfg), "INVALID_ARGUMENT")>>)

\* The first limit elements of a result list.
rows_limited(rows, limit) == SubSeq(rows, 1, IF Len(rows) < limit THEN Len(rows) ELSE limit)
stalls_limited(stalls, limit) == rows_limited(stalls, limit)
packets_limited(packets, limit) == rows_limited(packets, limit)

transfer_total(a, filtered) ==
    IF filtered THEN a.matched_transfer_count ELSE a.transfer_count
\* Mutated: the total ignores the filter.
packet_total_unfiltered(a, filtered) == a.complete_packet_count + a.partial_packet_count

packet_total(a, filtered) ==
    IF filtered THEN a.matched_packet_count
    ELSE a.complete_packet_count + a.partial_packet_count

set_query_completeness(items, total, returned, truncated) ==
    [error |-> "", items |-> items, total |-> total, returned |-> returned,
     truncated |-> truncated]

\* One item of a list, as the answers for one transfer, stall or packet.
One(items, total) == set_query_completeness(items, total, Len(items), FALSE)
\* A list cut to the limit.
Cut(items, total) == set_query_completeness(items, total, Len(items), Len(items) < total)
FrontOf(q) == IF q = <<>> THEN <<>> ELSE <<q[1]>>
BackOf(q) == IF q = <<>> THEN <<>> ELSE <<Last(q)>>
Evidence(r) == IF r = <<>> THEN <<>> ELSE <<r>>

answer_transfers(a, opt, query) ==
    LET total == transfer_total(a, opt.filter)
    IN  CASE query = "first_transfer" -> One(Evidence(a.first_transfer), total)
          [] query = "last_transfer" -> One(Evidence(a.last_transfer), total)
          [] query = "transfer_window" -> Cut(rows_limited(a.transfers, opt.limit), total)

answer_stalls(a, opt, query) ==
    CASE query = "first_stall" -> One(FrontOf(a.stalls), Len(a.stalls))
      [] query = "last_stall" -> One(BackOf(a.stalls), Len(a.stalls))
      [] query = "stall_window" -> Cut(stalls_limited(a.stalls, opt.limit), Len(a.stalls))

\* first_packet and last_packet come from the matches of the filter, or from
\* the ends of the retained list.
answer_packets(a, opt, query) ==
    LET total == packet_total(a, opt.filter)
    IN  CASE query = "first_packet" ->
               One(IF opt.filter THEN Evidence(a.first_matched) ELSE FrontOf(a.packets), total)
          [] query = "last_packet" ->
               One(IF opt.filter THEN Evidence(a.last_matched) ELSE BackOf(a.packets), total)
          [] query = "packet_window" -> Cut(packets_limited(a.packets, opt.limit), total)

packet_at(a, packet_index) ==
    LET found == SelectSeq(a.packets, LAMBDA p : p.packet_index = packet_index)
    IN  IF packet_index < 0 THEN [error |-> "INVALID_ARGUMENT"]
        ELSE One(FrontOf(found), Len(FrontOf(found)))

stream_query_options(args, range) ==
    [Options(args, range) EXCEPT !.query_kind = args.query,
        !.filter = args.filter # <<>>,
        !.position = IF args.filter = <<>> THEN "" ELSE args.filter[1].position]

stream_query(raw, cfg, args, min, max) ==
    LET range == range_from_args(args, min, max)
        opt == stream_query_options(args, range)
        a == analyze_cached(raw, cfg, opt, args.cache_scope = "full", min, max)
        refusal == FirstRefusal(<<get_config(args), cache_scope_error(args),
                                  Refusal(~range.ok, "INVALID_TIME"),
                                  filter_refusal(args, cfg)>>)
    IN  IF refusal # "" THEN [error |-> refusal]
        ELSE IF a.error # "" THEN [error |-> "ACTION_FAILED"]
        ELSE IF args.query = "summary"
             THEN set_query_completeness(<<>>,
                    IF stream_packet_enabled(cfg) THEN packet_total(a, opt.filter)
                    ELSE transfer_total(a, opt.filter), 0, FALSE)
        ELSE IF args.query \in {"first_transfer", "last_transfer", "transfer_window"}
             THEN answer_transfers(a, opt, args.query)
        ELSE IF args.query \in {"first_stall", "last_stall", "stall_window"}
             THEN answer_stalls(a, opt, args.query)
        ELSE IF args.query \in {"first_packet", "last_packet", "packet_window"}
             THEN answer_packets(a, opt, args.query)
        ELSE IF args.query = "packet_at" THEN packet_at(a, opt.packet_index)
        ELSE [error |-> "INVALID_ENUM"]

----------------------------------------------------------------------------
(* stream.validate and stream.describe.                                    *)

\* The arguments that only a dynamic validation has.
static_only_arg(args) == \/ args.has_scope \/ args.begin # Absent \/ args.end # Absent
                         \/ args.line_limit # <<>> \/ args.channel # ""

dynamic_issues(a) ==
    (IF a.vld_cycles = 0 THEN {"VLD_NEVER_TRUE"} ELSE {})
    \cup (IF a.transfer_count = 0 THEN {"NO_TRANSFER"} ELSE {})
    \cup (IF a.ready_bp_conflict_count > 0 THEN {"READY_BP_CONFLICT"} ELSE {})
    \cup (IF a.packet_stable_mismatch_count > 0 THEN {"PACKET_STABLE_FIELD_MISMATCH"} ELSE {})

\* What the static check finds are errors, what the scan adds are warnings; a
\* configuration that is not sound is not scanned.
stream_validate(raw, cfg, args, min, max) ==
    LET static == validate_static(cfg)
        scan == static = {} /\ args.dynamic
        range == range_from_args(args, min, max)
        opt == [Options(args, range) EXCEPT !.limit = Arg(args.line_limit, 256),
                                            !.query_kind = "validate"]
        a == analyze_cached(raw, cfg, opt, args.cache_scope = "full", min, max)
        refusal == FirstRefusal(<<get_config(args),
                      Refusal(~args.dynamic /\ static_only_arg(args), "INVALID_ARGUMENT"),
                      cache_scope_error(args), Refusal(scan /\ ~range.ok, "INVALID_TIME")>>)
    IN  IF refusal # "" THEN [error |-> refusal]
        ELSE IF scan /\ a.error # "" THEN [error |-> "ACTION_FAILED"]
        ELSE [error |-> "", ok |-> static = {},
              issues |-> static \cup (IF scan THEN dynamic_issues(a) ELSE {}),
              analysis_complete |-> static = {}]

stream_describe(cfg, args) ==
    IF get_config(args) # "" THEN [error |-> get_config(args)]
    ELSE [error |-> "", packet_enabled |-> stream_packet_enabled(cfg),
          issues |-> validate_static(cfg),
          stall |-> IF ~cfg.rdy /\ ~cfg.bp THEN "none" ELSE "enabled"]

----------------------------------------------------------------------------
(* stream.export.  An export retains everything, so its limit is 0.        *)

row_count_for_kind(a, kind) ==
    CASE kind = "packet" -> Len(a.packets)
      [] kind = "packet_beats" -> a.transfer_count
      [] OTHER -> Len(a.transfers)

preview_for_kind(a, kind, line_limit) ==
    rows_limited(IF kind = "packet" THEN a.packets ELSE a.transfers,
                 IF line_limit > 0 THEN line_limit ELSE 16)

\* The rows of the three files.
export_transfer_file(a) == a.transfers
export_packet_file(a) == a.packets
export_packet_beats_file(a) ==
    FoldLeft(LAMBDA rows, p : rows \o p.beats, <<>>, a.packets)
export_rows(a, kind) ==
    CASE kind = "packet" -> export_packet_file(a)
      [] kind = "packet_beats" -> export_packet_beats_file(a)
      [] OTHER -> export_transfer_file(a)

\* The number of rows the meta file beside the data declares.
stream_meta_rows(a, kind) == IF kind = "packet" THEN Len(a.packets) ELSE Len(a.transfers)

output_refusal(args) ==
    FirstRefusal(<<
        Refusal(args.format # <<>> /\ args.format[1] \notin {"tsv", "csv", "xout"},
                "INVALID_ENUM"),
        Refusal(args.format # <<>> /\ args.path = "", "INVALID_REQUEST"),
        Refusal(args.path # "" /\ args.line_limit # <<>>, "INVALID_REQUEST")>>)

stream_export(raw, cfg, args, min, max) ==
    LET range == range_from_args(args, min, max)
        opt == [Options(args, range) EXCEPT !.limit = 0]
        a == analyze_cached(raw, cfg, opt, args.cache_scope = "full", min, max)
        count == row_count_for_kind(a, args.kind)
        preview == preview_for_kind(a, args.kind, Arg(args.line_limit, 16))
        refusal == FirstRefusal(<<get_config(args), cache_scope_error(args),
                                  Refusal(~range.ok, "INVALID_TIME")>>)
    IN  IF refusal # "" THEN [error |-> refusal]
        ELSE IF a.error # "" THEN [error |-> "ACTION_FAILED"]
        ELSE IF output_refusal(args) # "" THEN [error |-> output_refusal(args)]
        ELSE IF args.path = "" THEN Cut(preview, count)
        ELSE IF args.kind \notin {"transfer", "packet", "packet_beats"}
             THEN [error |-> "INVALID_ENUM"]
        ELSE set_query_completeness(export_rows(a, args.kind), count, count, FALSE)

----------------------------------------------------------------------------
(* What the actions promise.                                               *)

BaseArgs == [stream |-> "s", stored |-> "ok", cache_scope |-> "full", has_scope |-> FALSE,
             begin |-> Absent, end |-> Absent, line_limit |-> <<>>, channel |-> "",
             packet_index |-> <<>>, query |-> "summary", filter |-> <<>>, dynamic |-> TRUE,
             format |-> <<>>, path |-> "", kind |-> "transfer"]

\* The queries for one transfer, stall or packet return the ends of what the
\* window query lists, and a window reports truncated exactly when it dropped
\* something.  (Without a channel: with one, transfer_window counts the
\* transfers of every channel.)  Interleaved packets are retained in the order
\* of their ends, so that first_packet and last_packet need not be the ends
\* of the list by start.
QueriesConsistent(raw, cfg, args, min, max) ==
    LET ask(q, n) == stream_query(raw, cfg, [args EXCEPT !.query = q, !.line_limit = n],
                                  min, max)
        ends(w, f, l) == LET all == ask(w, <<>>) IN
            all.error = "" =>
                /\ ask(f, <<>>).items = FrontOf(all.items)
                /\ ask(l, <<>>).items = BackOf(all.items)
                /\ all.total = Len(all.items) /\ ~all.truncated
                /\ LET cut == ask(w, <<1>>) IN
                      /\ cut.items = FrontOf(all.items) /\ cut.total = all.total
                      /\ cut.truncated = (Len(all.items) > 1)
    IN  /\ ~cfg.packet \/ args.filter = <<>> =>
              ends("transfer_window", "first_transfer", "last_transfer")
        /\ args.filter = <<>> => ends("stall_window", "first_stall", "last_stall")
        /\ cfg.packet /\ ~cfg.interleaving =>
              ends("packet_window", "first_packet", "last_packet")

\* A file of transfers or packets has the rows that the answer and the file's
\* meta data declare, and a packet_beats file declares as many rows as it has
\* when every transfer of the window belongs to a packet.
ExportRowsDeclared(raw, cfg, args, min, max) ==
    \A kind \in {"transfer", "packet", "packet_beats"} :
        LET r == stream_export(raw, cfg, [args EXCEPT !.kind = kind, !.path = "f"], min, max)
            a == analyze_cached(raw, cfg, [Options(args, range_from_args(args, min, max))
                                             EXCEPT !.limit = 0], TRUE, min, max)
            beats == FoldLeft(LAMBDA n, p : n + Len(p.beats), 0, a.packets)
        IN  r.error = "" /\ (kind = "packet_beats" => beats = a.transfer_count) =>
                /\ r.total = Len(r.items) /\ r.returned = Len(r.items)
                /\ stream_meta_rows(a, kind) = Len(r.items)
\* stream.validate warns about what the queries show, whether the window is
\* cut from the cached base or scanned; the summary counts what the windows
\* list; a stream described as free of stalls has none; the preview of a
\* packet shows both its ends, and all of it unless it says so.
ReportsAgree(raw, cfg, args, min, max) ==
    LET ask(q) == stream_query(raw, cfg, [args EXCEPT !.query = q], min, max)
        full == stream_validate(raw, cfg, args, min, max)
        scanned == stream_validate(raw, cfg, [args EXCEPT !.cache_scope = "range", !.begin = min,
                                                          !.end = max], min, max)
        a == analyze_cached(raw, cfg, [Options(args, range_from_args(args, min, max))
                                         EXCEPT !.limit = 0], TRUE, min, max)
        sum == stream_summary_json(a, cfg)
    IN  full.error = "" =>
        /\ full = scanned /\ full.ok <=> stream_describe(cfg, args).issues = {}
        /\ "NO_TRANSFER" \in full.issues <=> ask("transfer_window").items = <<>>
        /\ sum.total = Len(ask("transfer_window").items)
        /\ sum.stall_windows = Len(ask("stall_window").items)
        /\ stream_describe(cfg, args).stall = "none" => sum.stall_cycles = 0
        /\ sum.packet_count_status = "exact" => sum.complete = Len(ask("packet_window").items)
        /\ \A i \in DOMAIN a.packets :
              LET b == a.packets[i].beats
                  v == beat_preview_json(b, 1)
              IN  /\ ~v.truncated => v.head \o v.tail = b
                  /\ v.truncated => Len(b) > 2 /\ v.head = FrontOf(b) /\ v.tail = BackOf(b)
=============================================================================
