--------------------------- MODULE StreamAnalysis ---------------------------
(***************************************************************************)
(* Transfers, stalls and packets of a valid/ready stream                   *)
(* (stream_analyzer.cpp).                                                  *)
(*                                                                         *)
(* A raw sample gives every role the value "0", "1" or "x"; roles that the *)
(* configuration leaves out are ignored.  The data of a sample is one beat *)
(* field, one packet-stable field and a channel.  build_base turns the     *)
(* samples of a range into the base that is cached; materialize answers a  *)
(* query over a window of a base.                                          *)
(***************************************************************************)
EXTENDS Integers, Sequences, FiniteSets, SequencesExt

\* No channel, and the key of the only packet state without interleaving.
NoChannel == ""
Single == "single"

truthy(v, unknown_default) == IF v = "x" THEN unknown_default ELSE v = "1"
stream_packet_enabled(cfg) == cfg.packet

----------------------------------------------------------------------------
(* The configuration checks of validate_static: what is reported.          *)

validate_static(cfg) ==
    {i \in {"MISSING_DATA", "PACKET_PAIR", "CHANNEL_VALID_REQUIRES_PACKET",
            "CHANNEL_VALID_REQUIRES_CHANNEL", "INTERLEAVING_REQUIRES_PACKET",
            "INTERLEAVING_REQUIRES_CHANNEL",
            "INTERLEAVING_REQUIRES_EVERY_BEAT_CHANNEL"} :
        CASE i = "MISSING_DATA" -> ~cfg.data /\ ~cfg.stable
          [] i = "PACKET_PAIR" -> cfg.sop # cfg.eop
          [] i = "CHANNEL_VALID_REQUIRES_PACKET" ->
                cfg.valid \in {"sop", "eop"} /\ ~cfg.packet
          [] i = "CHANNEL_VALID_REQUIRES_CHANNEL" ->
                cfg.valid \in {"sop", "eop"} /\ ~cfg.channel
          [] i = "INTERLEAVING_REQUIRES_PACKET" -> cfg.interleaving /\ ~cfg.packet
          [] i = "INTERLEAVING_REQUIRES_CHANNEL" -> cfg.interleaving /\ ~cfg.channel
          [] OTHER -> cfg.interleaving /\ cfg.valid # "every_beat"}

----------------------------------------------------------------------------
(* One sample.                                                             *)

Xz(v) == IF v = "x" THEN 1 ELSE 0

\* An unknown vld, rdy, sop or eop is low, an unknown bp is high.  A transfer
\* needs vld and every configured flow control outside reset; a stall is a
\* vld that the flow control holds back, also in reset.
sample_metadata(s, cfg) ==
    LET on(role, v, absent) == IF role THEN v ELSE absent
        reset == on(cfg.reset, s.reset # "0", FALSE)
        vld == truthy(s.vld, FALSE)
        rdy == on(cfg.rdy, truthy(s.rdy, FALSE), TRUE)
        bp == on(cfg.bp, truthy(s.bp, TRUE), FALSE)
    IN  [time |-> s.time, reset |-> reset, vld |-> vld, rdy |-> rdy, bp |-> bp,
         sop |-> on(cfg.packet, truthy(s.sop, FALSE), FALSE),
         eop |-> on(cfg.packet, truthy(s.eop, FALSE), FALSE),
         transfer |-> vld /\ rdy /\ ~bp /\ ~reset,
         stall |-> vld /\ (~rdy \/ bp),
         stall_reason |-> CASE ~rdy /\ bp -> "rdy_low_and_bp_high"
                            [] ~rdy /\ ~bp -> "rdy_low"
                            [] rdy /\ bp -> "bp_high"
                            [] OTHER -> "",
         control_xz_count |-> Xz(s.vld) + on(cfg.reset, Xz(s.reset), 0)
             + on(cfg.rdy, Xz(s.rdy), 0) + on(cfg.bp, Xz(s.bp), 0)
             + on(cfg.packet, Xz(s.sop) + Xz(s.eop), 0),
         data_xz_count |-> on(cfg.data, Xz(s.data), 0) + on(cfg.stable, Xz(s.stable), 0)]

\* The values a transfer carries.
beat_values(s, cfg) ==
    [data |-> s.data, stable |-> IF cfg.stable THEN s.stable ELSE "",
     channel |-> IF cfg.channel THEN s.chan ELSE NoChannel]

\* Which packet a transfer belongs to, or why it belongs to none.
packet_key(cfg, channel) == IF cfg.interleaving THEN channel ELSE Single
packet_error(cfg, open, channel) ==
    CASE cfg.interleaving /\ channel \in {NoChannel, "x"} -> "channel_unknown"
      [] ~cfg.interleaving /\ cfg.valid = "every_beat" /\ Single \in DOMAIN open
         /\ open[Single].channel # NoChannel /\ open[Single].channel # channel ->
            "channel_changed"
      [] OTHER -> ""

Put(open, key, p) == [k \in DOMAIN open \cup {key} |-> IF k = key THEN p ELSE open[k]]
Drop(open, key) == [k \in DOMAIN open \ {key} |-> open[k]]

----------------------------------------------------------------------------
(* The base.  open: the packets under construction by their key.           *)

EmptyBase == [samples |-> <<>>, transfers |-> <<>>, packets |-> <<>>,
              open |-> <<>>, error |-> ""]

\* Mutated: a finished packet stays open.
base_finish_open(b, key, partial_end) ==
    IF key \notin DOMAIN b.open THEN b
    ELSE [b EXCEPT !.packets[b.open[key].index].partial_end = partial_end]

\* open[key] holds the packet's index in packets, its first stable value and
\* its channel so far.
base_finish(b, key, partial_end) ==
    IF key \notin DOMAIN b.open THEN b
    ELSE [b EXCEPT !.packets[b.open[key].index].partial_end = partial_end,
                   !.open = Drop(@, key)]
base_start(b, key, v, cfg, partial_begin) ==
    LET f == base_finish(b, key, TRUE)
        channel == IF cfg.valid \in {"sop", "every_beat"} THEN v.channel ELSE NoChannel
    IN  [f EXCEPT !.open = Put(@, key, [index |-> Len(f.packets) + 1,
                                        stable |-> v.stable, channel |-> channel]),
                  !.packets = Append(@, [ordinals |-> <<>>, channel |-> channel,
                                         partial_begin |-> partial_begin,
                                         partial_end |-> FALSE, mismatches |-> <<>>])]
base_append(b, key, m, v, cfg) ==
    LET i == b.open[key].index
        channel == IF \/ cfg.valid = "eop" /\ m.eop
                      \/ cfg.valid = "every_beat" /\ b.packets[i].channel = NoChannel
                   THEN v.channel ELSE b.packets[i].channel
    IN  [b EXCEPT !.packets[i].ordinals = Append(@, Len(b.transfers)),
                  !.packets[i].channel = channel, !.open[key].channel = channel,
                  !.packets[i].mismatches =
                      IF v.stable # b.open[key].stable
                      THEN Append(@, Len(b.transfers)) ELSE @]

\* A start ends a packet that is still open; an end without a start begins a
\* partial packet; beats outside any packet are dropped.
base_transfer(b, m, v, cfg) ==
    LET key == packet_key(cfg, v.channel)
        error == packet_error(cfg, b.open, v.channel)
        s == CASE m.sop -> base_start(b, key, v, cfg, FALSE)
               [] ~m.sop /\ key \notin DOMAIN b.open /\ m.eop ->
                     base_start(b, key, v, cfg, TRUE)
               [] OTHER -> b
        a == IF key \in DOMAIN s.open THEN base_append(s, key, m, v, cfg) ELSE s
    IN  CASE ~stream_packet_enabled(cfg) -> b
          [] stream_packet_enabled(cfg) /\ error # "" -> [b EXCEPT !.error = error]
          [] OTHER -> IF m.eop THEN base_finish(a, key, FALSE) ELSE a

base_sample(b, raw, cfg) ==
    LET m == sample_metadata(raw, cfg)
        v == beat_values(raw, cfg)
        t == IF m.transfer
             THEN base_transfer([b EXCEPT !.transfers = Append(@, v)], m, v, cfg)
             ELSE b
    IN  IF b.error # "" THEN b
        ELSE IF t.error # "" THEN t
        ELSE [t EXCEPT !.samples = Append(@, m @@
                  [ordinal |-> IF m.transfer THEN Len(t.transfers) ELSE 0])]

build_base(raw, cfg, begin, end) ==
    LET b == FoldLeft(LAMBDA acc, s : base_sample(acc, s, cfg), EmptyBase,
                      SelectSeq(raw, LAMBDA s : s.time >= begin /\ s.time <= end))
    IN  FoldLeft(LAMBDA acc, k : base_finish(acc, k, TRUE), b,
                 SetToSeq(DOMAIN b.open))

----------------------------------------------------------------------------
(* The view: a query over a window of a base.                              *)

\* The options: begin, end, limit, retain_limit, query_kind, packet_index, a
\* channel filter ("" for none) and a filter on the data field.
retain_limit(opt) == IF opt.retain_limit = 0 THEN opt.limit ELSE opt.retain_limit
HasRoom(q, opt) == retain_limit(opt) <= 0 \/ Len(q) < retain_limit(opt)

match_filter_fields(v, opt) ==
    CASE v.data = "x" -> "Unresolved"
      [] v.data # "x" /\ v.data = opt.filter_value -> "Yes"
      [] OTHER -> "No"

transfer_row(base, m, cycle) ==
    [cycle |-> cycle, time |-> m.time, sop |-> m.sop, eop |-> m.eop,
     v |-> base.transfers[m.ordinal]]

EmptyAnalysis ==
    [error |-> "", clock_edges |-> 0, vld_cycles |-> 0, stall_cycles |-> 0,
     transfer_count |-> 0, control_xz_count |-> 0, data_xz_count |-> 0,
     ready_bp_conflict_count |-> 0, in_stall |-> FALSE, stall |-> <<>>,
     stalls |-> <<>>, open |-> <<>>, next_packet_index |-> 0, packets |-> <<>>,
     complete_packet_count |-> 0, partial_packet_count |-> 0,
     packet_stable_mismatch_count |-> 0, unresolved_filter_count |-> 0,
     matched_packet_count |-> 0, first_matched |-> <<>>, last_matched |-> <<>>,
     matched_transfer_count |-> 0, transfers |-> <<>>,
     first_transfer |-> <<>>, last_transfer |-> <<>>, response_truncated |-> FALSE]

finish_stall(a, end_time) ==
    IF ~a.in_stall THEN a
    ELSE [a EXCEPT !.in_stall = FALSE,
                   !.stalls = Append(@, [a.stall EXCEPT !.end_time = end_time,
                                                        !.end_cycle = a.clock_edges])]

\* A finished packet is counted; whether it is retained depends on the filter
\* and, without one, on the kind of the query.
packet_match(p, opt) ==
    CASE opt.channel_filter # "" /\ p.channel # opt.channel_filter -> "No"
      [] ~(opt.channel_filter # "" /\ p.channel # opt.channel_filter)
         /\ \/ opt.position = "sop" /\ p.partial_begin
            \/ opt.position = "eop" /\ p.partial_end -> "Unresolved"
      [] OTHER -> match_filter_fields(IF opt.position = "sop" THEN Head(p.beats).v
                                      ELSE Last(p.beats).v, opt)
retain_packet(a, p, opt) ==
    CASE opt.filter /\ HasRoom(a.packets, opt) -> [a EXCEPT !.packets = Append(@, p)]
      [] opt.filter /\ ~HasRoom(a.packets, opt) -> [a EXCEPT !.response_truncated = TRUE]
      [] ~opt.filter /\ \/ opt.query_kind = ""
                        \/ opt.query_kind \in {"first_packet", "last_packet"}
                           /\ a.packets = <<>>
                        \/ opt.query_kind = "packet_at"
                           /\ p.packet_index = opt.packet_index
                        \/ opt.query_kind = "packet_window" /\ HasRoom(a.packets, opt) ->
            [a EXCEPT !.packets = Append(@, p)]
      [] ~opt.filter /\ opt.query_kind = "last_packet" /\ a.packets # <<>> ->
            [a EXCEPT !.packets[1] = p]
      [] OTHER -> a
finish_packet(a, key, partial_end, opt) ==
    IF key \notin DOMAIN a.open THEN a
    ELSE LET p == [a.open[key] EXCEPT !.partial_end = partial_end]
             partial == p.partial_begin \/ partial_end
             result == IF opt.filter THEN packet_match(p, opt) ELSE "Yes"
             c == [a EXCEPT !.open = Drop(@, key),
                     !.packet_stable_mismatch_count = @ + Len(p.mismatches),
                     !.partial_packet_count = IF partial THEN @ + 1 ELSE @,
                     !.complete_packet_count = IF partial THEN @ ELSE @ + 1,
                     !.unresolved_filter_count =
                         IF opt.filter /\ result = "Unresolved" THEN @ + 1 ELSE @]
             m == IF opt.filter /\ result = "Yes"
                  THEN [c EXCEPT !.matched_packet_count = @ + 1, !.last_matched = p,
                                 !.first_matched = IF @ = <<>> THEN p ELSE @]
                  ELSE c
         IN  IF result = "Yes" THEN retain_packet(m, p, opt) ELSE m

start_packet(a, key, row, cfg, partial_begin, opt) ==
    LET f == finish_packet(a, key, TRUE, opt)
    IN  [f EXCEPT !.next_packet_index = @ + 1,
            !.open = Put(@, key,
                [packet_index |-> f.next_packet_index, start_time |-> row.time,
                 end_time |-> row.time, partial_begin |-> partial_begin,
                 partial_end |-> FALSE, stable |-> row.v.stable,
                 channel |-> IF cfg.valid \in {"sop", "every_beat"} THEN row.v.channel
                             ELSE NoChannel,
                 beats |-> <<>>, mismatches |-> <<>>])]
append_packet_beat(a, key, row, cfg) ==
    LET p == a.open[key]
    IN  [a EXCEPT !.open[key].end_time = row.time,
            !.open[key].beats = Append(@, row),
            !.open[key].channel =
                IF \/ cfg.valid = "eop" /\ row.eop
                   \/ cfg.valid = "every_beat" /\ p.channel = NoChannel
                THEN row.v.channel ELSE @,
            !.open[key].mismatches =
                IF row.v.stable # p.stable THEN Append(@, row.time) ELSE @]

view_packet(a, row, cfg, opt) ==
    LET key == packet_key(cfg, row.v.channel)
        error == packet_error(cfg, a.open, row.v.channel)
        s == CASE row.sop -> start_packet(a, key, row, cfg, FALSE, opt)
               [] ~row.sop /\ key \notin DOMAIN a.open /\ row.eop ->
                     start_packet(a, key, row, cfg, TRUE, opt)
               [] OTHER -> a
        b == IF key \in DOMAIN s.open THEN append_packet_beat(s, key, row, cfg) ELSE s
    IN  IF error # "" THEN [a EXCEPT !.error = error]
        ELSE IF row.eop THEN finish_packet(b, key, FALSE, opt) ELSE b

\* A transfer: its packet, then the transfer's own selection.
view_transfer(a, row, cfg, opt) ==
    LET p == IF stream_packet_enabled(cfg) THEN view_packet(a, row, cfg, opt) ELSE a
        channel_ok == opt.channel_filter = "" \/ row.v.channel = opt.channel_filter
        plain == opt.filter /\ ~stream_packet_enabled(cfg)
        result == IF channel_ok THEN match_filter_fields(row.v, opt) ELSE "No"
        selected == IF plain THEN result = "Yes" ELSE channel_ok
        c == [p EXCEPT !.transfer_count = @ + 1,
                       !.unresolved_filter_count =
                           IF plain /\ result = "Unresolved" THEN @ + 1 ELSE @,
                       !.matched_transfer_count =
                           IF plain /\ selected THEN @ + 1 ELSE @]
    IN  CASE p.error # "" -> p
          [] p.error = "" /\ selected /\ ~(opt.filter /\ stream_packet_enabled(cfg)) ->
                [c EXCEPT !.first_transfer = IF @ = <<>> THEN row ELSE @,
                          !.last_transfer = row,
                          !.transfers = IF HasRoom(@, opt) THEN Append(@, row) ELSE @,
                          !.response_truncated = @ \/ ~HasRoom(c.transfers, opt)]
          [] OTHER -> c

view_sample(a, m, row, cfg, opt) ==
    LET s == IF m.stall
             THEN IF a.in_stall THEN [a EXCEPT !.stall.cycles = @ + 1]
                  ELSE [a EXCEPT !.in_stall = TRUE,
                          !.stall = [start_time |-> m.time, start_cycle |-> a.clock_edges,
                                     end_time |-> m.time, end_cycle |-> a.clock_edges,
                                     cycles |-> 1, reason |-> m.stall_reason]]
             ELSE finish_stall(a, m.time)
        c == [s EXCEPT !.clock_edges = @ + 1,
                       !.vld_cycles = IF m.vld THEN @ + 1 ELSE @,
                       !.stall_cycles = IF m.stall THEN @ + 1 ELSE @,
                       !.ready_bp_conflict_count =
                           IF m.vld /\ m.rdy /\ m.bp /\ cfg.rdy /\ cfg.bp THEN @ + 1 ELSE @,
                       !.control_xz_count = @ + m.control_xz_count,
                       !.data_xz_count = @ + m.data_xz_count]
    IN  CASE a.error # "" -> a
          [] a.error = "" /\ m.transfer -> view_transfer(c, row, cfg, opt)
          [] OTHER -> c

\* The end of the window closes the stall and every open packet; packets are
\* listed by their start.
view_finish(a, last_time, opt) ==
    LET s == finish_stall(a, last_time)
        f == FoldLeft(LAMBDA acc, k : finish_packet(acc, k, TRUE, opt), s,
                      SetToSortSeq(DOMAIN s.open, LAMBDA x, y : x = "0" /\ y # "0"))
    IN  [f EXCEPT !.packets = SortSeq(@, LAMBDA p, q :
            \/ p.start_time < q.start_time
            \/ p.start_time = q.start_time /\ p.packet_index < q.packet_index)]

materialize(base, cfg, opt) ==
    LET window == SelectSeq(base.samples, LAMBDA m : m.time >= opt.begin /\ m.time <= opt.end)
        step(acc, m) == view_sample(acc, m,
                           IF m.transfer THEN transfer_row(base, m, acc.clock_edges) ELSE <<>>,
                           cfg, opt)
        a == FoldLeft(step, EmptyAnalysis, window)
    IN  IF a.error # "" THEN [EmptyAnalysis EXCEPT !.error = a.error]
        ELSE view_finish(a, IF window = <<>> THEN opt.end ELSE Last(window).time, opt)

----------------------------------------------------------------------------
(* The ways to answer a query.                                             *)

\* Scan the window and look at all of it.
analyze(raw, cfg, opt) ==
    LET b == build_base(raw, cfg, opt.begin, opt.end)
    IN  IF b.error # "" THEN [EmptyAnalysis EXCEPT !.error = b.error]
        ELSE materialize(b, cfg, opt)

\* With the repository: the base of the whole waveform, or of the window.
analyze_cached(raw, cfg, opt, full, minimum, maximum) ==
    LET b == IF full THEN build_base(raw, cfg, minimum, maximum)
             ELSE build_base(raw, cfg, opt.begin, opt.end)
    IN  IF b.error # "" THEN [EmptyAnalysis EXCEPT !.error = b.error]
        ELSE materialize(b, cfg, opt)

\* The reference of the differential tests: one pass over the raw samples of
\* the window; every retained packet is kept whatever the kind of the query.
legacy_sample(acc, s, cfg, opt) ==
    LET m == sample_metadata(s, cfg)
    IN  view_sample(acc, m, [cycle |-> acc.clock_edges, time |-> s.time,
                             sop |-> m.sop, eop |-> m.eop, v |-> beat_values(s, cfg)],
                    cfg, opt)
analyze_legacy(raw, cfg, opt0) ==
    LET opt == [opt0 EXCEPT !.query_kind = ""]
        window == SelectSeq(raw, LAMBDA s : s.time >= opt.begin /\ s.time <= opt.end)
        a == FoldLeft(LAMBDA acc, s : legacy_sample(acc, s, cfg, opt), EmptyAnalysis, window)
    IN  IF a.error # "" THEN [EmptyAnalysis EXCEPT !.error = a.error]
        ELSE view_finish(a, IF window = <<>> THEN opt.end ELSE Last(window).time, opt)

----------------------------------------------------------------------------
(* What a query reports.                                                   *)

\* Packet counts are exact only when no packet is cut; the transfers that a
\* limit dropped are reported as truncated.
stream_summary_json(a, cfg) ==
    [packet_count_status |->
        CASE ~stream_packet_enabled(cfg) -> "not_configured"
          [] stream_packet_enabled(cfg) /\ a.partial_packet_count > 0 -> "ambiguous"
          [] OTHER -> "exact",
     clock_edges |-> a.clock_edges, vld_cycles |-> a.vld_cycles,
     transfer_count |-> a.transfer_count, stall_cycles |-> a.stall_cycles,
     stall_windows |-> Len(a.stalls), complete |-> a.complete_packet_count,
     partial |-> a.partial_packet_count, total |-> a.transfer_count,
     returned |-> Len(a.transfers), truncated |-> a.response_truncated]

\* The first and the last five beats of a packet (here: Shown of each).
beat_preview_json(beats, Shown) ==
    LET n == Len(beats)
        head == SubSeq(beats, 1, IF n < Shown THEN n ELSE Shown)
        tail == IF n <= Shown THEN <<>>
                ELSE SubSeq(beats, IF n > 2 * Shown THEN n - Shown + 1 ELSE Shown + 1, n)
    IN  [head |-> head, tail |-> tail, truncated |-> n > 2 * Shown]

----------------------------------------------------------------------------
(* What the analysis promises.                                             *)

\* A query gives the same answer whether its window is cut out of the cached
\* base of the whole waveform or scanned on its own, and the same answer as
\* the one-pass reference.
WindowsAgree(raw, cfg, opt, last) ==
    LET full == build_base(raw, cfg, 0, last) IN
    \A b \in 1 .. last : \A e \in b .. last :
        LET o == [opt EXCEPT !.begin = b, !.end = e] IN
        /\ full.error = "" =>
              analyze_cached(raw, cfg, o, TRUE, 0, last) = analyze(raw, cfg, o)
        /\ analyze_cached(raw, cfg, o, FALSE, 0, last) = analyze(raw, cfg, o)
        /\ opt.query_kind = "" => analyze_legacy(raw, cfg, o) = analyze(raw, cfg, o)

\* The packets of a view are those of the base.  A complete packet is a start,
\* beats and an end of one channel with nothing of that channel in between;
\* the queries for one packet return what the list of all packets has there.
PacketsSound(raw, cfg, opt, last) ==
    LET base == build_base(raw, cfg, 0, last)
        all == materialize(base, cfg, opt)
        ask(kind, k) == materialize(base, cfg,
                          [opt EXCEPT !.query_kind = kind, !.packet_index = k]).packets
    IN  base.error = "" =>
        /\ Len(all.packets) = Len(base.packets)
        /\ \A i \in DOMAIN all.packets :
              LET p == all.packets[i]
                  q == base.packets[i]
                  mid == 2 .. Len(p.beats) - 1 IN
              /\ p.packet_index = i - 1 /\ p.channel = q.channel
              /\ p.partial_begin = q.partial_begin /\ p.partial_end = q.partial_end
              /\ Len(p.beats) = Len(q.ordinals) /\ Len(p.mismatches) = Len(q.mismatches)
              /\ Head(p.beats).sop = ~p.partial_begin
              /\ Last(p.beats).eop = ~p.partial_end
              /\ \A k \in mid : ~p.beats[k].sop /\ ~p.beats[k].eop
              /\ \A j \in q.ordinals[1] .. Last(q.ordinals) :
                    j \in ToSet(q.ordinals)
                    \/ (cfg.interleaving /\ base.transfers[j].channel # p.channel)
              /\ ask("packet_at", p.packet_index) = <<p>>
        /\ ~cfg.interleaving /\ all.packets # <<>> =>
              /\ ask("first_packet", 0) = <<Head(all.packets)>>
              /\ ask("last_packet", 0) = <<Last(all.packets)>>
        /\ all.complete_packet_count + all.partial_packet_count = Len(all.packets)

\* The stall windows are the maximal runs of stalled samples, and account for
\* every stalled cycle.
StallsExact(raw, cfg, opt) ==
    LET a == analyze(raw, cfg, opt)
        stalled(i) == sample_metadata(raw[i], cfg).stall
        runs == {r \in (DOMAIN raw) \X (DOMAIN raw) :
                   /\ r[1] <= r[2] /\ \A i \in r[1] .. r[2] : stalled(i)
                   /\ r[1] = 1 \/ ~stalled(r[1] - 1)
                   /\ r[2] = Len(raw) \/ ~stalled(r[2] + 1)}
    IN  a.error = "" =>
        {<<a.stalls[i].start_cycle + 1, a.stalls[i].cycles>> : i \in DOMAIN a.stalls}
          = {<<r[1], r[2] - r[1] + 1>> : r \in runs}

\* With a filter every packet or transfer is matched, refused or reported as
\* undecided, and what a limit drops is reported as truncated.
FilterAccounts(raw, cfg, opt) ==
    LET a == analyze(raw, cfg, [opt EXCEPT !.filter = TRUE])
        few == analyze(raw, cfg, [opt EXCEPT !.filter = TRUE, !.limit = 1])
    IN  a.error = "" =>
        /\ IF cfg.packet
           THEN /\ a.matched_packet_count = Len(a.packets)
                /\ few.response_truncated = (a.matched_packet_count > 1)
                /\ few.matched_packet_count = a.matched_packet_count
           ELSE /\ a.matched_transfer_count = Len(a.transfers)
                /\ a.matched_transfer_count + a.unresolved_filter_count <= a.transfer_count
                /\ few.response_truncated = (a.matched_transfer_count > 1)
                /\ few.last_transfer = a.last_transfer
        /\ a.matched_packet_count > 0 =>
              few.last_matched = a.last_matched /\ few.packets = SubSeq(few.packets, 1, 1)
=============================================================================
