--------------------------- MODULE SignalAnalysis ---------------------------
(***************************************************************************)
(* The analyses of single signals and of small groups of them: value       *)
(* changes, stability, X/Z checks, conditions over a window, statistics of *)
(* a signal and of a counter, sampled pulses, handshakes and anomalies     *)
(* (signal_analysis.cpp, signal_inspect.cpp).                              *)
(*                                                                         *)
(* A change row is [time, val], val a bit string; the waveform reader      *)
(* gives the value at the begin of a window as its first row.  A clock     *)
(* sample is [time, v], v the bits of every alias.                         *)
(***************************************************************************)
EXTENDS Integers, Sequences, FiniteSets, SequencesExt
LOCAL F == INSTANCE FourState

FirstError(errors) == LET bad == SelectSeq(errors, LAMBDA e : e # "")
                      IN  IF bad = <<>> THEN "" ELSE Head(bad)
Refuse(condition, error) == IF condition THEN error ELSE ""
Absent == -99
Limit(limit, default) == IF limit = Absent THEN default ELSE limit
Within(n, limit) == limit < 0 \/ n < limit
Cut(rows, limit) == IF limit >= 0 /\ Len(rows) > limit THEN SubSeq(rows, 1, limit) ELSE rows
Maximum(a, b) == IF a > b THEN a ELSE b

\* What every answer says about how much it has seen and how much it shows.
set_completeness(scan, analysis, truncated, total, returned) ==
    [scan_complete |-> scan, analysis_complete |-> analysis, response_truncated |-> truncated,
     total_count |-> total, returned_count |-> returned]
Failed(error) == [error |-> error]

----------------------------------------------------------------------------
(* Arguments.                                                              *)

clock_sample_from_args(args) ==
    FirstError(<<Refuse(args.legacy, "INVALID_REQUEST"),
                 Refuse(args.edge \notin {"posedge", "negedge", "dual"}, "INVALID_REQUEST"),
                 Refuse(args.sample_point \notin {"none", "before", "after"}, "INVALID_REQUEST")>>)

PathError(wave, path) ==
    IF path \notin DOMAIN wave THEN "SIGNAL_NOT_FOUND"
    ELSE IF wave[path].aggregate THEN "SIGNAL_NOT_LEAF" ELSE ""
build_signal_alias_handles(signals, wave) ==
    LET bad == {a \in DOMAIN signals : a = "" \/ signals[a] = ""
                                       \/ PathError(wave, signals[a]) # ""}
        a == CHOOSE a \in bad : TRUE
    IN  IF DOMAIN signals = {} THEN "INVALID_REQUEST"
        ELSE IF bad = {} THEN ""
        ELSE IF a = "" \/ signals[a] = "" THEN "INVALID_REQUEST" ELSE PathError(wave, signals[a])

\* The names an expression uses; a name with a dot is a signal path.
Names(toks) == Range(toks) \ (F!Reserved \cup F!LiteralTokens)
validate_expression_alias_contract(toks, dotted) ==
    Refuse(~F!parse(toks).ok \/ Names(toks) \cap dotted # {}, "INVALID_REQUEST")

\* The rows of a window; a budget cuts them, and says so.
read_signal_changes(wave, signal, max_changes) ==
    IF PathError(wave, signal) # ""
    THEN [error |-> PathError(wave, signal), rows |-> <<>>, truncated |-> FALSE]
    ELSE [error |-> "", rows |-> Cut(wave[signal].rows, max_changes),
          truncated |-> max_changes >= 0 /\ Len(wave[signal].rows) > max_changes]

\* A scan of the samples of a window.  The sample that exceeds the budget is
\* counted and ends the scan; an analysis may end it by setting stop.
ScanWith(raw, max_samples, init, Step(_, _)) ==
    LET one(acc, s) ==
            IF acc.stop THEN acc
            ELSE IF max_samples >= 0 /\ acc.samples + 1 > max_samples
            THEN [acc EXCEPT !.samples = @ + 1, !.truncated = TRUE, !.stop = TRUE]
            ELSE Step([acc EXCEPT !.samples = @ + 1], s)
    IN  FoldLeft(one, init, raw)

----------------------------------------------------------------------------
(* Raw value changes.                                                      *)

ai_signal_changes(wave, args) ==
    LET r == read_signal_changes(wave, args.signal, -1)
        timeline == args.mode = "timeline"
        shown == IF timeline THEN Cut(r.rows, Limit(args.line_limit, 1000)) ELSE r.rows
        error == FirstError(<<Refuse(args.signal = "", "INVALID_REQUEST"),
                              Refuse(args.mode \notin {"timeline", "summary"}, "INVALID_REQUEST"),
                              Refuse(~timeline /\ args.line_limit # Absent, "INVALID_REQUEST"),
                              r.error>>)
    IN  IF error # "" THEN Failed(error)
        ELSE [error |-> "", transitions |-> IF r.rows = <<>> THEN 0 ELSE Len(r.rows) - 1,
              changes |-> IF timeline THEN shown ELSE <<>>,
              summary |-> set_completeness(~r.truncated, ~r.truncated, Len(shown) < Len(r.rows),
                                           Len(r.rows), IF timeline THEN Len(shown) ELSE 0)]

\* The scan stops at the first row that differs from the first value.
ai_signal_stability(wave, args) ==
    LET error == FirstError(<<Refuse(args.signal = "", "INVALID_REQUEST"),
                              PathError(wave, args.signal)>>)
        rows == wave[args.signal].rows
        other == {i \in DOMAIN rows : rows[i].val # rows[1].val}
        seen == IF other = {} THEN rows
                ELSE SubSeq(rows, 1, CHOOSE i \in other : \A j \in other : i <= j)
    IN  IF error # "" THEN Failed(error)
        ELSE [error |-> "", stable |-> other = {}, changes |-> seen,
              transitions |-> IF other = {} THEN 0 ELSE 1,
              summary |-> set_completeness(other = {}, TRUE, FALSE, Len(seen), Len(seen))]

XzMatches(val, state, match_mode) ==
    IF match_mode = "exact" THEN \A i \in DOMAIN val : val[i] = state
    ELSE \E i \in DOMAIN val : val[i] = state
ai_signal_xz_verify(wave, args) ==
    LET error == FirstError(<<Refuse(args.signal = "", "INVALID_REQUEST"),
                              Refuse(args.expected_state \notin {"x", "z"}, "INVALID_REQUEST"),
                              Refuse(args.match_mode \notin {"exact", "contains"}, "INVALID_REQUEST"),
                              PathError(wave, args.signal)>>)
        rows == wave[args.signal].rows
        bad == {i \in DOMAIN rows : ~XzMatches(rows[i].val, args.expected_state, args.match_mode)}
        first == CHOOSE i \in bad : \A j \in bad : i <= j
        checked == IF bad = {} THEN Len(rows) ELSE first
    IN  IF error # "" THEN Failed(error)
        ELSE IF rows = <<>> THEN Failed("VALUE_NOT_AVAILABLE")
        ELSE [error |-> "", verdict |-> IF bad = {} THEN "pass" ELSE "fail",
              first_mismatch |-> IF bad = {} THEN <<>> ELSE rows[first],
              summary |-> set_completeness(bad = {}, TRUE, FALSE, checked, checked)]

----------------------------------------------------------------------------
(* Expressions at a point and over a window.                               *)

\* The three columns of a point: the sample before, at and after it.  A
\* missing neighbour is reported, a missing value at the point is an error.
ai_expr_eval_at(args, wave, dotted, point) ==
    LET error == FirstError(<<Refuse(args.toks = <<>>, "INVALID_REQUEST"),
                              validate_expression_alias_contract(args.toks, dotted),
                              clock_sample_from_args(args),
                              build_signal_alias_handles(args.signals, wave),
                              Refuse(point.middle = <<>>, "INVALID_REQUEST")>>)
        tri(values) == F!expression_evaluate_tri(args.toks, values)
        side(values) == IF values = <<>> THEN "missing_edge" ELSE tri(values)
    IN  IF error # "" THEN Failed(error)
        ELSE [error |-> "", status |-> tri(point.middle), before |-> side(point.before),
              after |-> side(point.after)]

window_condition_error(args, dotted) ==
    LET bad == {i \in DOMAIN args.conditions :
                   \/ args.conditions[i].toks = <<>>
                   \/ validate_expression_alias_contract(args.conditions[i].toks, dotted) # ""
                   \/ args.conditions[i].mode \notin {"always", "eventually", "never"}}
        used == UNION {Names(args.conditions[i].toks) : i \in DOMAIN args.conditions}
    IN  Refuse(bad # {} \/ used # DOMAIN args.signals, "INVALID_REQUEST")

\* One condition at one sample.  Only a condition that is not "eventually"
\* can decide the whole request here.
WindowStart(args) == [samples |-> 0, stop |-> FALSE, truncated |-> FALSE, decisive |-> FALSE,
                      findings |-> <<>>,
                      c |-> [i \in DOMAIN args.conditions |->
                                [pass |-> 0, fail |-> 0, unknown |-> 0]]]
window_condition(acc, i, s, args) ==
    LET mode == args.conditions[i].mode
        r == F!expression_evaluate_tri(args.conditions[i].toks, s.v)
        pass == r = IF mode = "never" THEN "False" ELSE "True"
        bad == r = "Unknown" \/ ~pass
        counted == [acc EXCEPT !.c[i].unknown = IF r = "Unknown" THEN @ + 1 ELSE @,
                               !.c[i].pass = IF r # "Unknown" /\ pass THEN @ + 1 ELSE @,
                               !.c[i].fail = IF r # "Unknown" /\ ~pass THEN @ + 1 ELSE @,
                               !.findings = IF bad THEN Append(@, <<s.time, i>>) ELSE @]
    IN  IF acc.stop THEN acc
        ELSE IF mode # "eventually" /\ bad
        THEN [counted EXCEPT !.decisive = TRUE, !.stop = TRUE] ELSE counted

\* The scan also ends once every "eventually" condition has been seen.
window_sample(acc, s, args) ==
    LET a == FoldLeft(LAMBDA x, i : window_condition(x, i, s, args), acc,
                      [i \in DOMAIN args.conditions |-> i])
        ev == {i \in DOMAIN args.conditions : args.conditions[i].mode = "eventually"}
    IN  IF ~a.stop /\ ev # {} /\ \A i \in ev : a.c[i].pass > 0
        THEN [a EXCEPT !.decisive = TRUE, !.stop = TRUE] ELSE a

window_args_error(args, wave, dotted) ==
    FirstError(<<clock_sample_from_args(args),
                 Refuse(args.clock = "" \/ args.conditions = <<>>, "INVALID_REQUEST"),
                 window_condition_error(args, dotted),
                 build_signal_alias_handles(args.signals, wave)>>)
ai_window_verify(raw, args, wave, dotted) ==
    LET error == window_args_error(args, wave, dotted)
        a == ScanWith(raw, args.max_samples, WindowStart(args),
                      LAMBDA acc, s : window_sample(acc, s, args))
        passed(i) == IF args.conditions[i].mode = "eventually" THEN a.c[i].pass > 0
                     ELSE a.c[i].fail = 0 /\ a.c[i].unknown = 0
        all == \A i \in DOMAIN args.conditions : passed(i)
        complete == a.decisive \/ ~a.truncated
        limit == Limit(args.line_limit, 100)
    IN  IF error # "" THEN Failed(error)
        ELSE [error |-> "",
              verdict |-> IF ~complete THEN "inconclusive" ELSE IF all THEN "pass" ELSE "fail",
              stop_reason |-> IF a.decisive THEN "decisive_result"
                              ELSE IF a.truncated THEN "max_samples" ELSE "window_end",
              findings |-> Cut(a.findings, limit),
              summary |-> set_completeness(~a.truncated, complete,
                                           limit >= 0 /\ Len(a.findings) > limit,
                                           Len(a.findings), Len(Cut(a.findings, limit)))]

----------------------------------------------------------------------------
(* Statistics.  A time of zero stands for "not yet" in the code.           *)

compare_bit_strings(l, r) ==
    LET n == Maximum(Len(l), Len(r))
        a == F!fit(l, n)
        b == F!fit(r, n)
        diff == {i \in 1 .. n : a[i] # b[i]}
    IN  IF diff = {} THEN 0
        ELSE LET i == CHOOSE i \in diff : \A j \in diff : i <= j
             IN  IF a[i] = "0" THEN -1 ELSE 1
Once(old, t) == IF old = 0 THEN t ELSE old

\* Without a clock: the rows of the signal in the requested format.  A row is
\* high when its digits contain a 1.
HighText(val, fmt) ==
    ~F!has_xz_bits(val)
    /\ IF fmt = "hex" THEN \E d \in Range(F!bits_to_hex(val)) : d \in {1}
       ELSE "1" \in Range(val)
raw_statistics(rows, fmt) ==
    LET step(acc, row) ==
            LET high == HighText(row.val, fmt) IN
            [acc EXCEPT !.bursts = IF high /\ ~acc.prev_high THEN @ + 1 ELSE @,
                        !.first_high = IF high THEN Once(@, row.time) ELSE @,
                        !.last_high = IF high THEN row.time ELSE @,
                        !.last_fall = IF ~high /\ acc.prev_high THEN row.time ELSE @,
                        !.prev_high = high]
    IN  FoldLeft(step, [bursts |-> 0, first_high |-> 0, last_high |-> 0, last_fall |-> 0,
                        prev_high |-> FALSE], rows)

\* With a clock: an unknown sample ends a burst; only a one-bit signal is high.
StatsStart == [samples |-> 0, stop |-> FALSE, truncated |-> FALSE, known |-> 0, unknown |-> 0,
               high_cycles |-> 0, low_cycles |-> 0, bursts |-> 0, current_high |-> 0,
               max_high |-> 0, transitions |-> 0, have_known |-> FALSE, prev_high |-> FALSE,
               min |-> <<>>, max |-> <<>>, first |-> <<>>, prev |-> <<>>, first_high |-> 0,
               last_high |-> 0, last_fall |-> 0, evidence |-> <<>>]
end_burst(a, t) == IF ~a.prev_high THEN a
                   ELSE [a EXCEPT !.max_high = Maximum(@, a.current_high), !.current_high = 0,
                                  !.last_fall = t, !.prev_high = FALSE]
track_high(a, t, high) ==
    IF ~high THEN end_burst(a, t)
    ELSE [a EXCEPT !.bursts = IF a.prev_high THEN @ ELSE @ + 1,
                   !.current_high = IF a.prev_high THEN @ + 1 ELSE 1,
                   !.first_high = IF a.prev_high THEN @ ELSE Once(@, t),
                   !.last_high = t, !.prev_high = TRUE]
track_value(a, t, bits) ==
    IF ~a.have_known
    THEN [a EXCEPT !.have_known = TRUE, !.first = bits, !.min = bits, !.max = bits, !.prev = bits]
    ELSE [a EXCEPT !.transitions = IF compare_bit_strings(bits, a.prev) # 0 THEN @ + 1 ELSE @,
                   !.evidence = IF compare_bit_strings(bits, a.prev) # 0
                                THEN Append(@, <<t, "value_change">>) ELSE @,
                   !.min = IF compare_bit_strings(bits, @) < 0 THEN bits ELSE @,
                   !.max = IF compare_bit_strings(bits, @) > 0 THEN bits ELSE @,
                   !.prev = bits]
statistics_sample(a, s) ==
    LET bits == s.v.sig
        nonzero == "1" \in Range(bits)
        high == nonzero /\ Len(bits) = 1
        k == [a EXCEPT !.known = @ + 1, !.low_cycles = IF nonzero THEN @ ELSE @ + 1,
                       !.high_cycles = IF high THEN @ + 1 ELSE @]
    IN  IF F!has_xz_bits(bits)
        THEN end_burst([a EXCEPT !.unknown = @ + 1,
                                 !.evidence = Append(@, <<s.time, "unknown">>)], s.time)
        ELSE track_value(track_high(k, s.time, high), s.time, bits)

statistics_args_error(args, wave) ==
    FirstError(<<clock_sample_from_args(args),
                 Refuse(args.signal = "", "INVALID_REQUEST"),
                 Refuse(args.clock = "" /\ args.has_edge, "INVALID_REQUEST"),
                 PathError(wave, args.signal)>>)
ai_signal_statistics(raw, wave, args) ==
    LET clocked == args.clock # ""
        r == read_signal_changes(wave, args.signal, -1)
        a == ScanWith(raw, args.max_samples, StatsStart, statistics_sample)
        limit == Limit(args.line_limit, 100)
        n == IF clocked THEN Len(a.evidence) ELSE Len(r.rows)
        complete == ~clocked \/ ~a.truncated
        error == statistics_args_error(args, wave)
    IN  IF error # "" THEN Failed(error)
        ELSE [error |-> "",
              stats |-> IF clocked
                        THEN [a EXCEPT !.max_high = IF a.prev_high THEN Maximum(@, a.current_high)
                                                    ELSE @]
                        ELSE raw_statistics(r.rows, args.fmt),
              summary |-> set_completeness(complete, complete, limit >= 0 /\ n > limit, n,
                                           IF Within(n, limit) THEN n ELSE limit)]

\* A counter is one signal or a concatenation of signals, at most 64 bits.
CounterBits == 64
parse_counter_concat(cnt) ==
    Refuse(cnt = <<>> \/ \E i \in DOMAIN cnt : cnt[i] = "", "INVALID_REQUEST")

\* The union of the signals of the valid condition and of the counter.  The
\* condition's signals are exactly the names it uses.
build_counter_inputs(args, dotted) ==
    FirstError(<<Refuse(args.vld_toks = <<>>, "INVALID_REQUEST"),
                 validate_expression_alias_contract(args.vld_toks, dotted),
                 Refuse(Names(args.vld_toks) # DOMAIN args.vld_signals, "INVALID_REQUEST"),
                 Refuse("" \in Range(args.vld_signals), "INVALID_REQUEST"),
                 parse_counter_concat(args.cnt)>>)
counter_bits_from_values(cnt, v) == FlattenSeq([i \in DOMAIN cnt |-> v[cnt[i]]])

CounterStart == [samples |-> 0, stop |-> FALSE, truncated |-> FALSE, error |-> "", valid |-> 0,
                 invalid |-> 0, unknown |-> 0, have |-> FALSE, min |-> 0, max |-> 0,
                 min_count |-> 0, max_count |-> 0, min_first |-> 0, max_first |-> 0, sum |-> 0,
                 previous |-> -1, evidence |-> <<>>]
counter_value(a, t, value) ==
    [a EXCEPT !.valid = @ + 1, !.sum = @ + value, !.have = TRUE, !.previous = value,
              !.evidence = IF value # a.previous THEN Append(@, <<t, value>>) ELSE @,
              !.min = IF ~a.have \/ value < @ THEN value ELSE @,
              !.max = IF ~a.have \/ value > @ THEN value ELSE @,
              !.min_count = IF ~a.have \/ value < a.min THEN 1
                            ELSE IF value = a.min THEN @ + 1 ELSE @,
              !.max_count = IF ~a.have \/ value > a.max THEN 1
                            ELSE IF value = a.max THEN @ + 1 ELSE @,
              !.min_first = IF ~a.have \/ value < a.min THEN t ELSE @,
              !.max_first = IF ~a.have \/ value > a.max THEN t ELSE @]
counter_sample(a, s, args) ==
    LET valid == F!expression_evaluate_tri(args.vld_toks, s.v)
        bits == counter_bits_from_values(args.cnt, s.v)
        blind(kind) == [a EXCEPT !.unknown = @ + 1, !.evidence = Append(@, <<s.time, kind>>)]
    IN  CASE valid = "False" -> [a EXCEPT !.invalid = @ + 1]
          [] valid = "Unknown" -> blind("unknown_valid")
          [] OTHER -> IF bits = <<>> \/ Len(bits) > CounterBits
                      THEN [a EXCEPT !.error = "INVALID_REQUEST", !.stop = TRUE]
                      ELSE IF F!has_xz_bits(bits) THEN blind("unknown_counter")
                      ELSE counter_value(a, s.time, F!ToNat(bits))
counter_args_error(args, wave, dotted) ==
    FirstError(<<clock_sample_from_args(args),
                 Refuse(args.clock = "" \/ ~args.has_range, "MISSING_FIELD"),
                 build_counter_inputs(args, dotted),
                 build_signal_alias_handles(args.vld_signals, wave)>>)
ai_counter_statistics(raw, args, wave, dotted) ==
    LET error == counter_args_error(args, wave, dotted)
        a == ScanWith(raw, args.max_samples, CounterStart,
                      LAMBDA acc, s : counter_sample(acc, s, args))
        limit == Limit(args.line_limit, 100)
    IN  IF error # "" \/ a.error # "" THEN Failed(FirstError(<<error, a.error>>))
        ELSE [error |-> "", stats |-> a,
              summary |-> set_completeness(~a.truncated, ~a.truncated,
                                           limit >= 0 /\ Len(a.evidence) > limit,
                                           Len(a.evidence), Len(Cut(a.evidence, limit)))]

----------------------------------------------------------------------------
(* Pulses that no clock edge sees.                                         *)

expr_truth_value(bits) == CASE F!has_xz_bits(bits) -> "Unknown"
                            [] OTHER -> IF "1" \in Range(bits) THEN "True" ELSE "False"

\* The first sample at or after a time, and the nearest one; indices into
\* the samples, one past the end and 0 when there is none.
lower_sample_edge(edges, t) == 1 + Cardinality({i \in DOMAIN edges : edges[i].time < t})
nearest_sample_edge(edges, t) ==
    LET next == lower_sample_edge(edges, t)
    IN  IF edges = <<>> THEN 0
        ELSE IF next <= 1 THEN 1
        ELSE IF next > Len(edges) THEN Len(edges)
        ELSE IF t - edges[next - 1].time <= edges[next].time - t THEN next - 1 ELSE next
valid_sampled_high_between(edges, lo, hi) ==
    \E i \in DOMAIN edges : /\ i >= lower_sample_edge(edges, lo) /\ edges[i].time < hi
                            /\ expr_truth_value(edges[i].v.valid) = "True"

\* The segments of a constant value: from the begin of the window to the
\* first row, from row to row, and from the last row to the end.
raw_segments(rows, initial, begin, end) ==
    LET at(i) == IF i = 0 THEN [time |-> begin, val |-> initial] ELSE rows[i]
    IN  [i \in 1 .. Len(rows) + 1 |->
            [lo |-> at(i - 1).time, val |-> at(i - 1).val,
             hi |-> IF i <= Len(rows) THEN rows[i].time ELSE end]]
unsampled_pulses(edges, rows, initial, begin, end) ==
    SelectSeq(raw_segments(rows, initial, begin, end),
              LAMBDA g : /\ expr_truth_value(g.val) = "True" /\ g.lo < g.hi
                         /\ ~valid_sampled_high_between(edges, g.lo, g.hi))
payload_risks(edges, rows) ==
    SelectSeq(rows, LAMBDA c :
        LET near == nearest_sample_edge(edges, c.time)
        IN  near = 0 \/ expr_truth_value(edges[near].v.valid) # "True")

pulse_args_error(args, wave) ==
    FirstError(<<clock_sample_from_args(args),
                 Refuse(args.clock = "" \/ args.valid = "", "INVALID_REQUEST"),
                 Refuse("" \in Range(args.payloads), "INVALID_REQUEST"),
                 PathError(wave, args.valid),
                 FirstError([p \in DOMAIN args.payloads |-> PathError(wave, args.payloads[p])]),
                 Refuse(args.rule \notin {"off", "summary", "all"}, "INVALID_REQUEST"),
                 Refuse(args.has_rule /\ args.payloads = <<>>, "INVALID_REQUEST")>>)
ai_signal_sampled_pulse_inspect(raw, args, wave) ==
    LET valid == read_signal_changes(wave, args.valid, -1)
        pulses == unsampled_pulses(raw, valid.rows, args.initial, args.begin, args.end)
        risky(p) == payload_risks(raw, read_signal_changes(wave, args.payloads[p], -1).rows)
        risks == IF args.rule = "off" THEN <<>>
                 ELSE FlattenSeq([p \in DOMAIN args.payloads |-> risky(p)])
        limit == Limit(args.line_limit, 100)
        listed == Len(pulses) + IF args.rule = "all" THEN Len(risks) ELSE 0
        high == SelectSeq(raw, LAMBDA s : expr_truth_value(s.v.valid) = "True")
        error == pulse_args_error(args, wave)
    IN  IF error # "" THEN Failed(error)
        ELSE [error |-> "", pulses |-> pulses, payload_risk_count |-> Len(risks),
              sampled_high_cycles |-> Len(high),
              summary |-> set_completeness(TRUE, TRUE, limit >= 0 /\ listed > limit,
                                           Len(pulses) + Len(risks),
                                           IF Within(listed, limit) THEN listed ELSE limit)]

----------------------------------------------------------------------------
(* A valid/ready handshake.                                                *)

HandshakeStart ==
    [samples |-> 0, stop |-> FALSE, truncated |-> FALSE, transfers |-> 0, stall_cycles |-> 0,
     max_stall |-> 0, ready_only |-> 0, data_violations |-> 0, hold_violations |-> 0,
     in_stall |-> FALSE, awaiting |-> FALSE, stall_data |-> <<>>, intervals |-> <<>>,
     in_ready_only |-> FALSE, interval_cycles |-> 0, findings |-> <<>>]

finding(a, kind, t) == [a EXCEPT !.findings = Append(@, <<kind, t>>)]

\* A valid that drops while it waits is a violation; a stall starts a wait.
hold_step(a, t, v, transfer, stall, args) ==
    LET dropped == a.awaiting /\ ~transfer /\ v # "True"
        b == IF dropped THEN [finding(a, "valid_dropped_before_handshake", t)
                                EXCEPT !.hold_violations = @ + 1]
             ELSE a
    IN  IF ~args.require_valid_hold THEN a
        ELSE [b EXCEPT !.awaiting = stall \/ (@ /\ ~transfer /\ ~dropped)]

finish_ready_only_interval(a) ==
    IF ~a.in_ready_only THEN a
    ELSE [a EXCEPT !.intervals = Append(@, a.interval_cycles), !.in_ready_only = FALSE,
                   !.interval_cycles = 0]
ready_step(a, t, ready_only, args) ==
    IF ~ready_only THEN finish_ready_only_interval(a)
    ELSE LET b == [a EXCEPT !.ready_only = @ + 1, !.in_ready_only = TRUE,
                            !.interval_cycles = @ + 1]
         IN  IF args.ready_reporting = "all" THEN finding(b, "ready_without_valid", t) ELSE b

\* Mutated: a stall of exactly the allowed length is reported.
close_stall_early(a, t, args) ==
    LET b == IF a.stall_cycles >= args.max_wait THEN finding(a, "long_stall", t) ELSE a
    IN  [b EXCEPT !.max_stall = Maximum(@, a.stall_cycles)]

close_stall(a, t, args) ==
    LET b == IF a.stall_cycles > args.max_wait THEN finding(a, "long_stall", t) ELSE a
    IN  [b EXCEPT !.max_stall = Maximum(@, a.stall_cycles)]
stall_step(a, t, data, stall, args) ==
    LET c == [a EXCEPT !.stall_cycles = @ + 1]
        changed == args.check_data /\ a.in_stall /\ data # a.stall_data
    IN  IF stall
        THEN IF ~a.in_stall THEN [c EXCEPT !.in_stall = TRUE, !.stall_data = data]
             ELSE IF changed
             THEN [finding(c, "data_changed_while_stalled", t) EXCEPT !.data_violations = @ + 1]
             ELSE c
        ELSE IF a.in_stall
        THEN [close_stall(a, t, args) EXCEPT !.in_stall = FALSE, !.stall_cycles = 0] ELSE a

handshake_sample(a, s, args) ==
    LET v == expr_truth_value(s.v.valid)
        r == expr_truth_value(s.v.ready)
        transfer == v = "True" /\ r = "True"
        stall == v = "True" /\ r = "False"
        b == [a EXCEPT !.transfers = IF transfer THEN @ + 1 ELSE @]
    IN  stall_step(ready_step(hold_step(b, s.time, v, transfer, stall, args),
                              s.time, r = "True" /\ v = "False", args),
                   s.time, s.v.data, stall, args)

handshake_args_error(args, wave) ==
    FirstError(<<clock_sample_from_args(args),
                 Refuse(args.clock = "" \/ args.valid = "" \/ args.ready = "", "INVALID_REQUEST"),
                 Refuse(args.has_data /\ args.data = "", "INVALID_REQUEST"),
                 PathError(wave, args.valid), PathError(wave, args.ready),
                 Refuse(args.ready_reporting \notin {"summary", "intervals", "all"},
                        "INVALID_REQUEST"),
                 Refuse(args.has_data # args.check_data, "INVALID_REQUEST")>>)
ai_protocol_handshake_inspect(raw, args, wave) ==
    LET error == handshake_args_error(args, wave)
        a == ScanWith(raw, -1, HandshakeStart, LAMBDA acc, s : handshake_sample(acc, s, args))
        z == finish_ready_only_interval(IF a.in_stall THEN close_stall(a, args.end, args) ELSE a)
        limit == Limit(args.line_limit, 100)
    IN  IF error # "" THEN Failed(error)
        ELSE [error |-> "", stats |-> z,
              summary |-> set_completeness(TRUE, TRUE, limit >= 0 /\ Len(z.findings) > limit,
                                           Len(z.findings), Len(Cut(z.findings, limit)))]

----------------------------------------------------------------------------
(* Anomalies of raw signals.                                               *)

\* Each check type at most once, with its own parameter only; without
\* checks, unknown values and stuck signals are looked for.
anomaly_check_error(checks) ==
    LET bad(c) == \/ c.type \notin {"unknown_xz", "glitch", "stuck"}
                  \/ c.extra
                  \/ c.type # "unknown_xz" /\ c.param = 0
    IN  Refuse(\/ \E i \in DOMAIN checks : bad(checks[i])
               \/ \E i, j \in DOMAIN checks : i # j /\ checks[i].type = checks[j].type,
               "INVALID_REQUEST")
DefaultStuck == 1000
Threshold(checks, type, default) ==
    LET on == {i \in DOMAIN checks : checks[i].type = type}
    IN  IF on = {} THEN default ELSE checks[CHOOSE i \in on : TRUE].param
signal_anomalies(rows, checks, end) ==
    LET has(type) == \/ \E i \in DOMAIN checks : checks[i].type = type
                     \/ checks = <<>> /\ type # "glitch"
        width(i) == (IF i < Len(rows) THEN rows[i + 1].time ELSE end) - rows[i].time
        is(type, i) == has(type) /\
            CASE type = "unknown_xz" -> F!has_xz_bits(rows[i].val)
              [] type = "glitch" -> /\ i < Len(rows) /\ width(i) > 0
                                    /\ width(i) < Threshold(checks, "glitch", 1)
              [] OTHER -> width(i) >= Threshold(checks, "stuck", DefaultStuck)
        of(i) == SelectSeq(<< <<"unknown_xz", i>>, <<"glitch", i>>, <<"stuck", i>> >>,
                           LAMBDA f : is(f[1], i))
    IN  FlattenSeq([i \in DOMAIN rows |-> of(i)])

\* A signal that is not found does not stop the others: the answer is
\* incomplete and says which signal failed.
ai_signal_anomaly_inspect(wave, args) ==
    LET entry_error(i) == IF args.signals[i] = "" THEN "INVALID_REQUEST"
                          ELSE IF PathError(wave, args.signals[i]) = "SIGNAL_NOT_LEAF"
                          THEN "SIGNAL_NOT_LEAF" ELSE ""
        error == FirstError(<<Refuse(args.signals = <<>>, "INVALID_REQUEST"),
                              anomaly_check_error(args.checks),
                              FirstError([i \in DOMAIN args.signals |-> entry_error(i)])>>)
        found(i) == PathError(wave, args.signals[i]) = ""
        per(i) == IF found(i) THEN signal_anomalies(wave[args.signals[i]].rows, args.checks, args.end)
                  ELSE <<>>
        all == FlattenSeq([i \in DOMAIN args.signals |-> per(i)])
        complete == \A i \in DOMAIN args.signals : found(i)
        limit == Limit(args.line_limit, 50)
    IN  IF error # "" THEN Failed(error)
        ELSE [error |-> "", findings |-> Cut(all, limit),
              status |-> [i \in DOMAIN args.signals |-> IF found(i) THEN "ok" ELSE "error"],
              summary |-> set_completeness(complete, complete, limit >= 0 /\ Len(all) > limit,
                                           Len(all), Len(Cut(all, limit)))]

----------------------------------------------------------------------------
(* What the analyses promise.                                              *)

\* The maximal runs of indices that satisfy P, as <<first, last>>.
Runs(n, P(_)) == {r \in (1 .. n) \X (1 .. n) :
                    /\ r[1] <= r[2] /\ \A i \in r[1] .. r[2] : P(i)
                    /\ r[1] = 1 \/ ~P(r[1] - 1)
                    /\ r[2] = n \/ ~P(r[2] + 1)}
Longest(runs) == IF runs = {} THEN 0
                 ELSE LET r == CHOOSE r \in runs : \A q \in runs : q[2] - q[1] <= r[2] - r[1]
                      IN  r[2] - r[1] + 1

\* A verdict is about the whole window: "pass" means every condition holds
\* over all its samples, "fail" that one does not; only a budget makes it
\* inconclusive.
WindowVerdictSound(raw, args, wave) ==
    LET e == ai_window_verify(raw, args, wave, {})
        tri(i, k) == F!expression_evaluate_tri(args.conditions[i].toks, raw[k].v)
        holds(i) == CASE args.conditions[i].mode = "always" ->
                            \A k \in DOMAIN raw : tri(i, k) = "True"
                      [] args.conditions[i].mode = "never" ->
                            \A k \in DOMAIN raw : tri(i, k) = "False"
                      [] OTHER -> \E k \in DOMAIN raw : tri(i, k) = "True"
        all == \A i \in DOMAIN args.conditions : holds(i)
    IN  e.error = "" =>
        /\ e.verdict = "pass" => all
        /\ e.verdict = "fail" => ~all
        /\ e.verdict = "inconclusive" => args.max_samples \in 0 .. Len(raw) - 1

\* The statistics of a signal: the bursts are the maximal runs of high
\* samples, the extremes are taken over the known samples.
StatisticsExact(raw, args, wave) ==
    LET e == ai_signal_statistics(raw, wave, args)
        a == e.stats
        known == {i \in DOMAIN raw : ~F!has_xz_bits(raw[i].v.sig)}
        value(i) == F!ToNat(raw[i].v.sig)
        runs == Runs(Len(raw), LAMBDA i : raw[i].v.sig = <<"1">>)
    IN  e.error = "" /\ args.clock # "" /\ args.max_samples < 0 =>
        /\ a.known = Cardinality(known) /\ a.known + a.unknown = Len(raw)
        /\ a.bursts = Cardinality(runs) /\ a.max_high = Longest(runs)
        /\ known # {} => /\ F!ToNat(a.min) \in {value(i) : i \in known}
                         /\ F!ToNat(a.max) \in {value(i) : i \in known}
                         /\ \A i \in known : F!ToNat(a.min) <= value(i)
                                             /\ value(i) <= F!ToNat(a.max)
        /\ e.summary.response_truncated <=> e.summary.returned_count < e.summary.total_count

\* The statistics of a counter are those of its values at the samples that
\* are certainly valid; every sample is accounted for.
CounterExact(raw, args, wave) ==
    LET e == ai_counter_statistics(raw, args, wave, {})
        a == e.stats
        bits(i) == counter_bits_from_values(args.cnt, raw[i].v)
        used == {i \in DOMAIN raw :
                   /\ F!expression_evaluate_tri(args.vld_toks, raw[i].v) = "True"
                   /\ ~F!has_xz_bits(bits(i))}
        at(v) == {i \in used : F!ToNat(bits(i)) = v}
        first(S) == raw[CHOOSE i \in S : \A j \in S : i <= j].time
    IN  e.error = "" /\ args.max_samples < 0 =>
        /\ a.valid = Cardinality(used) /\ a.valid + a.invalid + a.unknown = Len(raw)
        /\ used # {} =>
              /\ \A i \in used : a.min <= F!ToNat(bits(i)) /\ F!ToNat(bits(i)) <= a.max
              /\ a.min_count = Cardinality(at(a.min)) /\ a.min_first = first(at(a.min))
              /\ a.max_count = Cardinality(at(a.max)) /\ a.max_first = first(at(a.max))

\* A wait begins with a stall and is broken by the first sample at which
\* valid is not high before a transfer; the longest stall is the longest run
\* of stalled samples, the last one included.
HandshakeExact(raw, args, wave) ==
    LET e == ai_protocol_handshake_inspect(raw, args, wave)
        a == e.stats
        v(i) == expr_truth_value(raw[i].v.valid)
        r(i) == expr_truth_value(raw[i].v.ready)
        stall(i) == v(i) = "True" /\ r(i) = "False"
        transfer(i) == v(i) = "True" /\ r(i) = "True"
        dropped(i) == v(i) # "True" /\ \E j \in 1 .. i - 1 :
                         stall(j) /\ \A k \in j + 1 .. i - 1 : v(k) = "True" /\ ~transfer(k)
        stalls == Runs(Len(raw), stall)
        alone == Runs(Len(raw), LAMBDA i : r(i) = "True" /\ v(i) = "False")
        long == {q \in stalls : q[2] - q[1] + 1 > args.max_wait}
        count(kind) == Len(SelectSeq(a.findings, LAMBDA f : f[1] = kind))
    IN  e.error = "" =>
        /\ a.max_stall = Longest(stalls) /\ count("long_stall") = Cardinality(long)
        /\ Len(a.intervals) = Cardinality(alone)
        /\ args.require_valid_hold =>
              a.hold_violations = Cardinality({i \in DOMAIN raw : dropped(i)})
        /\ args.check_data => a.data_violations =
              Cardinality({i \in DOMAIN raw : \E q \in stalls :
                             /\ q[1] <= i /\ i <= q[2]
                             /\ raw[i].v.data # raw[q[1]].v.data})
\* The value changes of a window: a cut timeline is a prefix and says so, the
\* early stop of signal.stability and of signal.xz_verify decides like the
\* whole list, unknown values are found by every action that looks for them,
\* and a signal that is stable is stuck for the whole window.
ChangesAgree(wave, args) ==
    LET s == args.signal
        all == ai_signal_changes(wave, [args EXCEPT !.line_limit = -1])
        cut == ai_signal_changes(wave, [args EXCEPT !.line_limit = 1])
        stable == ai_signal_stability(wave, args)
        xz(state, m) == ai_signal_xz_verify(wave, [args EXCEPT !.expected_state = state,
                                                               !.match_mode = m])
        look(signals, type, n) ==
            ai_signal_anomaly_inspect(wave, [args EXCEPT !.signals = signals, !.line_limit = -1,
                !.checks = <<[type |-> type, param |-> n, extra |-> FALSE]>>])
        unknown == look(<<s>>, "unknown_xz", 0)
        rows == all.changes
        window == args.end - rows[1].time
    IN  rows # <<>> =>
        /\ IsPrefix(cut.changes, rows) /\ IsPrefix(stable.changes, rows)
        /\ cut.summary.response_truncated <=> Len(cut.changes) < Len(rows)
        /\ stable.stable <=> all.transitions = 0
        /\ stable.stable <=> look(<<s>>, "stuck", window).findings # <<>>
        /\ \A state \in {"x", "z"} :
              /\ xz(state, "exact").verdict = "pass" => /\ xz(state, "contains").verdict = "pass"
                                                        /\ stable.stable
              /\ xz(state, "contains").verdict = "pass" => Len(unknown.findings) = Len(rows)
              /\ xz(state, "contains").verdict = "fail" => IsPrefix(
                    SubSeq(rows, 1, xz(state, "contains").summary.total_count - 1)
                       \o <<xz(state, "contains").first_mismatch>>, rows)
        /\ look(<<"missing", s>>, "unknown_xz", 0).findings = unknown.findings
        /\ ~look(<<"missing", s>>, "unknown_xz", 0).summary.analysis_complete

\* signal.sampled_pulse_inspect reports the pulses of the raw signal that no
\* sample edge falls into; raw holds the edges, values the raw value at every
\* instant from the begin of the window.
PulsesExact(raw, values, args, wave) ==
    LET e == ai_signal_sampled_pulse_inspect(raw, args, wave)
        high == Runs(Len(values), LAMBDA i : values[i] = <<"1">>)
        missed == {r \in high : \A k \in DOMAIN raw : raw[k].time \notin r[1] .. r[2]}
    IN  e.error = "" => /\ {<<g.lo, g.hi - 1>> : g \in Range(e.pulses)} = missed
                        /\ Len(e.pulses) = Cardinality(missed)

\* expr.eval_at shows the samples around a point as window.verify sees them.
PointsAgree(raw, args, wave) ==
    LET at(k) == IF k \in DOMAIN raw THEN raw[k].v ELSE <<>>
        point(k) == ai_expr_eval_at(args, wave, {}, [before |-> at(k - 1), middle |-> at(k),
                                                     after |-> at(k + 1)])
        verdict(m) == ai_window_verify(raw, [args EXCEPT !.conditions =
                          <<[mode |-> m, toks |-> args.toks]>>], wave, {}).verdict
        statuses == {point(k).status : k \in DOMAIN raw}
    IN  point(1).error = "" =>
        /\ \A k \in 2 .. Len(raw) : /\ point(k).before = point(k - 1).status
                                    /\ point(k - 1).after = point(k).status
        /\ verdict("always") = "pass" <=> statuses \subseteq {"True"}
        /\ verdict("never") = "pass" <=> statuses \subseteq {"False"}
        /\ verdict("eventually") = "pass" <=> "True" \in statuses
=============================================================================
