--------------------------- MODULE ProtocolQueries ---------------------------
(***************************************************************************)
(* The questions asked of a finished AXI analysis (axi_analyzer.cpp,       *)
(* axi_exporter.cpp, query_actions.cpp) and the AXI and APB actions that   *)
(* ask them (engine/service/actions/protocol).                             *)
(*                                                                         *)
(* A transaction is a record: seq, is_write, id and addr (four-state bits), *)
(* addr_time, resp_time and beats, the times of its data handshakes.       *)
(* Positions count from 1; 0 in a lookup by number is what the code        *)
(* refuses.  Output is abstracted to the transactions it is made from.     *)
(***************************************************************************)
EXTENDS Integers, Sequences, FiniteSets, SequencesExt, FiniteSetsExt
F == INSTANCE FourState
A == INSTANCE ApbAnalysis

NoTxn == [seq |-> 0]
FirstError(errors) == LET bad == SelectSeq(errors, LAMBDA e : e # "")
                      IN  IF bad = <<>> THEN "" ELSE Head(bad)
Refuse(condition, error) == IF condition THEN error ELSE ""
set_completeness(complete, truncated, total, returned) ==
    [scan_complete |-> complete, analysis_complete |-> complete,
     response_truncated |-> truncated, total_count |-> total, returned_count |-> returned]
Within(t, begin, end) == t >= begin /\ t <= end
AtMost(q, limit) == IF limit >= 0 /\ Len(q) > limit THEN SubSeq(q, 1, limit) ELSE q

----------------------------------------------------------------------------
(* The result of an analysis and its lazy indexes.                         *)

txn_addr_less(l, r) == IF l.addr_time # r.addr_time THEN l.addr_time < r.addr_time
                       ELSE l.seq < r.seq
transaction_latency(t) ==
    IF t.resp_time >= t.addr_time THEN t.resp_time - t.addr_time ELSE 0

\* The lists a query reads: each direction and both in address order, the
\* positions of the latter in response order, and the open transactions.
finish(done, pending, samples, complete) ==
    LET sorted(q) == SortSeq(q, txn_addr_less)
        all == sorted(done)
    IN  [writes |-> sorted(SelectSeq(done, LAMBDA t : t.is_write)),
         reads |-> sorted(SelectSeq(done, LAMBDA t : ~t.is_write)), all |-> all,
         all_by_resp_time |-> SortSeq([i \in DOMAIN all |-> i],
                                      LAMBDA i, j : all[i].resp_time < all[j].resp_time),
         pending_writes |-> SelectSeq(pending, LAMBDA t : t.is_write),
         pending_reads |-> SelectSeq(pending, LAMBDA t : ~t.is_write),
         outstanding_samples |-> samples, analysis_complete |-> complete]

\* The value of the hex digits before the first unknown one, if there is any.
parse_hex_value(bits) == A!parse_hex_value(F!bits_to_hex(bits))
\* An id filter is an optional number.
AnyId == -1
id_matches(id, want) ==
    want = AnyId \/ (parse_hex_value(id).ok /\ parse_hex_value(id).val = want)

list_of(result, filter) == A!list_of(result, filter)

\* Positions per value of the address or of the id, for each direction; a
\* transaction whose text does not start with a known digit is left out.
numeric_index(result, kind) ==
    LET value(t) == parse_hex_value(IF kind = "id" THEN t.id ELSE t.addr)
        positions(list, v) == SelectSeq([i \in DOMAIN list |-> i],
                                        LAMBDA i : value(list[i]).ok /\ value(list[i]).val = v)
        values == {value(result.all[i]).val : i \in {j \in DOMAIN result.all :
                                                       value(result.all[j]).ok}}
    IN  [v \in values |-> [write |-> positions(result.writes, v),
                           read |-> positions(result.reads, v)]]
Bucket(index, v, dir) == IF v \in DOMAIN index THEN index[v][dir] ELSE <<>>
Pick(list, positions, num) ==
    IF num \in DOMAIN positions THEN list[positions[num]] ELSE NoTxn

\* The lookups by address, with an optional id, and by number or last.
get_by_addr_num(result, dir, addr, id, num) ==
    LET list == list_of(result, dir)
        bucket == Bucket(numeric_index(result, "address"), addr, dir)
    IN  Pick(list, SelectSeq(bucket, LAMBDA p : id_matches(list[p].id, id)), num)
get_by_addr(result, dir, addr, id) == get_by_addr_num(result, dir, addr, id, 1)
get_by_addr_last(result, dir, addr, id) ==
    LET list == list_of(result, dir)
        bucket == Bucket(numeric_index(result, "address"), addr, dir)
        mine == SelectSeq(bucket, LAMBDA p : id_matches(list[p].id, id))
    IN  Pick(list, mine, Len(mine))
get_by_num(result, dir, num) ==
    IF num \in DOMAIN list_of(result, dir) THEN list_of(result, dir)[num] ELSE NoTxn
get_last(result, dir) == get_by_num(result, dir, Len(list_of(result, dir)))
get_by_id_num(result, dir, id, num) ==
    Pick(list_of(result, dir), Bucket(numeric_index(result, "id"), id, dir), num)
get_by_id_last(result, dir, id) ==
    LET bucket == Bucket(numeric_index(result, "id"), id, dir)
    IN  Pick(list_of(result, dir), bucket, Len(bucket))

\* The cursor of a name and direction; the two protocols' are the same.
cursor_begin(result, filter, gen, c) == A!cursor_begin(result, filter, gen, c)
cursor_next(result, filter, gen, c) == A!cursor_next(result, filter, gen, c)
cursor_prev(result, filter, gen, c) == A!cursor_prev(result, filter, gen, c)
cursor_last(result, filter, gen, c) == A!cursor_last(result, filter, gen, c)
cursor_state(result, filter, c) == A!cursor_state(result, filter, c)

\* The handshakes of one channel in time order, each with its transaction
\* and its beat number (0 for an address or a write response).
handshake_index(result, channel) ==
    LET list == list_of(result, IF channel \in {"aw", "w", "b"} THEN "write" ELSE "read")
        entries(i) ==
            CASE channel \in {"aw", "ar"} ->
                    <<[time |-> list[i].addr_time, txn |-> list[i], beat |-> 0]>>
              [] channel = "b" -> <<[time |-> list[i].resp_time, txn |-> list[i], beat |-> 0]>>
              [] OTHER -> [k \in DOMAIN list[i].beats |->
                              [time |-> list[i].beats[k], txn |-> list[i], beat |-> k]]
        before(l, r) == IF l.time # r.time THEN l.time < r.time
                        ELSE IF l.txn.seq # r.txn.seq THEN l.txn.seq < r.txn.seq
                        ELSE l.beat < r.beat
    IN  SortSeq(FlattenSeq([i \in DOMAIN list |-> entries(i)]), before)

NoMatch == [time |-> 0, txn |-> NoTxn, beat |-> 0]
\* The first entry at or after a time, if it is at that time.
get_by_handshake(result, channel, time) ==
    LET index == handshake_index(result, channel)
        late == {i \in DOMAIN index : index[i].time >= time}
    IN  IF channel \notin {"aw", "w", "b", "ar", "r"} \/ late = {} THEN NoMatch
        ELSE IF index[Min(late)].time # time THEN NoMatch ELSE index[Min(late)]

----------------------------------------------------------------------------
(* Statistics.                                                             *)

\* Nearest-rank percentile of a sorted sequence.
percentile(sorted, p) ==
    LET rank == ((p * Len(sorted)) + 99) \div 100
    IN  sorted[IF rank = 0 THEN 1 ELSE rank]

Empty == [samples |-> 0]
\* Writes are visited before reads, so the first extreme one is kept.
get_latency_stats(result, filter, id) ==
    LET visited == SelectSeq((IF filter = "read" THEN <<>> ELSE result.writes)
                             \o (IF filter = "write" THEN <<>> ELSE result.reads),
                             LAMBDA t : id_matches(t.id, id))
        lat == [i \in DOMAIN visited |-> visited[i].resp_time - visited[i].addr_time]
        sorted == SortSeq(lat, LAMBDA a, b : a < b)
        first(v) == visited[Min({i \in DOMAIN lat : lat[i] = v})]
    IN  IF visited = <<>> THEN Empty
        ELSE [samples |-> Len(lat), min |-> Head(sorted), max |-> Last(sorted),
              total |-> FoldLeft(LAMBDA a, x : a + x, 0, lat),
              max_txn |-> first(Last(sorted)), min_txn |-> first(Head(sorted)),
              p50 |-> percentile(sorted, 50), p95 |-> percentile(sorted, 95),
              p99 |-> percentile(sorted, 99)]

\* An outstanding sample: time, and the open writes and reads, by id.
Visible(s, filter) == (IF filter = "read" THEN 0 ELSE s.write)
                      + (IF filter = "write" THEN 0 ELSE s.read)
get_outstanding_stats(result, filter) ==
    LET q == result.outstanding_samples
        v == [i \in DOMAIN q |-> Visible(q[i], filter)]
    IN  IF q = <<>> THEN Empty
        ELSE [samples |-> Len(v), min |-> Min(ToSet(v)), max |-> Max(ToSet(v)),
              total |-> FoldLeft(LAMBDA a, x : a + x, 0, v)]

----------------------------------------------------------------------------
(* Ranges.                                                                 *)

\* Address matches first, then responses, each transaction once; the limit
\* cuts before the list is sorted by match time.
get_transactions_in_range(result, begin, end, max_results) ==
    LET item(t, time) == [txn |-> t, match_time |-> time]
        byaddr == SelectSeq(result.all, LAMBDA t : Within(t.addr_time, begin, end))
        byresp == SelectSeq([i \in DOMAIN result.all |->
                                 result.all[result.all_by_resp_time[i]]],
                            LAMBDA t : /\ Within(t.resp_time, begin, end)
                                       /\ ~Within(t.addr_time, begin, end))
        hits == [i \in DOMAIN byaddr |-> item(byaddr[i], byaddr[i].addr_time)]
                \o [i \in DOMAIN byresp |-> item(byresp[i], byresp[i].resp_time)]
    IN  SortSeq(AtMost(hits, max_results), LAMBDA a, b : a.match_time < b.match_time)

latency_rank_better(l, r) ==
    IF transaction_latency(l) # transaction_latency(r)
    THEN transaction_latency(l) > transaction_latency(r) ELSE l.seq < r.seq

\* A bounded queue: a transaction enters while there is room, and afterwards
\* only if it is better than the worst retained one, which leaves.
retain_forgetting(kept, t, limit) ==
    IF limit = 0 THEN kept
    ELSE IF Cardinality(kept) < limit THEN kept \cup {t} ELSE kept
retain(kept, t, limit) ==
    LET worst == CHOOSE w \in kept : \A k \in kept : k = w \/ latency_rank_better(k, w)
    IN  IF limit = 0 THEN kept
        ELSE IF Cardinality(kept) < limit THEN kept \cup {t}
        ELSE IF latency_rank_better(t, worst) THEN (kept \ {worst}) \cup {t} ELSE kept

DirectionKept(t, filter) == ~((filter = "write" /\ ~t.is_write)
                              \/ (filter = "read" /\ t.is_write))
select_axi_latency_outliers(q, begin, end, filter, threshold_mode, threshold, top_n, limit) ==
    LET candidates == SelectSeq(q, LAMBDA t : /\ DirectionKept(t, filter)
                                              /\ \/ Within(t.addr_time, begin, end)
                                                 \/ Within(t.resp_time, begin, end))
        over == SelectSeq(candidates,
                          LAMBDA t : threshold_mode => transaction_latency(t) > threshold)
        kept == FoldLeft(LAMBDA acc, t : retain(acc, t, limit), {}, over)
    IN  [candidate_count |-> Len(candidates),
         matched_outlier_count |-> IF threshold_mode THEN Len(over)
                                   ELSE Min({top_n, Len(candidates)}),
         transactions |-> SetToSortSeq(kept, latency_rank_better)]

\* How many to keep: the response limit, and the N of the ranking.
get_latency_outliers_in_range(result, begin, end, filter, threshold_mode, threshold, top_n, max_results) ==
    LET limit == IF max_results < 0 THEN Len(result.all) + top_n ELSE max_results
        s == select_axi_latency_outliers(result.all, begin, end, filter, threshold_mode,
                 threshold, top_n, IF threshold_mode THEN limit ELSE Min({top_n, limit}))
    IN  [s EXCEPT !.transactions = [i \in DOMAIN s.transactions |->
            LET t == s.transactions[i] IN
            [txn |-> t, match_time |-> IF Within(t.addr_time, begin, end)
                                       THEN t.addr_time ELSE t.resp_time]]]

get_outstanding_samples_in_range(result, begin, end, max_results) ==
    AtMost(SelectSeq(result.outstanding_samples, LAMBDA s : Within(s.time, begin, end)),
           max_results)

\* Peaks with the time they were first reached, the first sample with open
\* transactions, and the samples at which a visible count changes.
summarize_outstanding_in_range(result, begin, end, filter, limit) ==
    LET q == get_outstanding_samples_in_range(result, begin, end, -1)
        seen(i) == <<IF filter = "write" THEN 0 ELSE q[i].read,
                     IF filter = "read" THEN 0 ELSE q[i].write>>
        changes == SelectSeq([i \in DOMAIN q |-> i],
                             LAMBDA i : i = 1 \/ seen(i) # seen(i - 1))
        peak(v) == Max(ToSet(v) \cup {0})
        first(v) == IF peak(v) = 0 THEN 0 ELSE q[Min({i \in DOMAIN v : v[i] = peak(v)})].time
        r == [i \in DOMAIN q |-> q[i].read]
        w == [i \in DOMAIN q |-> q[i].write]
        busy == {i \in DOMAIN q : r[i] > 0 \/ w[i] > 0}
    IN  [sample_count |-> Len(q), peak_read |-> peak(r), peak_write |-> peak(w),
         peak_read_time |-> first(r), peak_write_time |-> first(w),
         first_nonzero_time |-> IF busy = {} THEN 0 ELSE q[Min(busy)].time,
         final |-> IF q = <<>> THEN <<>> ELSE <<Last(r), Last(w)>>,
         change_point_count |-> Len(changes),
         change_points |-> AtMost([i \in DOMAIN changes |-> q[changes[i]]], limit)]

----------------------------------------------------------------------------
(* The actions.  args.stored is the outcome of reading the configuration,  *)
(* args.analyzed that of the analysis; an answer is an error or a record   *)
(* whose error is "".                                                      *)

Answer(rows, summary) == [error |-> "", rows |-> rows, summary |-> summary]
Failed(error) == [error |-> error, rows |-> <<>>,
                  summary |-> set_completeness(FALSE, FALSE, 0, 0)]

ensure_analyzed(args) ==
    FirstError(<<Refuse(args.stored = "NotFound", "CONFIG_NOT_FOUND"),
                 Refuse(args.stored # "Ok", "CONFIG_STORE_ERROR"),
                 Refuse(args.analyzed = "cache_error", "ANALYSIS_CACHE_ERROR"),
                 Refuse(args.analyzed # "Ok", "ANALYZE_FAILED")>>)
time_range_error(args) ==
    FirstError(<<Refuse(args.begin < 0 \/ args.end < 0, "INVALID_TIME"),
                 Refuse(args.begin > args.end, "INVALID_TIME")>>)

\* What both window actions do with the transactions of a range.
WindowRows(hits, complete, args) ==
    LET rows == SelectSeq(hits, LAMBDA h : DirectionKept(h.txn, args.direction))
        shown == AtMost(rows, args.line_limit)
    IN  Answer(shown, set_completeness(complete, Len(shown) < Len(rows),
                                       Len(rows), Len(shown)))
WindowError(args) == FirstError(<<Refuse(args.name = "", "INVALID_REQUEST"),
                                  time_range_error(args), ensure_analyzed(args)>>)
ai_apb_transfer_window(result, complete, args) ==
    LET q == A!get_transactions_in_range(result, args.begin, args.end, -1)
    IN  IF WindowError(args) # "" THEN Failed(WindowError(args))
        ELSE WindowRows([i \in DOMAIN q |-> [txn |-> q[i], match_time |-> q[i].time]],
                        complete, args)
ai_axi_transactions_window(result, args) ==
    IF WindowError(args) # "" THEN Failed(WindowError(args))
    ELSE WindowRows(get_transactions_in_range(result, args.begin, args.end, -1),
                    result.analysis_complete, args)

ai_axi_latency_outlier(result, args) ==
    LET by_threshold == args.method = "threshold"
        error == FirstError(<<WindowError(args),
                     Refuse(by_threshold /\ args.threshold < 0, "INVALID_REQUEST")>>)
        o == get_latency_outliers_in_range(result, args.begin, args.end, args.direction,
                 by_threshold, args.threshold, args.top_n, args.line_limit)
    IN  IF error # "" THEN Failed(error)
        ELSE Answer(o.transactions,
                    set_completeness(result.analysis_complete,
                        Len(o.transactions) < o.matched_outlier_count,
                        o.matched_outlier_count, Len(o.transactions)))

\* Each change point with the difference to the one before it.
ai_axi_outstanding_timeline(result, args) ==
    LET s == summarize_outstanding_in_range(result, args.begin, args.end, args.direction,
                                            args.line_limit)
        p == s.change_points
        delta(i, now, before) == IF i = 1 THEN now ELSE now - before
        row(i) == [time |-> p[i].time, read |-> p[i].read, write |-> p[i].write,
                   read_delta |-> delta(i, p[i].read, p[IF i = 1 THEN 1 ELSE i - 1].read),
                   write_delta |-> delta(i, p[i].write, p[IF i = 1 THEN 1 ELSE i - 1].write)]
    IN  IF WindowError(args) # "" THEN Failed(WindowError(args))
        ELSE Answer([i \in DOMAIN p |-> row(i)],
                    set_completeness(result.analysis_complete,
                        s.change_point_count > Len(p), s.change_point_count, Len(p)))

\* A stall is a run of samples with valid and without ready that a transfer
\* ends; a sample that is neither neither ends nor lengthens it.
StallStep(a, s, max_wait) ==
    CASE s.valid = "1" /\ s.ready = "1" ->
            [a EXCEPT !.transfers = @ + 1, !.stall = 0, !.max_stall = Max({@, a.stall}),
                      !.findings = IF a.stall > max_wait
                                   THEN Append(@, [begin |-> a.begin, end |-> s.time,
                                                   cycles |-> a.stall, open |-> FALSE])
                                   ELSE @]
      [] s.valid = "1" /\ s.ready = "0" ->
            [a EXCEPT !.stall = @ + 1, !.begin = IF a.stall = 0 THEN s.time ELSE @]
      [] s.valid = "0" /\ s.ready = "1" -> [a EXCEPT !.ready_only = @ + 1]
      [] OTHER -> a
ai_axi_channel_stall(samples, args) ==
    LET error == FirstError(<<Refuse(args.name = "", "INVALID_REQUEST"),
                     Refuse(args.stored # "Ok", "CONFIG_STORE_ERROR"), time_range_error(args),
                     Refuse(args.channel \notin {"aw", "w", "b", "ar", "r"}, "INVALID_REQUEST")>>)
        q == SelectSeq(samples, LAMBDA s : Within(s.time, args.begin, args.end))
        a == FoldLeft(LAMBDA acc, s : StallStep(acc, s, args.max_wait),
                      [transfers |-> 0, ready_only |-> 0, stall |-> 0, max_stall |-> 0,
                       begin |-> 0, findings |-> <<>>], q)
        last == IF a.stall > args.max_wait
                THEN <<[begin |-> a.begin, end |-> args.end, cycles |-> a.stall, open |-> TRUE]>>
                ELSE <<>>
        all == a.findings \o last
        shown == AtMost(all, args.line_limit)
    IN  IF error # "" THEN Failed(error)
        ELSE [transfers |-> a.transfers, ready_only |-> a.ready_only,
              max_stall |-> Max({a.max_stall, a.stall})]
             @@ Answer(shown, set_completeness(TRUE, Len(shown) < Len(all), Len(all), Len(shown)))

\* Filters: an optional condition on the address and on the id.
NoFilter == [mode |-> "none"]
parse_protocol_query_filter(address, id, allow_id) ==
    FirstError(<<Refuse(address # NoFilter /\ ~F!parse_value_filter(address), "INVALID_ARG"),
                 Refuse(id # NoFilter /\ ~allow_id, "INVALID_ARG"),
                 Refuse(id # NoFilter /\ ~F!parse_value_filter(id), "INVALID_ARG"),
                 Refuse(id.mode = "mask", "INVALID_ARG")>>)
Condition(filter, bits) ==
    IF filter = NoFilter THEN "Yes" ELSE F!match_value_filter(filter, bits)
match_protocol_query_filter(address, id, t) ==
    F!value_filter_and(Condition(address, t.addr), Condition(id, t.id))
protocol_direction_matches(is_write, direction) ==
    direction = "all" \/ (direction = "write") = is_write

\* The one loop of both query actions: the last match, the match at an
\* index, a page of matches, or just their number.
QueryAnswer(matched, complete, args) ==
    LET begin == IF args.index > 0 THEN args.index - 1 ELSE 0
        one(found, t) == [mode |-> IF args.last THEN "last" ELSE "index"]
                         @@ Answer(IF found THEN <<t>> ELSE <<>>,
                                set_completeness(complete, FALSE, Len(matched),
                                                 IF found THEN 1 ELSE 0))
        rest == SubSeq(matched, begin + 1, Len(matched))
        page == SubSeq(rest, 1, Min({args.line_limit, Len(rest)}))
    IN  CASE args.last -> one(matched # <<>>, Last(matched))
          [] ~args.last /\ args.index > 0 /\ args.line_limit < 0 ->
                one(args.index \in DOMAIN matched, matched[args.index])
          [] ~args.last /\ args.line_limit > 0 ->
                [mode |-> "list"]
                @@ Answer(page, set_completeness(complete, begin + Len(page) < Len(matched),
                                              Len(matched), Len(page)))
          [] OTHER -> [mode |-> "count"]
                      @@ Answer(<<>>, set_completeness(complete, FALSE, Len(matched), 0))

\* Which beats are shown: all, none, or all of the first row and the first
\* beat of the others.
projected_transaction(t, projection, i) ==
    [txn |-> t, data |-> IF projection = "all" \/ (projection = "default" /\ i = 1) THEN t.beats
                         ELSE IF projection = "default" THEN AtMost(t.beats, 1) ELSE <<>>]
Projected(answer, projection) ==
    [answer EXCEPT !.rows = [i \in DOMAIN answer.rows |->
                                projected_transaction(answer.rows[i], projection, i)]]

ByHandshake(result, args) ==
    LET m == get_by_handshake(result, args.channel, args.handshake_time)
        found == m.txn # NoTxn
    IN  [mode |-> "handshake"] @@ Answer(IF found THEN <<m.txn>> ELSE <<>>,
            set_completeness(result.analysis_complete, FALSE, IF found THEN 1 ELSE 0,
                             IF found THEN 1 ELSE 0))
\* A handshake time that is missing or does not parse is 0.
AxiQueryHandler(result, args) ==
    LET by_time == args.channel # "" \/ args.handshake_time # 0
        early == FirstError(<<Refuse(args.name = "", "MISSING_NAME"), ensure_analyzed(args)>>)
        late == FirstError(<<parse_protocol_query_filter(args.address, args.id, TRUE),
                             IF args.has_range THEN time_range_error(args) ELSE "">>)
        matched == SelectSeq(list_of(result, IF args.direction = "read" THEN "read" ELSE "write"),
                       LAMBDA t : /\ args.has_range => Within(t.addr_time, args.begin, args.end)
                                  /\ match_protocol_query_filter(args.address, args.id, t) = "Yes")
    IN  CASE early # "" -> Failed(early)
          [] early = "" /\ by_time ->
                IF args.handshake_time = 0 THEN Failed("INVALID_ARG")
                ELSE Projected(ByHandshake(result, args), args.projection)
          [] early = "" /\ ~by_time /\ late # "" -> Failed(late)
          [] OTHER -> Projected(QueryAnswer(matched, result.analysis_complete, args),
                                args.projection)

\* An APB transaction's address is given by its digits.
ApbBits(t) == [addr |-> F!hex_to_bits(t.addr), id |-> <<>>]
ApbMatches(t, args) ==
    IF ~protocol_direction_matches(t.is_write, args.direction) THEN "No"
    ELSE match_protocol_query_filter(args.address, NoFilter, ApbBits(t))
ApbQueryHandler(result, complete, args) ==
    LET error == FirstError(<<Refuse(args.name = "", "MISSING_NAME"),
                     parse_protocol_query_filter(args.address, NoFilter, FALSE),
                     ensure_analyzed(args)>>)
    IN  IF error # "" THEN Failed(error)
        ELSE QueryAnswer(SelectSeq(result.all, LAMBDA t : ApbMatches(t, args) = "Yes"),
                         complete, args)

\* A statistics filter: the direction first, then address and ids; an id
\* list is an exact filter.
match_statistics_transaction(args, is_write, bits) ==
    F!value_filter_and(
        IF (args.direction = "read" /\ is_write) \/ (args.direction = "write" /\ ~is_write)
        THEN "No" ELSE "Yes",
        match_protocol_query_filter(args.address, args.id, bits))
parse_statistics_filter(args, allow_ids) ==
    FirstError(<<Refuse(args.id # NoFilter /\ ~allow_ids, "INVALID_ARG"),
                 Refuse(args.id # NoFilter /\ ~F!parse_value_filter(args.id), "INVALID_ARG"),
                 Refuse(args.address # NoFilter /\ ~F!parse_value_filter(args.address),
                        "INVALID_ARG")>>)
StatisticsHandler(all, bits, complete, allow_ids, args) ==
    LET error == FirstError(<<Refuse(args.name = "", "MISSING_NAME"),
                     parse_statistics_filter(args, allow_ids), ensure_analyzed(args)>>)
        of(m, w) == Len(SelectSeq(all, LAMBDA t : t.is_write = w /\
                        match_statistics_transaction(args, t.is_write, bits[t]) = m))
        unresolved == of("Unresolved", TRUE) + of("Unresolved", FALSE)
    IN  IF error # "" THEN Failed(error)
        ELSE [scanned |-> Len(all), matched_write |-> of("Yes", TRUE),
              matched_read |-> of("Yes", FALSE), unresolved |-> unresolved,
              ambiguous |-> unresolved > 0 \/ ~complete]
             @@ Answer(<<>>, set_completeness(complete, FALSE, of("Yes", TRUE) + of("Yes", FALSE),
                                           of("Yes", TRUE) + of("Yes", FALSE)))
AxiStatisticsHandler(result, args) ==
    StatisticsHandler(result.all, [t \in Range(result.all) |-> t], result.analysis_complete, TRUE, args)
ApbStatisticsHandler(result, complete, args) ==
    StatisticsHandler(result.all, [t \in Range(result.all) |-> ApbBits(t)], complete, FALSE, args)

\* Moves the cursor and reports where it stands; a failed move has no index.
AxiTransactionCursorHandler(result, complete, gen, cursor, args) ==
    LET error == FirstError(<<Refuse(args.name = "", "MISSING_NAME"), ensure_analyzed(args),
                     Refuse(args.op \notin {"begin", "next", "prev", "pre", "last"},
                            "INVALID_ENUM")>>)
        m == CASE args.op = "begin" -> cursor_begin(result, args.direction, gen, cursor)
               [] args.op = "next" -> cursor_next(result, args.direction, gen, cursor)
               [] args.op = "last" -> cursor_last(result, args.direction, gen, cursor)
               [] OTHER -> cursor_prev(result, args.direction, gen, cursor)
        ok == m.txn # A!NoTransaction
        index == cursor_state(result, args.direction, m.cursor)
        total == Len(list_of(result, args.direction))
    IN  IF error # "" THEN [cursor |-> cursor] @@ Failed(error)
        ELSE [cursor |-> m.cursor, index |-> IF ok THEN index ELSE 0,
              at_begin |-> ok /\ index = 1, at_end |-> ok /\ index = total]
             @@ Answer(IF ok THEN <<m.txn>> ELSE <<>>,
                    set_completeness(complete, FALSE, total, IF ok THEN 1 ELSE 0))

ApbTransactionCursorHandler(result, complete, gen, cursor, args) ==
    AxiTransactionCursorHandler(result, complete, gen, cursor, args)

\* Latency and outstanding statistics, or the open transactions: writes
\* first, at most line_limit of them.
AxiAnalysisHandler(result, args) ==
    LET error == FirstError(<<Refuse(args.name = "", "MISSING_NAME"), ensure_analyzed(args),
                     Refuse(args.analysis # "pending" /\ args.has_limit, "INVALID_ARG"),
                     Refuse(args.analysis \notin {"latency", "osd", "pending"}, "INVALID_ENUM")>>)
        stat(f) == IF args.analysis = "latency" THEN get_latency_stats(result, f, AnyId)
                   ELSE get_outstanding_stats(result, f)
        pending == SelectSeq(result.pending_writes \o result.pending_reads,
                             LAMBDA t : DirectionKept(t, args.direction))
        shown == AtMost(pending, IF args.has_limit THEN args.line_limit ELSE 20)
        n == stat(args.direction).samples
        complete == result.analysis_complete
    IN  CASE error # "" -> Failed(error)
          [] error = "" /\ args.analysis = "pending" ->
                Answer(shown, set_completeness(complete, Len(shown) < Len(pending),
                                               Len(pending), Len(shown)))
          [] OTHER -> [selected |-> stat(args.direction), read |-> stat("read"),
                       write |-> stat("write")]
                      @@ Answer(<<>>, set_completeness(complete, FALSE, n, n))

\* What an AXI export holds: the transactions that complete in the range,
\* in completion order, and how many there are of each id.
txn_less(l, r) == IF l.resp_time # r.resp_time THEN l.resp_time < r.resp_time
                  ELSE txn_addr_less(l, r)
build(result, begin, end) ==
    LET rows(q) == SortSeq(SelectSeq(q, LAMBDA t : Within(t.resp_time, begin, end)), txn_less)
        counts(q) == [i \in {t.id : t \in ToSet(q)} |->
                         Len(SelectSeq(q, LAMBDA t : t.id = i))]
        w == rows(result.writes)
        r == rows(result.reads)
    IN  [writes |-> w, reads |-> r, write_count_by_id |-> counts(w),
         read_count_by_id |-> counts(r), analysis_complete |-> result.analysis_complete]

\* The files are published as one set (ArtifactPublisher).
write_files == {"write", "read", "meta"}
ExportError(args) ==
    FirstError(<<Refuse(~args.has_range, "MISSING_FIELD"), time_range_error(args),
                 Refuse(args.has_format /\ args.path = "", "INVALID_ARG"),
                 Refuse(args.format \notin {"tsv", "csv"}, "INVALID_ENUM")>>)
\* Without a path the AXI files go to the session's export directory.
AxiExportHandler(result, args) ==
    LET error == FirstError(<<Refuse(args.name = "", "MISSING_NAME"),
                     Refuse(args.stored = "NotFound", "CONFIG_NOT_FOUND"),
                     Refuse(args.stored # "Ok", "CONFIG_STORE_ERROR"),
                     ExportError(args), ensure_analyzed(args),
                     Refuse(~args.publish_ok, "EXPORT_FAILED")>>)
        b == build(result, args.begin, args.end)
        total == Len(b.writes) + Len(b.reads)
    IN  IF error # "" THEN Failed(error)
        ELSE [files |-> write_files, export |-> b]
             @@ Answer(<<>>, set_completeness(b.analysis_complete, FALSE, total, total))

PreviewLimit == 8
ApbExportHandler(result, args) ==
    LET error == FirstError(<<Refuse(args.name = "", "MISSING_NAME"),
                     Refuse(args.direction \notin {"all", "write", "read"}, "INVALID_ENUM"),
                     parse_protocol_query_filter(args.address, NoFilter, FALSE),
                     ExportError(args), ensure_analyzed(args),
                     Refuse(args.path # "" /\ ~args.publish_ok, "EXPORT_FAILED")>>)
        b == A!build(result, [t \in Range(result.all) |-> ApbMatches(t, args)], args.begin, args.end)
        n == Len(b.transactions)
        shown == AtMost(b.transactions, PreviewLimit)
    IN  CASE error # "" -> Failed(error)
          [] error = "" /\ args.path = "" ->
                [files |-> {}, export |-> b]
                @@ Answer(shown, set_completeness(b.analysis_complete, Len(shown) < n,
                                               n, Len(shown)))
          [] OTHER -> [files |-> {"data", "meta"}, export |-> b]
                      @@ Answer(<<>>, set_completeness(b.analysis_complete, FALSE, n, n))

----------------------------------------------------------------------------
(* What the queries promise.                                               *)

Rank(set) == SetToSortSeq(set, latency_rank_better)
\* The bounded queue returns the best K: for every range, direction, limit
\* and threshold the outliers are the first ones of the whole ranking, the
\* earlier sequence number first among equals, and an answer that is cut
\* short says so.
OutliersBest(result, args, limits) ==
    \A d \in {"all", "write", "read"}, n \in limits, k \in limits,
       m \in {"top_n", "threshold"} :
        LET a == [args EXCEPT !.direction = d, !.method = m, !.top_n = n, !.line_limit = k,
                              !.threshold = n]
            r == ai_axi_latency_outlier(result, a)
            inside == {t \in ToSet(result.all) :
                         /\ d = "write" => t.is_write
                         /\ d = "read" => ~t.is_write
                         /\ Within(t.addr_time, a.begin, a.end) \/ Within(t.resp_time, a.begin, a.end)
                         /\ m = "threshold" => t.resp_time - t.addr_time > n}
            want == AtMost(IF m = "top_n" THEN AtMost(Rank(inside), n) ELSE Rank(inside), k)
        IN  /\ [i \in DOMAIN r.rows |-> r.rows[i].txn] = want
            /\ \A i \in DOMAIN r.rows : Within(r.rows[i].match_time, a.begin, a.end)
            /\ r.summary.response_truncated
                 <=> Len(want) < (IF m = "top_n" THEN Min({n, Cardinality(inside)})
                                  ELSE Cardinality(inside))

\* The lazy indexes answer what a walk over the list would: a lookup by
\* address, id and number, and by the time of a handshake.
LookupsAgree(result, values, times) ==
    /\ \A d \in {"write", "read"}, v \in values, id \in values \cup {AnyId} :
          LET hit(t, a, i) == /\ a = AnyId \/ (parse_hex_value(t.addr).ok
                                               /\ parse_hex_value(t.addr).val = a)
                              /\ id_matches(t.id, i)
              list == list_of(result, d)
              mine == SelectSeq(list, LAMBDA t : hit(t, v, id))
              ofid == SelectSeq(list, LAMBDA t : hit(t, AnyId, v))
              at(q, k) == IF k \in DOMAIN q THEN q[k] ELSE NoTxn
          IN  /\ \A k \in 0 .. Len(list) + 1 :
                    /\ get_by_addr_num(result, d, v, id, k) = at(mine, k)
                    /\ get_by_id_num(result, d, v, k) = at(ofid, k)
              /\ get_by_addr(result, d, v, id) = at(mine, 1)
              /\ get_by_addr_last(result, d, v, id) = at(mine, Len(mine))
              /\ get_by_id_last(result, d, v) = at(ofid, Len(ofid))
    /\ \A t \in ToSet(result.all), time \in times :
          LET found(c) == get_by_handshake(result, c, time) IN
          /\ time = t.addr_time => found(IF t.is_write THEN "aw" ELSE "ar").txn = t
          /\ t.is_write /\ time = t.resp_time => found("b").txn = t
          /\ \A k \in DOMAIN t.beats : time = t.beats[k] =>
                LET m == found(IF t.is_write THEN "w" ELSE "r") IN m.txn = t /\ m.beat = k

\* The window lists every transaction whose address or response falls in
\* it, once; and the change points of the outstanding timeline, replayed,
\* give the count of every sample of the range.
RangesExact(result, args) ==
    LET w == ai_axi_transactions_window(result, [args EXCEPT !.line_limit = -1])
        tl == ai_axi_outstanding_timeline(result, [args EXCEPT !.line_limit = -1])
        q == get_outstanding_samples_in_range(result, args.begin, args.end, -1)
    IN  /\ {w.rows[i].txn : i \in DOMAIN w.rows} =
              {t \in ToSet(result.all) :
                 /\ DirectionKept(t, args.direction)
                 /\ Within(t.addr_time, args.begin, args.end)
                    \/ Within(t.resp_time, args.begin, args.end)}
        /\ Cardinality({w.rows[i].txn.seq : i \in DOMAIN w.rows}) = Len(w.rows)
        /\ \A i \in DOMAIN q :
              LET total(f(_)) == FoldLeft(LAMBDA acc, r : IF r.time <= q[i].time THEN acc + f(r)
                                                          ELSE acc, 0, tl.rows)
              IN  /\ args.direction # "write" => total(LAMBDA r : r.read_delta) = q[i].read
                  /\ args.direction # "read" => total(LAMBDA r : r.write_delta) = q[i].write

\* Asking page after page returns every match once and in order, and only
\* the last page is not truncated; a count, an index and the last entry
\* agree with the pages.
PagesCover(ask(_, _, _), size) ==
    LET count == ask(0, 0, FALSE).summary.total_count
        page(k) == ask(1 + (k * size), size, FALSE)
        pages == 0 .. (count \div size)
        all == FlattenSeq([k \in 1 .. Cardinality(pages) |-> page(k - 1).rows])
    IN  /\ Len(all) = count
        /\ \A k \in pages : page(k).summary.response_truncated <=> count > (k + 1) * size
        /\ \A i \in 1 .. count + 1 :
              ask(i, -1, FALSE).rows = (IF i <= count THEN <<all[i]>> ELSE <<>>)
        /\ ask(0, 0, TRUE).rows = (IF count = 0 THEN <<>> ELSE <<all[count]>>)

\* A filter never guesses: a transaction it takes matches under every value
\* its unknown bits may have, one it leaves matches under none; statistics
\* count each transaction in one class.
FilterSound(result, args) ==
    LET s == AxiStatisticsHandler(result, args)
        m(t) == match_protocol_query_filter(args.address, NoFilter, t)
    IN  /\ s.error = "" => /\ s.matched_read + s.matched_write + s.unresolved <= s.scanned
                           /\ s.ambiguous <=> s.unresolved > 0 \/ ~result.analysis_complete
        /\ s.error = "" => \A t \in ToSet(result.all) : \A r \in F!Resolutions(t.addr) :
              LET known == F!match_value_filter(args.address, r) IN
              args.address # NoFilter => /\ m(t) = "Yes" => known = "Yes"
                                         /\ m(t) = "No" => known = "No"
Pairs(rows) == {rows[i].txn : i \in DOMAIN rows}
Sorted(q, key(_)) == \A i \in 1 .. Len(q) - 1 : key(q[i]) <= key(q[i + 1])

\* axi.export holds what axi.transactions_window lists and that completes in
\* the range, in completion order; axi.analysis counts each transaction once,
\* ranks its percentiles, sees the same peak as the timeline, and lists the
\* open transactions, all of them or as many as it says.
AxiActionsAgree(result, args) ==
    LET w == ai_axi_transactions_window(result, [args EXCEPT !.direction = "all"])
        x == AxiExportHandler(result, args)
        stat(a, d) == AxiAnalysisHandler(result, [args EXCEPT !.analysis = a, !.direction = d])
        l == stat("latency", "all")
        p == stat("pending", "all")
        first == AxiAnalysisHandler(result, [args EXCEPT !.analysis = "pending", !.direction = "all",
                                                         !.has_limit = TRUE, !.line_limit = 1])
        q == result.outstanding_samples
        whole == summarize_outstanding_in_range(result, q[1].time, Last(q).time, "all", -1)
    IN  /\ x.error = "" =>
              /\ ToSet(x.export.writes) \cup ToSet(x.export.reads)
                   = {t \in Pairs(w.rows) : Within(t.resp_time, args.begin, args.end)}
              /\ \A k \in {"writes", "reads"} : Sorted(x.export[k], LAMBDA t : t.resp_time)
              /\ x.summary.total_count = Len(x.export.writes) + Len(x.export.reads)
        /\ l.selected.samples = l.read.samples + l.write.samples
        /\ l.selected.samples = Len(result.all)
        /\ l.selected # Empty =>
              Sorted(<<l.selected.min, l.selected.p50, l.selected.p95, l.selected.p99,
                       l.selected.max>>, LAMBDA n : n)
        /\ q # <<>> => /\ stat("osd", "read").selected.max = whole.peak_read
                       /\ stat("osd", "write").selected.max = whole.peak_write
        /\ first.rows = AtMost(p.rows, 1)
        /\ first.summary.response_truncated <=> Len(p.rows) > 1
        /\ ToSet(p.rows) = ToSet(result.pending_writes) \cup ToSet(result.pending_reads)

\* The APB actions see the same transfers: the filtered export is what the
\* query pages through and the statistics count, undecided ones included; the
\* unfiltered export is the window, and a cursor walks the list in order.
ApbActionsAgree(result, args) ==
    LET page(i, n, last) == ApbQueryHandler(result, TRUE,
                              [args EXCEPT !.index = i, !.line_limit = n, !.last = last])
        x == ApbExportHandler(result, args)
        s == ApbStatisticsHandler(result, TRUE, args)
        w == ai_apb_transfer_window(result, TRUE, args)
        all == ApbExportHandler(result, [args EXCEPT !.address = NoFilter])
        go(c, op) == ApbTransactionCursorHandler(result, TRUE, 1, c, [args EXCEPT !.op = op])
        list == list_of(result, args.direction)
        start == go(A!NoCursor, "begin")
        walk == FoldLeft(LAMBDA acc, i : IF acc.rows = <<>> THEN acc
                                         ELSE LET m == go(acc.cursor, "next")
                                              IN  [rows |-> m.rows, cursor |-> m.cursor,
                                                   seen |-> acc.seen \o m.rows],
                         [rows |-> start.rows, cursor |-> start.cursor, seen |-> start.rows], list)
    IN  /\ x.error = "" =>
              /\ PagesCover(page, 1)
              /\ page(0, 9, FALSE).rows = x.export.transactions
              /\ s.matched_write = x.export.write_count /\ s.matched_read = x.export.read_count
              /\ s.unresolved = x.export.unresolved_filter_count
              /\ s.ambiguous <=> ~x.summary.analysis_complete
        /\ all.export.transactions = [i \in DOMAIN w.rows |-> w.rows[i].txn]
        /\ walk.seen = list
        /\ \A i \in DOMAIN list : ~go([gen |-> 1, pos |-> i - 1], "next").at_begin

\* axi.channel_stall: every transfer that waited longer than max_wait is
\* reported with the cycles it waited, and so is a wait still open at the end.
ChannelStallsExact(samples, args) ==
    LET is(i, v, r) == samples[i].valid = v /\ samples[i].ready = r
        waits(i) == {j \in 1 .. i - 1 : is(j, "1", "0") /\ \A k \in j .. i - 1 : ~is(k, "1", "1")}
        late == SelectSeq([i \in 1 .. Len(samples) + 1 |-> i],
                          LAMBDA i : /\ i <= Len(samples) => is(i, "1", "1")
                                     /\ Cardinality(waits(i)) > args.max_wait)
        row(i) == [begin |-> samples[Min(waits(i))].time,
                   end |-> IF i <= Len(samples) THEN samples[i].time ELSE args.end,
                   cycles |-> Cardinality(waits(i)), open |-> i > Len(samples)]
        a == ai_axi_channel_stall(samples, args)
    IN  /\ a.rows = AtMost([k \in DOMAIN late |-> row(late[k])], args.line_limit)
        /\ a.summary.response_truncated <=> Len(a.rows) < Len(late)
        /\ a.max_stall = Max({Cardinality(waits(i)) : i \in 1 .. Len(samples) + 1})
=============================================================================
