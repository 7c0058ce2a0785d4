---------------------------- MODULE ApbAnalysis ----------------------------
(***************************************************************************)
(* APB transfers found in the samples of a bus (apb_analyzer.cpp), the     *)
(* queries over them and their export (apb_exporter.cpp).                  *)
(*                                                                         *)
(* A sample is a record of sampled texts: reset, psel, penable, pwrite,    *)
(* pready, pslverr, addr, pwdata, prdata and its time.  An address is a    *)
(* sequence of hex digits in which "X" may occur.                          *)
(***************************************************************************)
EXTENDS Integers, Sequences, FiniteSets, SequencesExt

asserted(v) == v \notin {"", "0", "X", "Z"}

\* A reset that is not one known bit counts as active.
reset_is_active(polarity, v) ==
    IF v \notin {"0", "1"} THEN TRUE
    ELSE (v = "1") = (polarity = "active_high")

\* strtoull: the digits before the first one that is not hex, if any.
HexVal(digits) == FoldLeft(LAMBDA acc, d : 16 * acc + d, 0, digits)
parse_hex_value(addr) ==
    LET bad == {i \in DOMAIN addr : addr[i] < 0}
        n == IF bad = {} THEN Len(addr) ELSE (CHOOSE i \in bad : \A j \in bad : i <= j) - 1
    IN  [ok |-> n > 0, val |-> HexVal(SubSeq(addr, 1, n))]

----------------------------------------------------------------------------
(* The scan.                                                               *)

transaction(s) ==
    LET w == asserted(s.pwrite)
        a == parse_hex_value(s.addr)
    IN  [time |-> s.time, is_write |-> w, addr |-> s.addr,
         data |-> IF w THEN s.pwdata ELSE s.prdata,
         has_numeric_addr |-> a.ok, numeric_addr |-> a.val,
         has_error |-> asserted(s.pslverr)]

\* Mutated: a completion is remembered beyond the end of its access.
process_edge_latched(r, s, cfg) ==
    IF \/ reset_is_active(cfg.polarity, s.reset)
       \/ ~asserted(s.psel) \/ ~asserted(s.penable)
       \/ (cfg.has_pready /\ ~asserted(s.pready)) \/ r.completion_seen
    THEN r
    ELSE IF transaction(s).is_write
    THEN [r EXCEPT !.completion_seen = TRUE, !.writes = Append(@, transaction(s))]
    ELSE [r EXCEPT !.completion_seen = TRUE, !.reads = Append(@, transaction(s))]

\* One sample.  A reset, or a psel or penable that is low, ends the access;
\* a low pready waits; only the first ready sample of an access completes it.
process_edge(r, s, cfg) ==
    CASE \/ reset_is_active(cfg.polarity, s.reset)
         \/ ~asserted(s.psel) \/ ~asserted(s.penable) ->
            [r EXCEPT !.completion_seen = FALSE]
      [] OTHER ->
            IF (cfg.has_pready /\ ~asserted(s.pready)) \/ r.completion_seen THEN r
            ELSE LET txn == transaction(s)
                 IN  IF txn.is_write
                     THEN [r EXCEPT !.completion_seen = TRUE, !.writes = Append(@, txn)]
                     ELSE [r EXCEPT !.completion_seen = TRUE, !.reads = Append(@, txn)]

by_time(q) == SortSeq(q, LAMBDA a, b : a.time < b.time)

\* Both lists in time order, a write before a read of the same time.
RECURSIVE merge(_, _)
merge(w, r) ==
    CASE w = <<>> -> r
      [] r = <<>> /\ w # <<>> -> w
      [] OTHER -> IF Head(w).time <= Head(r).time
                  THEN <<Head(w)>> \o merge(Tail(w), r)
                  ELSE <<Head(r)>> \o merge(w, Tail(r))

analyze(samples, cfg) ==
    LET r == FoldLeft(LAMBDA acc, s : process_edge(acc, s, cfg),
                      [completion_seen |-> FALSE, writes |-> <<>>, reads |-> <<>>],
                      samples)
        w == by_time(r.writes)
        d == by_time(r.reads)
    IN  [writes |-> w, reads |-> d, all |-> merge(w, d), sample_count |-> Len(samples)]

----------------------------------------------------------------------------
(* Queries.  A failed query returns no transaction.                        *)

NoTransaction == [time |-> -1]

list_of(result, filter) ==
    CASE filter = "write" -> result.writes
      [] filter = "read" -> result.reads
      [] OTHER -> result.all
transaction_count(result, filter) == Len(list_of(result, filter))

\* Positions count from 0.
transaction_at(result, filter, index) ==
    IF index >= transaction_count(result, filter) THEN NoTransaction
    ELSE list_of(result, filter)[index + 1]

\* The lazy index: per address the positions in each of the three lists.
address_index(result) ==
    LET addrs == {t.numeric_addr : t \in {x \in ToSet(result.all) : x.has_numeric_addr}}
        positions(list, a) ==
            SelectSeq([i \in DOMAIN list |-> i - 1],
                      LAMBDA i : /\ list[i + 1].has_numeric_addr
                                 /\ list[i + 1].numeric_addr = a)
    IN  [a \in addrs |-> [all |-> positions(result.all, a),
                          write |-> positions(result.writes, a),
                          read |-> positions(result.reads, a)]]

get_by_addr_num(result, filter, addr, num) ==
    LET index == address_index(result)
    IN  IF num = 0 \/ addr \notin DOMAIN index \/ num > Len(index[addr][filter])
        THEN NoTransaction
        ELSE transaction_at(result, filter, index[addr][filter][num])
get_by_addr_last(result, filter, addr) ==
    LET index == address_index(result)
    IN  IF addr \notin DOMAIN index \/ index[addr][filter] = <<>> THEN NoTransaction
        ELSE transaction_at(result, filter, Last(index[addr][filter]))
get_by_num(result, filter, num) ==
    IF num = 0 THEN NoTransaction ELSE transaction_at(result, filter, num - 1)
get_last(result, filter) ==
    IF transaction_count(result, filter) = 0 THEN NoTransaction
    ELSE transaction_at(result, filter, transaction_count(result, filter) - 1)

\* The transactions of a time range, at most max_results of them (-1: all).
get_transactions_in_range(result, begin, end, max_results) ==
    LET hits == SelectSeq(result.all, LAMBDA t : t.time >= begin /\ t.time <= end)
    IN  IF max_results >= 0 /\ Len(hits) > max_results
        THEN SubSeq(hits, 1, max_results) ELSE hits

\* Cursors: None, or the generation it was made in and a position.  What a
\* move returns: the cursor after it, and the transaction or none.
NoCursor == [gen |-> 0, pos |-> 0]
Move(cursor, txn) == [cursor |-> cursor, txn |-> txn]
cursor_begin(result, filter, gen, cursor) ==
    IF transaction_count(result, filter) = 0 THEN Move(cursor, NoTransaction)
    ELSE Move([gen |-> gen, pos |-> 0], transaction_at(result, filter, 0))
cursor_last(result, filter, gen, cursor) ==
    LET count == transaction_count(result, filter)
    IN  IF count = 0 THEN Move(cursor, NoTransaction)
        ELSE Move([gen |-> gen, pos |-> count - 1],
                  transaction_at(result, filter, count - 1))
\* A cursor of an older generation is resumed in the current one.
cursor_next(result, filter, gen, cursor) ==
    IF cursor.pos + 1 >= transaction_count(result, filter)
    THEN Move(IF cursor = NoCursor THEN cursor ELSE [cursor EXCEPT !.gen = gen],
              NoTransaction)
    ELSE Move([gen |-> gen, pos |-> cursor.pos + 1],
              transaction_at(result, filter, cursor.pos + 1))
cursor_prev(result, filter, gen, cursor) ==
    CASE cursor = NoCursor -> Move(cursor, NoTransaction)
      [] cursor # NoCursor /\ cursor.pos = 0 ->
            Move([cursor EXCEPT !.gen = gen], NoTransaction)
      [] OTHER -> Move([gen |-> gen, pos |-> cursor.pos - 1],
                       transaction_at(result, filter, cursor.pos - 1))
cursor_state(result, filter, cursor) ==
    IF transaction_count(result, filter) = 0 THEN 0 ELSE cursor.pos + 1

----------------------------------------------------------------------------
(* Export.                                                                 *)

\* The transactions of a range a filter accepts (match is its verdict on
\* every transaction); one the filter cannot
\* decide is counted and makes the export incomplete.
build(result, match, begin, end) ==
    LET range == SelectSeq(result.all, LAMBDA t : t.time >= begin /\ t.time <= end)
        rows == SelectSeq(range, LAMBDA t : match[t] = "Yes")
        unresolved == Len(SelectSeq(range, LAMBDA t : match[t] = "Unresolved"))
    IN  [in_range_count |-> Len(range), transactions |-> rows,
         unresolved_filter_count |-> unresolved,
         analysis_complete |-> unresolved = 0,
         write_count |-> Len(SelectSeq(rows, LAMBDA t : t.is_write)),
         read_count |-> Len(SelectSeq(rows, LAMBDA t : ~t.is_write))]

----------------------------------------------------------------------------
(* What the analysis promises.                                             *)

\* The access a sample belongs to: psel and penable outside reset.
InAccess(s, cfg) == /\ ~reset_is_active(cfg.polarity, s.reset)
                    /\ asserted(s.psel) /\ asserted(s.penable)

\* The samples that complete a transfer: ready, and no sample of the same
\* access was ready before.
Completes(samples, cfg, i) ==
    LET ready(k) == ~cfg.has_pready \/ asserted(samples[k].pready) IN
    /\ InAccess(samples[i], cfg) /\ ready(i)
    /\ \A j \in 1 .. i - 1 :
          (\A k \in j .. i : InAccess(samples[k], cfg)) => ~ready(j)

\* Every completed transfer is recorded once, in the list of its direction
\* and in the merged list, in time order.
TransfersExact(samples, cfg) ==
    LET r == analyze(samples, cfg)
        done == SelectSeq([i \in DOMAIN samples |-> i],
                          LAMBDA i : Completes(samples, cfg, i))
        want == [k \in DOMAIN done |-> transaction(samples[done[k]])]
    IN  /\ r.all = want
        /\ r.writes = SelectSeq(want, LAMBDA t : t.is_write)
        /\ r.reads = SelectSeq(want, LAMBDA t : ~t.is_write)

\* A lookup by address and number is a lookup in the filtered list; ranges,
\* numbers and the last entry agree with it; the export is the filtered
\* range and says when it left something undecided.
QueriesAgree(samples, cfg, addrs) ==
    LET r == analyze(samples, cfg)
        at(q, k) == IF k \in DOMAIN q THEN q[k] ELSE NoTransaction
        times == {samples[i].time : i \in DOMAIN samples}
        undecided == [t \in ToSet(r.all) |-> IF ~t.has_numeric_addr THEN "Unresolved"
                                             ELSE IF t.numeric_addr = 1 THEN "Yes" ELSE "No"]
    IN  /\ \A f \in {"all", "write", "read"} : \A a \in addrs :
              LET mine == SelectSeq(list_of(r, f), LAMBDA t :
                             t.has_numeric_addr /\ t.numeric_addr = a)
              IN  /\ \A k \in 0 .. Len(samples) :
                        /\ get_by_addr_num(r, f, a, k) = at(mine, k)
                        /\ get_by_num(r, f, k) = at(list_of(r, f), k)
                  /\ get_by_addr_last(r, f, a) = at(mine, Len(mine))
                  /\ get_last(r, f) = at(list_of(r, f), Len(list_of(r, f)))
        /\ \A b, e \in times :
              LET q == get_transactions_in_range(r, b, e, -1)
                  x == build(r, undecided, b, e) IN
              /\ ToSet(q) = {t \in ToSet(r.all) : t.time >= b /\ t.time <= e}
              /\ get_transactions_in_range(r, b, e, 1) = SubSeq(q, 1, IF q = <<>> THEN 0 ELSE 1)
              /\ x.in_range_count = Len(q)
              /\ x.write_count + x.read_count = Len(x.transactions)
              /\ x.analysis_complete <=> \A i \in DOMAIN q : q[i].has_numeric_addr

\* Wherever a cursor stands, moving on and back returns to it, a move that
\* finds nothing leaves the position, and the position is always that of a
\* transaction; the first next of a fresh cursor skips the first entry.
CursorLaws(samples, cfg) ==
    LET r == analyze(samples, cfg) IN
    \A f \in {"all", "write", "read"} : \A p \in 0 .. transaction_count(r, f) - 1 :
        LET c == [gen |-> 1, pos |-> p]
            n == cursor_next(r, f, 2, c)
            b == cursor_prev(r, f, 2, n.cursor)
        IN  /\ n.txn = NoTransaction <=> p = transaction_count(r, f) - 1
            /\ n.txn = NoTransaction => n.cursor.pos = p
            /\ n.txn # NoTransaction => /\ b.cursor.pos = p
                                        /\ b.txn = transaction_at(r, f, p)
            /\ cursor_last(r, f, 2, c).txn = get_last(r, f)
            /\ cursor_begin(r, f, 2, c).txn = get_by_num(r, f, 1)
            /\ cursor_state(r, f, n.cursor) \in 1 .. transaction_count(r, f)
=============================================================================
