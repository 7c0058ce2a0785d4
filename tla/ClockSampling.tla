---------------------------- MODULE ClockSampling ----------------------------
(***************************************************************************)
(* Sampling signals on the edges of a clock (clock_sampling.cpp).          *)
(*                                                                         *)
(* A waveform is a sequence of value changes [time, sig, val] in the order *)
(* in which the FSDB iterator reports them: sorted by time, and every      *)
(* signal has a change at time 0.  Three pieces of code find the samples   *)
(* of a clock: the scanner (one pass over the changes of a plain clock),   *)
(* the expression scanner (a clock that is an expression over signals) and *)
(* the resolver, which walks the clock's own changes and serves point      *)
(* queries.                                                                *)
(***************************************************************************)
EXTENDS Integers, Sequences, SequencesExt

None == -1

----------------------------------------------------------------------------
(* The waveform library.                                                   *)

\* The changes of one signal before a time, and its value at or before one.
Before(wave, sig, time) ==
    SelectSeq(wave, LAMBDA c : c.sig = sig /\ c.time < time)
value_at(wave, sig, time) == Last(Before(wave, sig, time + 1)).val
changes_in(wave, begin, end) ==
    SelectSeq(wave, LAMBDA c : c.time >= begin /\ c.time <= end)

----------------------------------------------------------------------------
(* Edges.                                                                  *)

truthy_one(v) == v = "1"

\* Negedge samples the current value whatever the sample point says.
sample_before_edge(spec) == spec.edge # "negedge" /\ spec.point = "before"

\* The kind of a transition, and whether the requested edge is it.
edge_kind(old_one, new_one) ==
    CASE ~old_one /\ new_one -> "posedge"
      [] old_one /\ ~new_one -> "negedge"
      [] OTHER -> "none"
clock_edge_transition_matches(requested, old_one, new_one) ==
    LET actual == edge_kind(old_one, new_one)
    IN  actual # "none" /\ requested \in {actual, "dual"}

----------------------------------------------------------------------------
(* The scanner.  Changes of one time form a group; when the next group     *)
(* starts, and at the end, the finished group yields a sample if it held a *)
(* requested clock edge.  The callback stops the scan by returning FALSE;  *)
(* here it keeps the samples and stops after a limit.                      *)

finish_group(s, spec, max_samples) ==
    IF s.group = None \/ ~s.changed \/ ~s.target THEN s
    ELSE IF max_samples >= 0 /\ s.count + 1 > max_samples
    THEN [s EXCEPT !.count = @ + 1, !.truncated = TRUE, !.keep = FALSE]
    ELSE [s EXCEPT !.count = @ + 1,
                   !.samples = Append(@, [time |-> s.group, edge |-> s.kind,
                        vals |-> IF sample_before_edge(spec) THEN s.start
                                 ELSE s.vals])]

\* Mutated: the values at the start of the time group are not renewed.
open_group_stale(s, time) ==
    [s EXCEPT !.group = time, !.changed = FALSE, !.target = FALSE]

open_group(s, time) ==
    [s EXCEPT !.group = time, !.changed = FALSE, !.target = FALSE,
              !.start = s.vals]

\* A changed signal updates the first of its aliases only.
store_value(vals, aliases, c) ==
    [vals EXCEPT ![CHOOSE k \in DOMAIN aliases :
                      /\ aliases[k] = c.sig
                      /\ \A j \in 1 .. k - 1 : aliases[j] # c.sig] = c.val]

\* A change of the clock decides about the group's edge and updates no value,
\* even when the clock is sampled too; another change updates a value.
scan_change(s, c, spec, clk, aliases, max_samples) ==
    LET t == IF s.group = c.time THEN s
             ELSE LET f == finish_group(s, spec, max_samples)
                  IN  IF f.keep THEN open_group(f, c.time) ELSE f
    IN  CASE ~s.keep \/ ~t.keep -> t
          [] s.keep /\ t.keep /\ c.sig = clk ->
                [t EXCEPT !.target = clock_edge_transition_matches(
                                        spec.edge, truthy_one(t.prev),
                                        truthy_one(c.val)),
                          !.kind = edge_kind(truthy_one(t.prev), truthy_one(c.val)),
                          !.prev = c.val, !.changed = TRUE]
          [] OTHER -> [t EXCEPT !.vals = store_value(@, aliases, c)]

\* The values just before the window start the scan; handles says whose value
\* each entry holds.
scan_start(wave, handles, clk, begin) ==
    LET init == IF begin > 0 THEN begin - 1 ELSE begin
    IN  [group |-> None, changed |-> FALSE, target |-> FALSE, kind |-> "none",
         prev |-> value_at(wave, clk, init), count |-> 0, truncated |-> FALSE,
         vals |-> [k \in DOMAIN handles |-> value_at(wave, handles[k], init)],
         start |-> [k \in DOMAIN handles |-> value_at(wave, handles[k], init)],
         samples |-> <<>>, keep |-> TRUE]

\* aliases is the list of sampled signals; one signal may have several.
scan(wave, spec, clk, aliases, begin, end, max_samples) ==
    LET s == FoldLeft(LAMBDA acc, c :
                        IF acc.keep
                        THEN scan_change(acc, c, spec, clk, aliases, max_samples)
                        ELSE acc,
                      scan_start(wave, aliases, clk, begin),
                      SelectSeq(changes_in(wave, begin, end),
                                LAMBDA c : c.sig \in Range(aliases) \cup {clk}))
    IN  IF s.keep THEN finish_group(s, spec, max_samples) ELSE s

----------------------------------------------------------------------------
(* The expression scanner: the clock is an expression over clock_sigs, and *)
(* only a transition between known values is an edge.  It keeps one value   *)
(* per signal, which every alias of the signal reads.                      *)

\* The clock expression: the conjunction of its signals.
clock_eval(vals, clock_sigs) ==
    [known |-> \A g \in clock_sigs : vals[g] \in {"0", "1"},
     one |-> \A g \in clock_sigs : vals[g] = "1"]

expression_change(s, c, spec, clock_sigs, max_samples) ==
    LET t == IF s.group = c.time THEN s
             ELSE LET f == finish_group(s, spec, max_samples)
                  IN  IF f.keep THEN open_group(f, c.time) ELSE f
        u == [t EXCEPT !.vals[c.sig] = c.val]
        now == clock_eval(u.vals, clock_sigs)
        edge == t.prev.known /\ now.known
        match == edge /\ clock_edge_transition_matches(spec.edge, t.prev.one, now.one)
    IN  CASE ~t.keep -> t
          [] t.keep /\ c.sig \in clock_sigs ->
                [u EXCEPT !.prev = now, !.changed = @ \/ edge,
                          !.target = @ \/ match,
                          !.kind = IF match THEN edge_kind(t.prev.one, now.one) ELSE @]
          [] OTHER -> u

make_sample_values(sample, aliases) ==
    [sample EXCEPT !.vals = [k \in DOMAIN aliases |-> @[aliases[k]]]]

expression_scan(wave, spec, clock_sigs, aliases, begin, end, max_samples) ==
    LET all == Range(aliases) \cup clock_sigs
        first == scan_start(wave, [g \in all |-> g], CHOOSE g \in clock_sigs : TRUE, begin)
        s == FoldLeft(LAMBDA acc, c : IF acc.keep
                                      THEN expression_change(acc, c, spec, clock_sigs,
                                                             max_samples)
                                      ELSE acc,
                      [first EXCEPT !.prev = clock_eval(first.vals, clock_sigs)],
                      SelectSeq(changes_in(wave, begin, end), LAMBDA c : c.sig \in all))
        e == IF s.keep THEN finish_group(s, spec, max_samples) ELSE s
    IN  [e EXCEPT !.samples = [i \in DOMAIN @ |-> make_sample_values(@[i], aliases)]]

----------------------------------------------------------------------------
(* The resolver.                                                           *)

\* The next requested edge at or after the anchor: the clock's changes are
\* walked with the value before each of them; None when there is none.
next_single_edge_sample(wave, clk, edge, anchor) ==
    LET mine == SelectSeq(wave, LAMBDA c : c.sig = clk)
        hit == {i \in DOMAIN mine :
                   /\ i > 1 /\ mine[i].time >= anchor
                   /\ clock_edge_transition_matches(edge,
                         truthy_one(mine[i - 1].val), truthy_one(mine[i].val))}
    IN  IF hit = {} THEN None
        ELSE mine[CHOOSE i \in hit : \A j \in hit : i <= j].time

\* The library's edge cursor, which finds the previous edge.
previous_single_edge_sample(wave, clk, edge, anchor) ==
    LET mine == SelectSeq(wave, LAMBDA c : c.sig = clk)
        hit == {i \in DOMAIN mine :
                   /\ i > 1 /\ mine[i].time < anchor
                   /\ clock_edge_transition_matches(edge,
                         truthy_one(mine[i - 1].val), truthy_one(mine[i].val))}
    IN  IF hit = {} THEN None
        ELSE mine[CHOOSE i \in hit : \A j \in hit : i >= j].time

\* A dual clock takes the earlier of its two next edges, the later of its
\* two previous ones.
find_next_sample(wave, clk, edge, anchor) ==
    IF edge # "dual" THEN next_single_edge_sample(wave, clk, edge, anchor)
    ELSE LET pos == next_single_edge_sample(wave, clk, "posedge", anchor)
             neg == next_single_edge_sample(wave, clk, "negedge", anchor)
         IN  IF neg = None \/ (pos # None /\ pos <= neg) THEN pos ELSE neg
find_previous_sample(wave, clk, edge, anchor) ==
    IF edge # "dual" THEN previous_single_edge_sample(wave, clk, edge, anchor)
    ELSE LET pos == previous_single_edge_sample(wave, clk, "posedge", anchor)
             neg == previous_single_edge_sample(wave, clk, "negedge", anchor)
         IN  IF neg = None \/ (pos # None /\ pos >= neg) THEN pos ELSE neg

find_first_clock_sample(wave, clk, edge, begin, end) ==
    LET t == find_next_sample(wave, clk, edge, begin)
    IN  IF t = None \/ t > end THEN None ELSE t

\* The sample times of a window, each search starting after the last find.
for_each_sample_time(wave, clk, edge, begin, end) ==
    LET from[k \in 0 .. end + 1] ==
            IF k > end THEN <<>>
            ELSE LET t == find_next_sample(wave, clk, edge, k)
                 IN  IF t = None \/ t > end THEN <<>>
                     ELSE <<t>> \o from[t + 1]
    IN  from[begin]

\* An edge exactly at a time: the clock changes there and its value before
\* was different.
read_edge_at(wave, clk, time) ==
    LET mine == SelectSeq(wave, LAMBDA c : c.sig = clk)
        at == {i \in DOMAIN mine : i > 1 /\ mine[i].time = time}
    IN  IF at = {} THEN "none"
        ELSE LET i == CHOOSE i \in at : TRUE
             IN  edge_kind(truthy_one(mine[i - 1].val), truthy_one(mine[i].val))
is_target_edge_at(wave, clk, edge, time) ==
    LET actual == read_edge_at(wave, clk, time)
    IN  actual # "none" /\ edge \in {"dual", actual}

Cell(status, val) == [status |-> status, val |-> val]
read_current(wave, sig, time) == Cell("ok", value_at(wave, sig, time))
read_before(wave, sig, time) ==
    IF Before(wave, sig, time) = <<>> THEN Cell("missing_value", "")
    ELSE Cell("ok", Last(Before(wave, sig, time)).val)

\* A point query: the sampled values at the clock edges around a time, and
\* the value at the time itself.
sample(wave, spec, clk, sig, time) ==
    LET prev == find_previous_sample(wave, clk, spec.edge, time)
        next == find_next_sample(wave, clk, spec.edge, time + 1)
        read(t) == IF sample_before_edge(spec) THEN read_before(wave, sig, t)
                   ELSE read_current(wave, sig, t)
        hit == is_target_edge_at(wave, clk, spec.edge, time)
    IN  [prev |-> prev, next |-> next, hit |-> hit,
         before |-> IF prev = None THEN Cell("missing_edge", "") ELSE read(prev),
         middle |-> IF hit /\ sample_before_edge(spec) THEN read_before(wave, sig, time)
                    ELSE read_current(wave, sig, time),
         after |-> IF next = None THEN Cell("missing_edge", "") ELSE read(next)]

----------------------------------------------------------------------------
(* What sampling promises.                                                 *)

\* The aliases whose value a scan follows: the first of each signal that is
\* not the clock.
Followed(aliases, clk) ==
    {k \in DOMAIN aliases : /\ aliases[k] # clk
                            /\ \A j \in 1 .. k - 1 : aliases[j] # aliases[k]}

\* A scan of a window sees the samples of the full scan that lie in it, and
\* the same values for the aliases it follows, so there a query does not
\* depend on the range its data was scanned for.  The others, a repeated
\* alias and the clock, show the value from before the window.  The
\* expression scanner follows all of its aliases.
WindowIndependent(wave, spec, clk, aliases, end) ==
    \A b \in 1 .. end : \A e \in b .. end :
        LET inside(q) == SelectSeq(q, LAMBDA x : x.time >= b /\ x.time <= e)
            full == inside(scan(wave, spec, clk, aliases, 0, end, -1).samples)
            window == scan(wave, spec, clk, aliases, b, e, -1).samples
        IN  /\ Len(window) = Len(full)
            /\ \A i \in DOMAIN window :
                 /\ window[i].time = full[i].time /\ window[i].edge = full[i].edge
                 /\ \A k \in DOMAIN aliases :
                      window[i].vals[k] = IF k \in Followed(aliases, clk) THEN full[i].vals[k]
                                          ELSE value_at(wave, aliases[k], b - 1)
            /\ expression_scan(wave, spec, {clk}, aliases, b, e, -1).samples
               = inside(expression_scan(wave, spec, {clk}, aliases, 0, end, -1).samples)

\* The resolver finds the times the scanner samples, the point query reads
\* the values it sampled there for the aliases it follows, and a budget of n
\* samples keeps the first n and says whether there were more.
ResolverAgrees(wave, spec, clk, aliases, end) ==
    LET q == scan(wave, spec, clk, aliases, 0, end, -1).samples
        times == {q[i].time : i \in DOMAIN q}
    IN  /\ for_each_sample_time(wave, clk, spec.edge, 0, end)
              = [i \in DOMAIN q |-> q[i].time]
        /\ \A b \in 0 .. end : \A e \in b .. end :
              LET inside == {x \in times : x >= b /\ x <= e}
                  first == find_first_clock_sample(wave, clk, spec.edge, b, e)
              IN  IF inside = {} THEN first = None
                  ELSE first \in inside /\ \A x \in inside : first <= x
        /\ \A time \in 0 .. end : \A k \in Followed(aliases, clk) :
              LET p == sample(wave, spec, clk, aliases[k], time) IN
              /\ p.hit = (time \in times)
              /\ (p.prev # None) => /\ p.prev \in times /\ p.prev < time
                                    /\ \A i \in DOMAIN q : q[i].time = p.prev =>
                                          p.before = Cell("ok", q[i].vals[k])
              /\ (p.next # None) => /\ p.next \in times /\ p.next > time
                                    /\ \A i \in DOMAIN q : q[i].time = p.next =>
                                          p.after = Cell("ok", q[i].vals[k])
              /\ {x \in times : x < time /\ x > p.prev} = {}
              /\ p.hit => \A i \in DOMAIN q : q[i].time = time =>
                            p.middle = Cell("ok", q[i].vals[k])
        /\ \A n \in 0 .. 2 :
              LET s == scan(wave, spec, clk, aliases, 0, end, n) IN
              /\ s.samples = SubSeq(q, 1, IF n < Len(q) THEN n ELSE Len(q))
              /\ s.truncated = (Len(q) > n)
=============================================================================
