--------------------------- MODULE EventAnalysis ---------------------------
(***************************************************************************)
(* event.find and event.export: a condition over sampled signals and       *)
(* slices of them, evaluated at every sample of a clock.                   *)
(*                                                                         *)
(* A sample is [time, reset, v] where v gives the bits of every alias.     *)
(* The condition is a sequence of tokens.  It must be accepted by the      *)
(* expression parser of FourState, which names its aliases, and is then    *)
(* evaluated by the event analyzer's own parser, which knows fewer         *)
(* operators and normalises its operands as text.                          *)
(***************************************************************************)
EXTENDS Integers, Sequences, FiniteSets, SequencesExt
LOCAL F == INSTANCE FourState

----------------------------------------------------------------------------
(* Operands.  A value and a literal are texts; "text" is what is left of   *)
(* it when only the characters 0, 1, x and z are kept, "bits" what it      *)
(* denotes (empty when the conversion fails).                              *)

tri_not(v) == CASE v = "True" -> "False" [] v = "False" -> "True" [] OTHER -> "Unknown"
tri_and(l, r) == CASE l = "False" \/ r = "False" -> "False"
                   [] l = "True" /\ r = "True" -> "True"
                   [] OTHER -> "Unknown"
tri_or(l, r) == CASE l = "True" \/ r = "True" -> "True"
                  [] l = "False" /\ r = "False" -> "False"
                  [] OTHER -> "Unknown"
Tri(b) == IF b THEN "True" ELSE "False"

DigitChar == (-2 :> "z") @@ (-1 :> "x") @@ (0 :> "0") @@ (1 :> "1")
bits_only(digits) == LET kept == SelectSeq(digits, LAMBDA d : d \in DOMAIN DigitChar)
                     IN  [i \in DOMAIN kept |-> DigitChar[kept[i]]]
DropZeros(bits) == LET keep == {i \in DOMAIN bits : bits[i] # "0"}
                   IN  IF keep = {} THEN <<"0">>
                       ELSE SubSeq(bits, CHOOSE i \in keep : \A j \in keep : i <= j, Len(bits))
hex_to_bits(digits) == IF \E i \in DOMAIN digits : digits[i] < 0 THEN <<>>
                       ELSE DropZeros(F!hex_to_bits(digits))
dec_to_bits(digits) == IF \E i \in DOMAIN digits : digits[i] \notin 0 .. 9 THEN <<>>
                       ELSE F!dec_to_bits(FoldLeft(LAMBDA a, d : 10 * a + d, 0, digits))
literal_to_bits(lit) == CASE lit.radix = "b" -> bits_only(lit.digits)
                          [] lit.radix = "h" -> hex_to_bits(lit.digits)
                          [] OTHER -> dec_to_bits(lit.digits)

\* "pre" holds the characters 0, 1, x of what stands before the digits: the
\* 1 of 1'b0, the 0x of a C literal; a bare 'b, 'h or 'd is cut off.
literal_operand(lit) ==
    [text |-> lit.pre \o bits_only(lit.digits),
     bits |-> LET b == literal_to_bits(lit) IN
              IF b = <<>> THEN lit.pre \o bits_only(lit.digits) ELSE b]
signal_operand(bits) == [text |-> bits, bits |-> bits]

EventLiterals ==
    [ i0 |-> [pre |-> <<>>, radix |-> "d", digits |-> <<0>>],
      i1 |-> [pre |-> <<"1">>, radix |-> "b", digits |-> <<1>>],
      i2 |-> [pre |-> <<>>, radix |-> "h", digits |-> <<2>>],
      i9 |-> [pre |-> <<>>, radix |-> "d", digits |-> <<9>>],
      lx |-> [pre |-> <<>>, radix |-> "b", digits |-> <<-1>>] ]

truth_value(o) == CASE o.text = <<>> \/ F!has_xz_bits(o.text) -> "Unknown"
                    [] OTHER -> Tri(\E i \in DOMAIN o.text : o.text[i] = "1")

\* Leading zeros are dropped and the result is padded to the width of the
\* wider text, not of the wider value.
normalize_for_compare(o, min_width) ==
    LET bits == DropZeros(o.bits)
    IN  IF Len(bits) < min_width THEN F!Rep("0", min_width - Len(bits)) \o bits ELSE bits
compare_width(l, r) == IF Len(l.text) > Len(r.text) THEN Len(l.text) ELSE Len(r.text)

compare(l, r) ==
    LET w == compare_width(l, r)
        a == normalize_for_compare(l, w)
        b == normalize_for_compare(r, w)
    IN  IF F!has_xz_bits(a) \/ F!has_xz_bits(b) THEN "Unknown" ELSE Tri(a = b)

\* std::string::compare of two strings of 0 and 1.
string_compare(a, b) ==
    LET n == IF Len(a) < Len(b) THEN Len(a) ELSE Len(b)
        diff == {i \in 1 .. n : a[i] # b[i]}
    IN  IF diff = {} THEN Len(a) - Len(b)
        ELSE LET i == CHOOSE i \in diff : \A j \in diff : i <= j
             IN  IF a[i] = "0" THEN -1 ELSE 1
compare_order(l, r, op) ==
    LET w == compare_width(l, r)
        a == normalize_for_compare(l, w)
        b == normalize_for_compare(r, w)
        c == string_compare(a, b)
    IN  IF F!has_xz_bits(a) \/ F!has_xz_bits(b) THEN "Unknown"
        ELSE Tri(CASE op = ">=" -> c >= 0 [] op = "<=" -> c <= 0
                   [] op = ">" -> c > 0 [] OTHER -> c < 0)

\* <<>> when the slice does not lie within the value.
extract_slice_value(bits, left, right) ==
    LET hi == IF left > right THEN left ELSE right
        lo == IF left > right THEN right ELSE left
    IN  IF lo < 0 \/ hi >= Len(bits) THEN <<>>
        ELSE SubSeq(bits, Len(bits) - hi, Len(bits) - lo)

----------------------------------------------------------------------------
(* The parser, which evaluates as it goes.                                 *)

RelOps == {"==", "=", "!=", ">=", "<=", ">", "<"}
Ev(v, pos) == [ok |-> TRUE, v |-> v, pos |-> pos]
EvError == [ok |-> FALSE, v |-> "False", pos |-> 0]

\* A literal or a known alias; anything else is an error.
parse_atom(toks, pos, values) ==
    LET t == F!At(toks, pos) IN
    CASE t \in DOMAIN EventLiterals -> Ev(literal_operand(EventLiterals[t]), pos + 1)
      [] t \in DOMAIN values -> Ev(signal_operand(values[t]), pos + 1)
      [] OTHER -> EvError
parse_relation(toks, pos, values) ==
    LET l == parse_atom(toks, pos, values)
        op == F!At(toks, l.pos)
        r == parse_atom(toks, l.pos + 1, values)
    IN  CASE ~l.ok -> EvError
          [] l.ok /\ op \notin RelOps -> Ev(truth_value(l.v), l.pos)
          [] l.ok /\ op \in RelOps /\ ~r.ok -> EvError
          [] OTHER -> Ev(CASE op \in {"==", "="} -> compare(l.v, r.v)
                           [] op = "!=" -> tri_not(compare(l.v, r.v))
                           [] OTHER -> compare_order(l.v, r.v, op), r.pos)

RECURSIVE parse_or(_, _, _), parse_and(_, _, _), parse_unary(_, _, _)
parse_primary(toks, pos, values) ==
    LET in == parse_or(toks, pos + 1, values) IN
    CASE F!At(toks, pos) # "(" -> parse_relation(toks, pos, values)
      [] F!At(toks, pos) = "(" /\ in.ok /\ F!At(toks, in.pos) = ")" -> Ev(in.v, in.pos + 1)
      [] OTHER -> EvError
parse_unary(toks, pos, values) ==
    IF F!At(toks, pos) # "!" THEN parse_primary(toks, pos, values)
    ELSE LET in == parse_unary(toks, pos + 1, values)
         IN  IF in.ok THEN Ev(tri_not(in.v), in.pos) ELSE EvError
parse_and(toks, lhs, values) ==
    IF ~lhs.ok \/ F!At(toks, lhs.pos) # "&&" THEN lhs
    ELSE LET r == parse_unary(toks, lhs.pos + 1, values)
         IN  IF r.ok THEN parse_and(toks, Ev(tri_and(lhs.v, r.v), r.pos), values) ELSE EvError
or_rest(toks, lhs, values, next) ==
    IF next.ok THEN Ev(tri_or(lhs.v, next.v), next.pos) ELSE EvError
parse_or(toks, pos, values) ==
    LET operand(p) == parse_and(toks, parse_unary(toks, p, values), values)
        RECURSIVE rest(_)
        rest(lhs) == IF ~lhs.ok \/ F!At(toks, lhs.pos) # "||" THEN lhs
                     ELSE rest(or_rest(toks, lhs, values, operand(lhs.pos + 1)))
    IN  rest(operand(pos))
eval(toks, values) == LET e == parse_or(toks, 1, values)
                      IN  IF e.ok /\ e.pos = Len(toks) + 1 THEN e ELSE EvError

----------------------------------------------------------------------------
(* The analyzer.  A configuration has the clock, the paths of the aliases  *)
(* and the slices called fields; wave gives the kind of every path:        *)
(* "leaf", "aggregate" or nothing.                                         *)

\* The first error of a chain of checks; "" is no error.
FirstError(errors) == LET bad == SelectSeq(errors, LAMBDA e : e # "")
                      IN  IF bad = <<>> THEN "" ELSE Head(bad)
Refuse(condition, error) == IF condition THEN error ELSE ""

Kind(wave, path) == IF path \in DOMAIN wave THEN wave[path] ELSE "missing"
PathError(wave, path) == CASE Kind(wave, path) = "missing" -> "SIGNAL_NOT_FOUND"
                           [] Kind(wave, path) = "aggregate" -> "SIGNAL_NOT_LEAF"
                           [] OTHER -> ""
validate_config(config, wave) ==
    LET bad == {a \in DOMAIN config.signals : PathError(wave, config.signals[a]) # ""}
        field_ok(f) == /\ config.fields[f].alias \in DOMAIN config.signals
                       /\ config.fields[f].left >= 0 /\ config.fields[f].right >= 0
    IN  FirstError(<<Refuse(config.clock = "" \/ DOMAIN config.signals = {}, "EVENT_FAILED"),
                     PathError(wave, config.clock),
                     IF config.has_reset THEN PathError(wave, config.reset) ELSE "",
                     IF bad = {} THEN ""
                     ELSE PathError(wave, config.signals[CHOOSE a \in bad : TRUE]),
                     Refuse(\E f \in DOMAIN config.fields : ~field_ok(f), "EVENT_FAILED")>>)

\* An unknown reset counts as active.
reset_is_active(config, value) ==
    IF config.polarity = "active_low" THEN value # "1" ELSE value # "0"

EmptyScan == [error |-> "", done |-> FALSE, samples |-> 0, truncated |-> FALSE, matched |-> 0,
              first |-> 0, last |-> 0, records |-> <<>>]
fields_of(config, v) ==
    [f \in DOMAIN config.fields |->
        extract_slice_value(v[config.fields[f].alias], config.fields[f].left,
                            config.fields[f].right)]

\* Mutated: of the matches it keeps the first one instead of the last.
process_edge_first(acc, s, config, query) ==
    LET fields == fields_of(config, s.v)
        e == eval(query.toks, fields @@ s.v)
        rec == [time |-> s.time, signals |-> s.v, fields |-> fields]
    IN  IF \/ s.time < query.begin \/ s.time > query.end
           \/ config.has_reset /\ reset_is_active(config, s.reset) THEN acc
        ELSE IF (\E f \in DOMAIN fields : fields[f] = <<>>) \/ ~e.ok
        THEN [acc EXCEPT !.error = "EVENT_FAILED"]
        ELSE IF e.v # "True" THEN acc
        ELSE    [acc EXCEPT !.matched = @ + 1, !.last = s.time,
                            !.first = IF acc.matched = 0 THEN s.time ELSE @,
                            !.records = IF query.retain_last_only /\ @ # <<>> THEN @
                                        ELSE Append(@, rec)]

process_edge(acc, s, config, query) ==
    LET fields == fields_of(config, s.v)
        e == eval(query.toks, fields @@ s.v)
        rec == [time |-> s.time, signals |-> s.v, fields |-> fields]
    IN  IF \/ s.time < query.begin \/ s.time > query.end
           \/ config.has_reset /\ reset_is_active(config, s.reset) THEN acc
        ELSE IF (\E f \in DOMAIN fields : fields[f] = <<>>) \/ ~e.ok
        THEN [acc EXCEPT !.error = "EVENT_FAILED"]
        ELSE IF e.v # "True" THEN acc
        ELSE    [acc EXCEPT !.matched = @ + 1, !.last = s.time,
                            !.first = IF acc.matched = 0 THEN s.time ELSE @,
                            !.records = IF query.retain_last_only /\ @ # <<>> THEN <<rec>>
                                        ELSE Append(@, rec)]

\* One sample of the scan: the budget is checked when it is exceeded, the
\* scan stops after an error and once the limit is reached.
scan_sample(acc, s, config, query) ==
    LET n == acc.samples + 1
        next == process_edge([acc EXCEPT !.samples = n], s, config, query)
    IN  IF acc.done THEN acc
        ELSE IF query.max_samples >= 0 /\ n > query.max_samples
        THEN [acc EXCEPT !.samples = n, !.truncated = TRUE, !.done = TRUE]
        ELSE [next EXCEPT !.done = \/ next.error # ""
                                   \/ query.limit > 0 /\ Len(next.records) >= query.limit]
analyze(raw, config, query, wave) ==
    LET window == SelectSeq(raw, LAMBDA s : s.time >= query.begin /\ s.time <= query.end)
        zero == [a \in DOMAIN config.signals \cup DOMAIN config.fields |-> <<"0">>]
        error == validate_config(config, wave)
    IN  IF error # "" THEN [EmptyScan EXCEPT !.error = error]
        ELSE IF ~eval(query.toks, zero).ok THEN [EmptyScan EXCEPT !.error = "EVENT_FAILED"]
        ELSE FoldLeft(LAMBDA acc, s : scan_sample(acc, s, config, query), EmptyScan, window)

----------------------------------------------------------------------------
(* The two actions.  The arguments name a stored configuration or give one *)
(* inline.                                                                 *)

\* The legacy sampling fields are refused; an inline configuration needs a
\* clock and signals and may have a reset; edges default to negedge.
inline_config_error(args) ==
    FirstError(<<Refuse(args.legacy, "INVALID_ARG"),
                 Refuse(args.config.clock = "", "MISSING_FIELD"),
                 Refuse(args.config.has_reset
                        /\ args.config.polarity \notin {"active_low", "active_high"}, "INVALID_ARG"),
                 Refuse(args.edge \notin {"posedge", "negedge", "dual"}, "INVALID_ENUM"),
                 Refuse(args.sample_point \notin {"none", "before", "after"}, "INVALID_ENUM"),
                 Refuse(DOMAIN args.config.signals = {}, "MISSING_FIELD"),
                 Refuse("" \in Range(args.config.signals), "INVALID_ARG")>>)
load_config(args, stored) ==
    IF args.name # ""
    THEN IF args.name \in DOMAIN stored
         THEN [error |-> "", config |-> stored[args.name]]
         ELSE [error |-> "CONFIG_NOT_FOUND", config |-> args.config]
    ELSE [error |-> inline_config_error(args), config |-> args.config]

\* The operands must be aliases; a name with a dot is a signal path.
validate_expr_aliases(toks, dotted) ==
    Refuse(~F!parse(toks).ok \/ Range(toks) \cap dotted # {}, "EXPRESSION_ALIAS")

\* A missing time bound is the whole waveform.
base_query(args) ==
    [toks |-> args.toks, begin |-> args.begin, end |-> args.end,
     max_samples |-> args.max_samples, limit |-> -1, retain_last_only |-> FALSE]

NoAnswer(error) == [error |-> error, events |-> <<>>, total |-> 0, returned |-> 0,
                    complete |-> FALSE, truncated |-> FALSE, scopes |-> <<>>]
Scopes(pairs) == LET on == SelectSeq(pairs, LAMBDA p : p[1]) IN [i \in DOMAIN on |-> on[i][2]]
Prefix(seq, n) == SubSeq(seq, 1, IF Len(seq) < n THEN Len(seq) ELSE n)
\* A line_limit of Absent was not given; a negative one is no limit.
Absent == -99
DefaultLimit == 1000
Shown(records, limit) == IF limit = Absent THEN Prefix(records, DefaultLimit)
                         ELSE IF limit < 0 THEN records ELSE Prefix(records, limit)

event_find(raw, args, stored, wave, dotted) ==
    LET c == load_config(args, stored)
        q == [base_query(args) EXCEPT !.limit = IF args.mode = "first" THEN 1 ELSE -1,
                                      !.retain_last_only = args.mode = "last"]
        a == analyze(raw, c.config, q, wave)
        events == IF args.mode = "all" THEN Shown(a.records, args.line_limit) ELSE a.records
        truncated == args.mode = "all" /\ Len(events) < a.matched
        error == FirstError(<<c.error, validate_expr_aliases(args.toks, dotted),
                              Refuse(args.mode \notin {"first", "last", "all"}, "INVALID_ENUM"),
                              Refuse(args.mode # "all" /\ args.line_limit # Absent,
                                     "INVALID_ENUM"), a.error>>)
    IN  IF error # "" THEN NoAnswer(error)
        ELSE [error |-> "", events |-> events, total |-> a.matched, returned |-> Len(events),
              complete |-> ~a.truncated, truncated |-> truncated,
              scopes |-> Scopes(<< <<a.truncated, "analysis_samples">>,
                                   <<truncated, "response_events">> >>)]

\* The value of a group_by name: a field before a signal.
group_key(rec, names) ==
    [i \in DOMAIN names |-> IF names[i] \in DOMAIN rec.fields THEN rec.fields[names[i]]
                            ELSE rec.signals[names[i]]]
aggregate_error(args, config) ==
    IF ~args.has_aggregate THEN ""
    ELSE FirstError(<<Refuse(args.has_group_by /\ args.group_by = <<>>, "INVALID_ARG"),
                      Refuse(~(Range(args.group_by) \subseteq
                               DOMAIN config.fields \cup DOMAIN config.signals), "INVALID_ARG"),
                      Refuse(~args.events /\ args.line_limit # Absent, "INVALID_ARG")>>)
groups_of(records, names) ==
    LET keys == {group_key(records[i], names) : i \in DOMAIN records}
    IN  IF names = <<>> THEN <<>>
        ELSE [k \in keys |-> Cardinality({i \in DOMAIN records :
                                             group_key(records[i], names) = k})]
output_error(args) ==
    FirstError(<<Refuse(args.path # "" /\ args.line_limit # Absent, "INVALID_ARG"),
                 Refuse(args.has_format /\ args.path = "", "INVALID_ARG"),
                 Refuse(args.format # "json", "INVALID_ENUM")>>)

\* An export asks for one event more than its budget, to know whether the
\* budget cut anything.
export_records(raw, args, config, wave) ==
    LET a == analyze(raw, config,
                     [base_query(args) EXCEPT !.limit =
                         IF args.max_events > 0 THEN args.max_events + 1 ELSE -1], wave)
        exhausted == args.max_events > 0 /\ Len(a.records) > args.max_events
    IN  [error |-> a.error, samples_cut |-> a.truncated, events_cut |-> exhausted,
         records |-> IF exhausted THEN SubSeq(a.records, 1, args.max_events) ELSE a.records]

\* A file gets every event, the answer a preview.
event_export(raw, args, stored, wave, dotted, write_ok) ==
    LET c == load_config(args, stored)
        a == export_records(raw, args, c.config, wave)
        records == a.records
        preview == Shown(records, args.line_limit)
        truncated == Len(preview) < Len(records)
        include == ~args.has_aggregate \/ args.events
        error == FirstError(<<c.error, validate_expr_aliases(args.toks, dotted), a.error,
                              aggregate_error(args, c.config), output_error(args),
                              Refuse(args.path # "" /\ ~write_ok, "EXPORT_FAILED")>>)
    IN  IF error # "" THEN NoAnswer(error)
        ELSE [error |-> "", total |-> Len(records), returned |-> Len(preview),
              complete |-> ~a.events_cut /\ ~a.samples_cut, truncated |-> truncated,
              scopes |-> Scopes(<< <<a.events_cut, "analysis_events">>,
                                   <<a.samples_cut, "analysis_samples">>,
                                   <<truncated, "response_events">> >>),
              groups |-> IF args.has_aggregate THEN groups_of(records, args.group_by) ELSE <<>>,
              file |-> IF args.path # "" /\ include THEN records ELSE <<>>,
              events |-> IF include /\ args.path = "" THEN preview ELSE <<>>]

----------------------------------------------------------------------------
(* What the analysis promises.                                             *)

\* All x and z bits of a sample replaced in every way.
SampleResolutions(v) ==
    {r \in [DOMAIN v -> UNION {F!Resolutions(v[a]) : a \in DOMAIN v}] :
        \A a \in DOMAIN v : r[a] \in F!Resolutions(v[a])}

\* The events are exactly the samples inside the window, outside reset, at
\* which the condition is certain: it holds whatever the unknown bits are,
\* and no sample without unknown bits at which it holds is missed.
\* The modes agree: first and last are the ends of the list that all gives.
EventsExact(raw, args, stored, wave, dotted) ==
    LET ask(m) == event_find(raw, [args EXCEPT !.mode = m, !.line_limit = Absent],
                             stored, wave, dotted)
        all == ask("all")
        config == load_config(args, stored).config
        times == {all.events[i].time : i \in DOMAIN all.events}
        value(r) == eval(args.toks, fields_of(config, r) @@ r).v
    IN  all.error = "" /\ args.max_samples < 0 =>
        /\ \A i \in DOMAIN raw :
              LET s == raw[i]
                  inside == /\ args.begin <= s.time /\ s.time <= args.end
                            /\ ~(config.has_reset /\ reset_is_active(config, s.reset)) IN
              /\ s.time \in times =>
                    inside /\ \A r \in SampleResolutions(s.v) : value(r) = "True"
              /\ inside /\ s.time \notin times =>
                    SampleResolutions(s.v) # {s.v} \/ value(s.v) # "True"
        /\ all.complete /\ ~all.truncated /\ all.total = Cardinality(times)
        /\ IF all.events = <<>> THEN ask("first").events = <<>> /\ ask("last").events = <<>>
           ELSE /\ ask("first").events = <<Head(all.events)>>
                /\ ask("last").events = <<Last(all.events)>>
                /\ ask("last").total = all.total

\* An export with budgets accounts for everything: the rows are a prefix of
\* the unlimited list, the answer is called complete only when nothing was
\* cut by a budget, every cut has a scope, and the groups count every row.
ExportAccounts(raw, args, stored, wave, dotted) ==
    LET e == event_export(raw, args, stored, wave, dotted, TRUE)
        full == event_export(raw, [args EXCEPT !.max_events = 0, !.max_samples = -1,
                                               !.line_limit = -1, !.events = TRUE, !.path = "",
                                               !.has_format = FALSE],
                             stored, wave, dotted, TRUE)
    IN  e.error = "" =>
        /\ e.events = SubSeq(full.events, 1, Len(e.events))
        /\ e.file = SubSeq(full.events, 1, Len(e.file))
        /\ e.complete => e.total = full.total
        /\ e.complete <=> {"analysis_events", "analysis_samples"} \cap Range(e.scopes) = {}
        /\ args.path # "" /\ (~args.has_aggregate \/ args.events) => Len(e.file) = e.total
        /\ args.max_events > 0 => e.total <= args.max_events
        /\ args.max_events > 0 /\ args.max_samples < 0 =>
              (e.complete <=> full.total <= args.max_events)
        /\ args.has_aggregate /\ args.group_by # <<>> =>
              MapThenSumSet(LAMBDA k : e.groups[k], DOMAIN e.groups) = e.total

\* An order comparison of known operands is the comparison of their numbers
\* when one text is as wide as either value: a signal against a number that
\* fits it.  The strings are padded to the wider text only, so a number that
\* does not fit is compared digit by digit from the left.
OrderNumeric(l, r) ==
    (\A o \in {l, r} : ~F!has_xz_bits(o.bits) /\ Len(DropZeros(o.bits)) <= compare_width(l, r)) =>
    \A op \in {">=", "<=", ">", "<"} :
        compare_order(l, r, op) = Tri(F!compare(op, F!ToNat(l.bits), F!ToNat(r.bits)))
=============================================================================
