----------------------------- MODULE MCAnalysis -----------------------------
(***************************************************************************)
(* Instances of the analyzers and of the actions built on them.  A state   *)
(* is one input: mode says which analyzer it is for, and data is its raw   *)
(* samples, value changes, transactions or expression, grown one element   *)
(* at a time.  Ask is the moment requests are made about an input; the     *)
(* properties compare, at that step, what the different routes through the *)
(* code answer with each other and with a definition that looks at the     *)
(* whole input at once.                                                    *)
(***************************************************************************)
EXTENDS Integers, Sequences, FiniteSets

CONSTANTS Modes,       \* the analyzers to explore
          MaxSamples,  \* samples of an input
          MaxTime,     \* last instant of a waveform
          MaxTxns      \* transactions of a recorded bus

VARIABLES mode, data, asked
vars == <<mode, data, asked>>

C == INSTANCE ClockSampling
A == INSTANCE ApbAnalysis
S == INSTANCE StreamActions
F == INSTANCE FourState
E == INSTANCE EventAnalysis
G == INSTANCE SignalAnalysis
Q == INSTANCE ProtocolQueries
T == INSTANCE TraceSearch

B == {"0", "1"}
B3 == {<<"0">>, <<"1">>, <<"x">>}

----------------------------------------------------------------------------
(* Streams: a configuration by name and the samples that exercise it.      *)

StreamBase == [rdy |-> FALSE, bp |-> FALSE, reset |-> FALSE, packet |-> FALSE,
               sop |-> FALSE, eop |-> FALSE, channel |-> FALSE, valid |-> "every_beat",
               interleaving |-> FALSE, stable |-> FALSE, data |-> TRUE]
PacketBase == [StreamBase EXCEPT !.packet = TRUE, !.sop = TRUE, !.eop = TRUE]
StreamCfg == [flow |-> [StreamBase EXCEPT !.rdy = TRUE, !.bp = TRUE, !.reset = TRUE],
              packet |-> [PacketBase EXCEPT !.stable = TRUE],
              interleaved |-> [PacketBase EXCEPT !.channel = TRUE, !.interleaving = TRUE],
              late |-> [PacketBase EXCEPT !.channel = TRUE, !.valid = "eop"]]
StreamSample(m) ==
    [reset : IF m = "flow" THEN B ELSE {"0"}, vld : {"1"},
     rdy : IF m = "flow" THEN {"0", "1", "x"} ELSE {"1"},
     bp : IF m = "flow" THEN {"0", "x"} ELSE {"0"},
     sop : IF m = "flow" THEN {"0"} ELSE B, eop : IF m = "flow" THEN {"0"} ELSE B,
     data : {"1"}, stable : IF m = "packet" THEN B ELSE {"0"},
     chan : IF m \in {"packet", "flow"} THEN {"0"} ELSE B]
IdleSample == [reset |-> "0", vld |-> "x", rdy |-> "0", bp |-> "1", sop |-> "1", eop |-> "1",
               data |-> "0", stable |-> "0", chan |-> "x"]
Unknown == [reset |-> "0", vld |-> "1", rdy |-> "1", bp |-> "0", sop |-> "1", eop |-> "1",
            data |-> "x", stable |-> "0", chan |-> "0"]
Timed(s, t) == [k \in DOMAIN s \cup {"time"} |-> IF k = "time" THEN t ELSE s[k]]

(* APB: requests with and without an unknown address bit, and reset.       *)
ApbSample == [reset : {"1"}, psel : {"1"}, penable : B, pwrite : B, pready : B,
              pslverr : {"0"}, addr : {<<1>>, <<-1, 1>>}, pwdata : {"w"}, prdata : {"r"}]
             \cup [reset : {"x"}, psel : {"1"}, penable : {"1"}, pwrite : {"1"}, pready : {"1"},
                   pslverr : {"0"}, addr : {<<1>>}, pwdata : {"w"}, prdata : {"r"}]

(* Waveforms: the changes of one instant, of a clock and of a data signal, *)
(* in either order.                                                        *)
Change(t, g, v) == [time |-> t, sig |-> g, val |-> v]
Before(g) == C!Last(SelectSeq(data, LAMBDA c : c.sig = g)).val
Instants(t) ==
    LET cs == {<<Change(t, "clk", v)>> : v \in {"0", "1", "x"} \ {Before("clk")}}
        ds == {<<Change(t, "d", v)>> : v \in B \ {Before("d")}}
    IN  cs \cup ds \cup {c \o d : c \in cs, d \in ds} \cup {d \o c : c \in cs, d \in ds}

(* Signals and events: the values of the named signals at a sample.        *)
SignalValues(m) ==
    CASE m = "window" -> [a : B3, b : B3]
      [] m = "bit" -> [sig : B3]
      [] m = "bus" -> [sig : {<<"0", "1">>, <<"1", "0">>, <<"x", "0">>}]
      [] m = "counter" -> [en : B3, lo : {<<"0">>, <<"1">>},
                           hi : {<<"0", "0">>, <<"0", "1">>, <<"z", "1">>}]
      [] m = "shake" -> [valid : B3, ready : B3, data : {<<"0">>, <<"1">>}]
      [] OTHER -> {}
EventValues == [a : {<<"0", "1">>, <<"1", "1">>, <<"x", "1">>}, b : {<<"0">>, <<"1">>, <<"z">>}]

(* Expressions.                                                            *)
Sig(s) == [kind |-> "Signal", text |-> s]
Leaf == {Sig("a"), Sig("b"), [kind |-> "Literal", text |-> "i2"],
         [kind |-> "Literal", text |-> "lx"]}
Small == Leaf \cup [kind : {"Unary"}, op : {"!", "~"}, a : Leaf]
         \cup [kind : {"Select"}, left : {0, 1}, right : {0, 1}, a : {Sig("a")}]
         \cup [kind : {"Concat"}, items : Leaf \X Leaf]
Ops == {"||", "&&", "|", "^", "&", "==", ">", "<="}
Flat == [kind : {"Binary"}, op : Ops, a : Leaf, b : Leaf]
Trees == Small \cup Flat
         \cup [kind : {"Binary"}, op : Ops, a : Flat, b : {Sig("b")}]
         \cup [kind : {"Binary"}, op : Ops, b : Flat, a : {Sig("a")}]

(* Transactions in the order of their addresses; responses may overtake.   *)
Addrs == {<<"0", "0", "0", "1">>, <<"x", "0", "1", "1">>}
Txn(n, w, a, r, addr, id) ==
    [seq |-> n, is_write |-> w, addr_time |-> a, resp_time |-> r, addr |-> addr, id |-> id,
     beats |-> IF w THEN <<a>> ELSE <<r>>]

(* Designs: how a signal is driven from the other two, and its changes.    *)
NSignals == 3
Other(s, n) == ((s + n - 1) % NSignals) + 1
Statement(k, sigs, direct, active, line) ==
    [kind |-> k, sigs |-> sigs, direct |-> direct, active |-> active, line |-> line,
     dir |-> "input"]
Known == [handle |-> TRUE, alias |-> "", aliases |-> <<>>, input |-> FALSE, target |-> T!None,
          stmts |-> <<>>, changes |-> <<>>]
Always == 0 .. 2
Drivers(s) ==
    LET a == Other(s, 1)
        b == Other(s, 2)
        copy(x, active, n) == Statement("assignment", <<x>>, x, active, n)
        plain == {[Known EXCEPT !.stmts = x] : x \in
                    {<<>>, <<copy(a, Always, 1)>>,
                     <<Statement("assignment", <<a, b>>, T!None, Always, 1)>>,
                     <<Statement("if", <<a>>, T!None, Always, 1), copy(b, {}, 2)>>}}
        others == {[Known EXCEPT !.stmts = x] : x \in
                    {<<copy(a, {0}, 1), copy(b, {1, 2}, 2)>>,
                     <<Statement("if", <<b>>, T!None, Always, 1), copy(a, Always, 2)>>,
                     <<copy(a, Always, 1), copy(b, Always, 2)>>,
                     <<Statement("force", <<>>, T!None, Always, 1)>>}}
        port == [Known EXCEPT !.input = TRUE, !.target = b]
        wide == Statement("port_boundary", <<a, b>>, T!None, Always, 1)
    IN  plain \cup {[Known EXCEPT !.input = TRUE]}
        \cup IF s = NSignals THEN {} ELSE
               others \cup {port, [Known EXCEPT !.input = TRUE, !.stmts = <<wide>>], [Known EXCEPT !.handle = FALSE],
                            [Known EXCEPT !.alias = "ref_obj", !.aliases = <<a>>],
                            [port EXCEPT !.stmts = <<Statement("port_boundary", <<b>>, T!None,
                                                               Always, 1)>>]}
At(t, v) == [t |-> t, v |-> v]
DesignWaves ==
    <<{<<At(0, "0"), At(1, "x")>>, <<At(0, "x"), At(2, "xx")>>},
      {<<At(0, "x"), At(1, "0"), At(2, "x")>>, <<At(0, "x")>>},
      {<<At(0, "x"), At(1, "xx")>>, <<>>}>>

----------------------------------------------------------------------------
Init == /\ mode \in Modes
        /\ data = IF mode = "clock" THEN <<Change(0, "clk", "0"), Change(0, "d", "0")>>
                  ELSE <<>>
        /\ asked = FALSE
Extend(q) == data' = data \o q /\ UNCHANGED <<mode, asked>>
Grow(x) == Extend(<<x>>)
Room(n) == ~asked /\ Len(data) < n

ExtendWave == /\ mode = "clock" /\ ~asked
              /\ \E t \in 1 .. MaxTime : /\ t > data[Len(data)].time
                                         /\ t <= data[Len(data)].time + 2
                                         /\ \E q \in Instants(t) : Extend(q)
ExtendApb == mode = "apb" /\ Room(MaxSamples)
             /\ \E s \in ApbSample : Grow(Timed(s, Len(data) + 1))
ExtendStream == mode \in DOMAIN StreamCfg /\ Room(MaxSamples)
                /\ \E s \in StreamSample(mode) \cup {IdleSample, Unknown} :
                      Grow(Timed(s, Len(data) + 1))
ExtendSignals == Room(MaxSamples)
                 /\ \E v \in SignalValues(mode) : Grow([time |-> Len(data) + 1, v |-> v])
ExtendEvents == mode = "event" /\ Room(MaxSamples)
                /\ \E v \in EventValues, r \in {"1", "x"} :
                      /\ r = "x" => v.b = <<"1">>
                      /\ Grow([time |-> Len(data) + 1, reset |-> r, v |-> v])
ChooseExpression == mode = "expr" /\ Room(1) /\ \E tr \in Trees : Grow(tr)
ExtendDesign ==
    /\ mode = "design" /\ Room(NSignals)
    /\ \E r \in Drivers(Len(data) + 1), w \in DesignWaves[Len(data) + 1] :
          Grow([r EXCEPT !.changes = w])
ExtendTxns ==
    /\ mode = "txn" /\ Room(MaxTxns)
    /\ \E w \in BOOLEAN, a \in 1 .. MaxTime, r \in 1 .. MaxTime, ad \in Addrs,
          id \in {<<"0">>, <<"1">>} :
          LET n == Len(data) IN
          /\ r > a
          /\ n > 0 => \/ a > data[n].addr_time
                      \/ a = data[n].addr_time /\ data[n].is_write /\ ~w
          /\ \A i \in DOMAIN data : data[i].is_write = w => data[i].resp_time # r
          /\ Grow(Txn(n + 1, w, a, r, ad, id))

Ask == ~asked /\ asked' = TRUE /\ UNCHANGED <<mode, data>>

Next == Ask \/ ExtendWave \/ ExtendApb \/ ExtendStream \/ ExtendSignals \/ ExtendEvents
        \/ ChooseExpression \/ ExtendTxns \/ ExtendDesign
Spec == Init /\ [][Next]_vars

----------------------------------------------------------------------------
(* Requests.                                                               *)

SampleSpec == [edge : {"posedge", "negedge", "dual"}, point : {"before", "after"}]
NoX == \A i \in DOMAIN data : data[i].val # "x"
Opt == [begin |-> 0, end |-> MaxSamples, limit |-> 0, retain_limit |-> 0, query_kind |-> "",
        packet_index |-> 0, channel_filter |-> "", filter |-> FALSE, filter_value |-> "1",
        position |-> "sop"]
StreamFilter(p) == [position |-> p, fields |-> {"data"}, parses |-> TRUE]

EventConfig == [clock |-> "clk", signals |-> [a |-> "top.a", b |-> "top.b"],
                fields |-> [f |-> [alias |-> "a", left |-> 1, right |-> 1]],
                has_reset |-> TRUE, reset |-> "top.r", polarity |-> "active_low"]
EventWave == [p \in {"clk", "top.a", "top.b", "top.r"} |-> "leaf"]
EventArgs == [name |-> "c", legacy |-> FALSE, config |-> EventConfig, edge |-> "negedge",
              sample_point |-> "none", toks |-> <<"a">>, begin |-> 1, end |-> 3,
              max_samples |-> -1, mode |-> "all", line_limit |-> E!Absent, max_events |-> 0,
              has_aggregate |-> FALSE, has_group_by |-> FALSE, group_by |-> <<>>,
              events |-> TRUE, path |-> "", has_format |-> FALSE, format |-> "json"]
EventStored == [c |-> EventConfig]
EventConds == {<<"b", "&&", "a", "==", "i1">>, <<"!", "(", "f", "||", "b", ")">>,
               <<"a", ">", "i1", "||", "b">>, <<"a", "!=", "lx", "||", "f">>, <<"g">>}

SignalWave == [p \in {"a", "b", "s", "en", "lo", "hi", "valid", "ready", "d"} |->
                 [aggregate |-> FALSE, rows |-> <<>>]]
Cond(m, t) == [mode |-> m, toks |-> t]
SignalArgs == [legacy |-> FALSE, edge |-> "negedge", sample_point |-> "none", clock |-> "clk",
               has_edge |-> FALSE, signals |-> [a |-> "a", b |-> "b"], signal |-> "s",
               fmt |-> "hex", line_limit |-> 1, max_samples |-> -1, has_range |-> TRUE,
               vld_toks |-> <<"en">>, vld_signals |-> [en |-> "en"], cnt |-> <<"hi", "lo">>,
               conditions |-> <<>>, end |-> 4, valid |-> "valid", ready |-> "ready",
               has_data |-> TRUE, data |-> "d", check_data |-> TRUE,
               require_valid_hold |-> TRUE, ready_reporting |-> "all", max_wait |-> 1,
               mode |-> "timeline", expected_state |-> "x", match_mode |-> "exact",
               checks |-> <<>>, toks |-> <<"a">>, payloads |-> <<"s">>, rule |-> "all",
               has_rule |-> TRUE, initial |-> <<"0">>, begin |-> 1]
\* The samples of one signal as its value changes.
RawRows == LET changed == SelectSeq([i \in DOMAIN data |-> i],
                                    LAMBDA i : i = 1 \/ data[i].v.sig # data[i - 1].v.sig)
           IN  [k \in DOMAIN changed |-> [time |-> changed[k], val |-> data[changed[k]].v.sig]]
RawWave == [SignalWave EXCEPT !["s"].rows = RawRows]
RawArgs == [SignalArgs EXCEPT !.valid = "s", !.end = Len(data) + 1]
EdgesAt(times) == LET seen == SelectSeq([i \in DOMAIN data |-> i], LAMBDA i : i \in times)
                  IN  [k \in DOMAIN seen |-> [time |-> seen[k], v |-> [valid |-> data[seen[k]].v.sig]]]
CondModes == {"always", "eventually", "never"}
CondPairs == {<<Cond(m, <<"a">>), Cond(n, <<"a", "&&", "b">>)>> :
                m \in CondModes, n \in CondModes}
Unmixed(p) == p[1].mode = "eventually" <=> p[2].mode = "eventually"
WindowArgs(p, n) == [SignalArgs EXCEPT !.conditions = p, !.max_samples = n]

Open(t, w) == Cardinality({i \in DOMAIN data : /\ data[i].is_write = w
                                               /\ data[i].addr_time <= t
                                               /\ t < data[i].resp_time})
Outstanding == [t \in 1 .. MaxTime |-> [time |-> t, write |-> Open(t, TRUE),
                                        read |-> Open(t, FALSE)]]
Result == Q!finish(data, <<>>, Outstanding, TRUE)
Partial(k) == Q!finish(SubSeq(data, 1, k), SubSeq(data, k + 1, Len(data)), Outstanding, TRUE)
QueryArgs == [name |-> "a", stored |-> "Ok", analyzed |-> "Ok", direction |-> "all",
              begin |-> 1, end |-> MaxTime, has_range |-> FALSE, line_limit |-> -1,
              index |-> 0, last |-> FALSE, method |-> "top_n", top_n |-> 2, threshold |-> 1,
              address |-> Q!NoFilter, id |-> Q!NoFilter, channel |-> "",
              handshake_time |-> 0, projection |-> "none", analysis |-> "latency",
              has_limit |-> FALSE, op |-> "begin", path |-> "p", has_format |-> FALSE,
              format |-> "tsv", publish_ok |-> TRUE, max_wait |-> 0]
ChannelSamples == [i \in DOMAIN data |-> [time |-> i, valid |-> data[i].v.valid[1],
                                          ready |-> data[i].v.ready[1]]]
Windows == {w \in (1 .. MaxTime) \X (1 .. MaxTime) : w[1] <= w[2]}
Ranged(w) == [QueryArgs EXCEPT !.begin = w[1], !.end = w[2]]
Lit(n) == [form |-> "dec", digits |-> <<n>>]
AddressFilters == {Q!NoFilter, [mode |-> "exact", values |-> <<Lit(1)>>],
                   [mode |-> "range", begin |-> Lit(1), end |-> Lit(3)],
                   [mode |-> "mask", value |-> Lit(3), mask |-> Lit(2)],
                   [mode |-> "mask", value |-> Lit(8), mask |-> Lit(8)]}
Page(f, d, i, l, last) ==
    Q!AxiQueryHandler(Result, [QueryArgs EXCEPT !.address = f, !.direction = d,
                                 !.index = i, !.line_limit = l, !.last = last])
Unlimited == [depth |-> 9, nodes |-> 12, steps |-> 9, signals |-> 9, chains |-> 9]
TraceLimits == {[Unlimited EXCEPT !.depth = 1], [Unlimited EXCEPT !.nodes = 2],
                [Unlimited EXCEPT !.signals = 1, !.depth = 2], [Unlimited EXCEPT !.chains = 1],
                [Unlimited EXCEPT !.steps = 1]}
UpTo(n, bits) == UNION {[1 .. k -> bits] : k \in 1 .. n}
EventOperands == {E!signal_operand(b) : b \in UpTo(4, {"0", "1"})}
                 \cup {E!literal_operand(E!EventLiterals[l]) : l \in DOMAIN E!EventLiterals}
Env == [a : [1 .. 2 -> {"0", "1", "x"}], b : [1 .. 2 -> {"0", "1", "z"}]]
Values(e) == [s \in DOMAIN e |-> F!SV(e[s], ~F!has_xz_bits(e[s]), TRUE)]

----------------------------------------------------------------------------
\* One signal sampled under two names, and the clock among the signals.
Aliases == <<"d", "clk", "d">>
SamplingOk == mode = "clock" =>
    \A sp \in SampleSpec :
        /\ C!WindowIndependent(data, sp, "clk", Aliases, MaxTime)
        /\ NoX => C!ResolverAgrees(data, sp, "clk", Aliases, MaxTime)
\* ClockSampling: for the first alias of each signal but the clock, the
\* samples of a window do not depend on where the scan starts, and are the
\* values the one-value resolver reads at the same edges; further aliases
\* and the clock keep the value from before the window, except in the
\* expression scanner (clock_sampling.cpp).
SamplingConsistent == [][Ask => SamplingOk]_vars

ApbOk == mode = "apb" =>
    \A p \in BOOLEAN :
        LET cfg == [polarity |-> "active_low", has_pready |-> p] IN
        /\ A!TransfersExact(data, cfg) /\ A!QueriesAgree(data, cfg, {0, 1, 2})
        /\ A!CursorLaws(data, cfg)
        /\ \A f \in {Q!NoFilter, [mode |-> "exact", values |-> <<Lit(1)>>]}, d \in {"all", "write"} :
              Q!ApbActionsAgree(A!analyze(data, cfg), [QueryArgs EXCEPT !.address = f,
                 !.direction = d, !.has_range = TRUE])
\* ApbAnalyzer: the transfers found edge by edge are the accesses the
\* protocol defines, every index and every cursor walk agrees with the list,
\* and the APB actions answer from the same transfers (apb_analyzer.cpp,
\* apb_query.cpp, apb_export.cpp).
ApbExact == [][Ask => ApbOk]_vars

StreamsOk == mode \in DOMAIN StreamCfg =>
    LET cfg == StreamCfg[mode] IN
    /\ \A k \in {"", "last_packet"} :
          S!WindowsAgree(data, cfg, [Opt EXCEPT !.query_kind = k], MaxSamples)
    /\ S!PacketsSound(data, cfg, Opt, MaxSamples)
    /\ S!StallsExact(data, cfg, Opt)
\* StreamAnalyzer: a window cut out of the cached base of the whole waveform
\* answers like a scan of that window and like the differential tests'
\* reference, and its packets and stalls are those the samples define
\* (stream_analyzer.cpp).
StreamsExact == [][Ask => StreamsOk]_vars

StreamAnswersOk == mode \in DOMAIN StreamCfg =>
    LET cfg == StreamCfg[mode]
        positions == IF cfg.packet THEN {"sop", "eop"} ELSE {""}
        filters == {<<>>} \cup {<<StreamFilter(p)>> : p \in positions}
    IN  /\ \A f \in filters : S!QueriesConsistent(data, cfg,
              [S!BaseArgs EXCEPT !.filter = f], 0, MaxSamples)
        /\ S!ExportRowsDeclared(data, cfg, S!BaseArgs, 0, MaxSamples)
        /\ S!ReportsAgree(data, cfg, S!BaseArgs, 0, MaxSamples)
        /\ S!FilterAccounts(data, cfg, Opt)
        /\ S!FilterAccounts(data, cfg, [Opt EXCEPT !.channel_filter = "1", !.position = "eop"])
\* stream.query and stream.export: one-item queries return the ends of the
\* window query's list, truncation is reported exactly when something was
\* dropped, filters account for every packet, and an exported file has the
\* rows it declares (stream_query.cpp, stream_export.cpp).
StreamAnswersAgree == [][Ask => StreamAnswersOk]_vars

ExpressionsOk == mode = "expr" =>
    IF data = <<>>
    THEN /\ \A bits \in UpTo(5, {"0", "1", "x", "z"}) : F!ConversionsRound(bits)
         /\ \A a, b \in UpTo(5, {"0", "1"}) : F!KeysNumeric(a, b)
    ELSE LET tree == data[1] IN
    /\ F!parse(F!Unparse(tree)) = F!Parsed(tree, Len(F!Unparse(tree)) + 1)
    /\ \A e \in Env : LET v == F!eval_node(tree, Values(e)) IN
          \A ra \in F!Resolutions(e.a), rb \in F!Resolutions(e.b) :
             LET w == F!eval_node(tree, Values([a |-> ra, b |-> rb])) IN
             w.ok = v.ok /\ F!Agrees(v.bits, w.bits)
\* The expression evaluator: what is printed parses back, and a result with
\* unknown inputs agrees with the result of every way to resolve them; a
\* rendered value reads back as itself (stream_expr.cpp, logic_value.cpp).
ExpressionsSound == [][Ask => ExpressionsOk]_vars

EventsOk == mode = "event" =>
    /\ data = <<>> => \A l, r \in EventOperands : E!OrderNumeric(l, r)
    /\ \A t \in EventConds, b \in 1 .. 2 :
          E!EventsExact(data, [EventArgs EXCEPT !.toks = t, !.begin = b], EventStored,
                        EventWave, {})
    /\ \A n \in 0 .. 2, s \in {-1, 2}, l \in {E!Absent, 1}, p \in {"", "p"}, g \in BOOLEAN :
          E!ExportAccounts(data,
             [EventArgs EXCEPT !.toks = <<"b">>, !.max_events = n, !.max_samples = s,
                !.line_limit = l, !.path = p, !.has_aggregate = g, !.has_group_by = TRUE,
                !.group_by = <<"f">>, !.events = ~g], EventStored, EventWave, {})
\* event.find and event.export: the events are the samples outside reset
\* whose condition is true, and limits, groups and previews account for all
\* of them (event_analyzer.cpp, event_find.cpp, event_export.cpp).
EventsSound == [][Ask => EventsOk]_vars

SignalsOk ==
    /\ mode = "window" => \A p \in CondPairs, n \in {-1, 1, 2} :
          Unmixed(p) => G!WindowVerdictSound(data, WindowArgs(p, n), SignalWave)
    /\ mode = "window" => \A t \in {<<"a", "&&", "b">>, <<"a", "||", "b">>} :
          G!PointsAgree(data, [SignalArgs EXCEPT !.toks = t], SignalWave)
    /\ mode \in {"bit", "bus"} => /\ G!StatisticsExact(data, SignalArgs, SignalWave)
                                  /\ G!ChangesAgree(RawWave, RawArgs)
    /\ mode = "bit" /\ data # <<>> => \A times \in SUBSET (1 .. MaxSamples) :
          G!PulsesExact(EdgesAt(times), [i \in DOMAIN data |-> data[i].v.sig],
                        [RawArgs EXCEPT !.initial = data[1].v.sig], RawWave)
    /\ mode = "counter" => G!CounterExact(data, SignalArgs, SignalWave)
    /\ mode = "shake" => /\ G!HandshakeExact(data, SignalArgs, SignalWave)
                         /\ \A n \in 0 .. 1, l \in {-1, 1} :
                               Q!ChannelStallsExact(ChannelSamples, [QueryArgs EXCEPT !.max_wait = n,
                                  !.line_limit = l, !.channel = "aw"])
\* window.verify (with conditions of one kind), expr.eval_at, the actions on
\* value changes, signal.statistics, counter.statistics, handshake.inspect and
\* axi.channel_stall report what the samples or changes of the window show (signal_analysis.cpp, signal_inspect.cpp).
SignalsExact == [][Ask => SignalsOk]_vars

QueriesOk == mode = "txn" =>
    /\ \A w \in Windows : Q!OutliersBest(Result, Ranged(w), 0 .. 2)
    /\ Q!LookupsAgree(Result, {0, 1, 3}, 1 .. MaxTime)
    /\ \A w \in Windows, d \in {"all", "read", "write"} :
          Q!RangesExact(Result, [Ranged(w) EXCEPT !.direction = d])
    /\ \A f \in AddressFilters :
          /\ \A d \in {"read", "write"}, s \in 1 .. 2 : 
                Q!PagesCover(LAMBDA i, l, last : Page(f, d, i, l, last), s)
          /\ Q!FilterSound(Result, [QueryArgs EXCEPT !.address = f])
    /\ \A w \in Windows, k \in 0 .. Len(data) :
          Q!AxiActionsAgree(Partial(k), [Ranged(w) EXCEPT !.has_range = TRUE])
\* The queries over recorded transactions: the bounded heap of outliers keeps
\* the best ones, lookups agree with the lists, range statistics are exact,
\* and the pages of a filtered list cover it (axi_analyzer.cpp, axi_query.cpp).
QueriesExact == [][Ask => QueriesOk]_vars

TracesOk == mode = "design" /\ Len(data) = NSignals =>
    \A q \in TraceLimits :
        /\ T!ChainContinues(data, q, Unlimited, 1, 2)
        /\ T!WalksAgree(data, q, 1, 2)
        /\ T!AnswersAgree(data, q, 1, 2)
        /\ T!TreeSound(data, q, 1, 2)
        /\ T!XOriginsFound(data, q, Unlimited, 1, 2)
\* The searches for the driver of a signal and the origin of an unknown value:
\* what a limit cuts off is found from where it stopped, the two driver walks
\* agree, and without a limit every source is reported, or merged into the
\* chain reported for those that differ from it in port hops only
\* (active_trace_chain.cpp, active_trace_service.cpp, trace_x_origin.cpp).
TracesSound == [][Ask => TracesOk]_vars

WindowVerdictOk == mode = "window" => \A p \in CondPairs, n \in {-1, 1, 2} :
    G!WindowVerdictSound(data, WindowArgs(p, n), SignalWave)
\* window.verify is a proof: "pass" means that every condition holds on all
\* of the window, whatever kinds of conditions are asked together
\* (signal_analysis.cpp, window_verify).
WindowVerdictHolds == [][Ask => WindowVerdictOk]_vars
=============================================================================
