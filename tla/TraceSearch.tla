---------------------------- MODULE TraceSearch ----------------------------
(***************************************************************************)
(* The searches that explain a signal at a time from the design and the    *)
(* waveform: trace.active_driver_chain walks one chain of drivers,         *)
(* trace.active_driver collects the tree of active statements, and         *)
(* trace.x_origin follows every unknown dependency depth first.            *)
(*                                                                         *)
(* A signal is a positive number, 0 is "no signal".  The database and the  *)
(* waveform are external; d[s] is what they answer about signal s:         *)
(*   handle   the design knows it         alias, aliases  it is a reference*)
(*   input    it is an input port of an instance, connected to target or 0 *)
(*   stmts    its static drivers: kind, the signals they read (sigs), the  *)
(*            signal that is the whole right hand side (direct or 0), the  *)
(*            instants at which they are active, the direction of a port   *)
(*   changes  its value changes, in time; <<>> when it is not dumped       *)
(* q holds the limits: depth, nodes, steps, signals and chains.            *)
(***************************************************************************)
EXTENDS Integers, Sequences, FiniteSets, SequencesExt

None == 0
Never == -1
Times(n) == [i \in 1 .. n |-> i]
Smallest(S) == CHOOSE x \in S : \A y \in S : x <= y
Biggest(S) == CHOOSE x \in S : \A y \in S : x >= y
Lesser(a, b) == IF a < b THEN a ELSE b

----------------------------------------------------------------------------
(* What the design and the waveform say about a signal.                    *)

ChangeTimes(d, s) == {d[s].changes[i].t : i \in DOMAIN d[s].changes}
ChangeAt(d, s, t) == CHOOSE i \in DOMAIN d[s].changes : d[s].changes[i].t = t

\* The last change at or before t: where the cursor of the waveform lands.
previous_fsdb_change_time(d, s, t) ==
    LET past == {u \in ChangeTimes(d, s) : u <= t}
    IN  IF past = {} THEN Never ELSE Biggest(past)
fsdb_value_at(d, s, t) ==
    LET u == previous_fsdb_change_time(d, s, t)
    IN  IF u = Never THEN "?" ELSE d[s].changes[ChangeAt(d, s, u)].v
is_control_kind(kind) == kind \in {"if", "if_else", "case", "case_item"}
is_alias_kind(kind) == kind \in {"port_boundary", "modport_port", "ref_obj"}
is_assignment_like_statement(st) == st.kind \in {"assignment", "force"}

\* The static drivers that are active at the precise time of the change the
\* query sees; more than one active assignment is ambiguous.
resolve_active_driver_precise(d, s, t) ==
    LET at == previous_fsdb_change_time(d, s, t)
        on == IF at = Never THEN <<>> ELSE SelectSeq(d[s].stmts, LAMBDA st : at \in st.active)
    IN  [time |-> at, stmts |-> on,
         ambiguous |-> Len(SelectSeq(on, is_assignment_like_statement)) > 1]

----------------------------------------------------------------------------
(* trace.active_driver_chain.                                              *)

\* The signals a statement reads, without the signal itself.
rhs_signal_names(st, s) == Range(st.sigs) \ {None, s}

\* The values around the change; they count as changed when both were read.
sample_rhs(d, s, t) ==
    LET before == fsdb_value_at(d, s, t - 1)
        after == fsdb_value_at(d, s, t)
    IN  [signal |-> s, changed |-> before # "?" /\ after # "?" /\ before # after]

\* For each assignment the samples of its signals, as many as the limit on
\* all of them together leaves.
collect_ambiguity_evidence(d, s, t, stmts, max) ==
    FoldLeft(LAMBDA e, st :
               LET names == SetToSortSeq(rhs_signal_names(st, s), <)
                   taken == SubSeq(names, 1, Lesser(Len(names), max - e.returned))
               IN  IF ~is_assignment_like_statement(st) THEN e
                   ELSE [total |-> e.total + Len(names), returned |-> e.returned + Len(taken),
                         samples |-> Append(e.samples,
                                       [i \in DOMAIN taken |-> sample_rhs(d, taken[i], t)])],
             [total |-> 0, returned |-> 0, samples |-> <<>>], stmts)

ChainStart(s, t) ==
    [sig |-> s, time |-> t, depth |-> 0, chain |-> <<>>, visited |-> {<<s, t>>},
     term |-> "unresolved", detail |-> "", truncated |-> FALSE, done |-> FALSE,
     frontier |-> <<>>, evidence |-> <<>>]
StopChain(c, term, detail) == [c EXCEPT !.term = term, !.detail = detail, !.done = TRUE]
ChainNode(c, at, kind, next) ==
    [signal |-> c.sig, time |-> c.time, active |-> at, kind |-> kind, next |-> next]
Record(c, node) == [c EXCEPT !.chain = Append(@, node)]

ambiguous(d, q, c, at, stmts, detail) ==
    LET e == collect_ambiguity_evidence(d, c.sig, at, stmts, q.signals)
    IN  [StopChain(c, "ambiguous", detail) EXCEPT
            !.evidence = <<e>>, !.truncated = e.returned # e.total]

\* Mutated: the walk goes on as long as the depth allows, loop or not.
follow_blindly(q, c, at, kind, next) ==
    LET r == Record(c, ChainNode(c, at, kind, next))
    IN  IF c.depth >= q.depth
        THEN [StopChain(r, "limit", "max_depth") EXCEPT
                !.truncated = TRUE, !.frontier = <<[signal |-> next, time |-> at]>>]
        ELSE [r EXCEPT !.sig = next, !.time = at, !.depth = @ + 1]

\* Record the node and go to its driver: a loop is noticed before the depth,
\* and what the depth cuts off is left as the frontier to go on from.
follow(q, c, at, kind, next) ==
    LET r == Record(c, ChainNode(c, at, kind, next))
    IN  IF <<next, at>> \in c.visited THEN StopChain(r, "loop_detected", "")
        ELSE IF c.depth >= q.depth
        THEN [StopChain(r, "limit", "max_depth") EXCEPT
                !.truncated = TRUE, !.frontier = <<[signal |-> next, time |-> at]>>]
        ELSE [r EXCEPT !.sig = next, !.time = at, !.depth = @ + 1,
                       !.visited = @ \cup {<<next, at>>}]

\* The statement that names the driver: the last assignment or force, or the
\* first statement when there is none.
best_statement(stmts) ==
    LET like == SelectSeq(stmts, is_assignment_like_statement)
    IN  IF like = <<>> THEN Head(stmts) ELSE Last(like)

assignment_end(d, q, c, at, st) ==
    LET r == Record(c, ChainNode(c, at, "assignment", None))
        names == rhs_signal_names(st, c.sig)
    IN  IF Cardinality(names) > 1 THEN ambiguous(d, q, r, at, <<st>>, "multiple_rhs_sources")
        ELSE StopChain(r, "assignment", IF names = {} THEN "constant_or_no_rhs_signal"
                                        ELSE "non_direct_rhs_expression")

chain_step(d, q, c) ==
    LET r == resolve_active_driver_precise(d, c.sig, c.time)
        at == IF r.time = Never THEN c.time ELSE r.time
        info == d[c.sig]
        best == best_statement(r.stmts)
        kind == IF r.stmts = <<>> THEN "unresolved" ELSE best.kind
        end == Record(c, ChainNode(c, at, kind, None))
    IN  CASE ~info.handle -> StopChain(c, "signal_not_found", "signal_missing")
          [] info.handle /\ r.ambiguous ->
                ambiguous(d, q, c, at, r.stmts, "multiple_active_candidates")
          [] info.handle /\ ~r.ambiguous ->
                IF info.input /\ info.target # None THEN follow(q, c, at, kind, info.target)
                ELSE IF kind = "force" THEN StopChain(end, "force", "")
                ELSE IF kind = "assignment" /\ best.direct \notin {None, c.sig}
                THEN follow(q, c, at, kind, best.direct)
                ELSE IF kind = "assignment" THEN assignment_end(d, q, c, at, best)
                ELSE StopChain(end, IF info.input THEN "primary_input"
                                    ELSE IF kind = "unresolved" THEN kind ELSE "control_only", "")

\* Each step but the last adds a node, so max_nodes steps are enough.
build_chain(d, q, s, t) ==
    LET c == FoldLeft(LAMBDA a, i : IF a.done THEN a ELSE chain_step(d, q, a),
                      ChainStart(s, t), Times(q.nodes))
    IN  IF c.term = "unresolved" /\ Len(c.chain) >= q.nodes
        THEN [c EXCEPT !.truncated = TRUE, !.term = "limit", !.detail = "max_nodes"] ELSE c

Limits(q) == [k \in DOMAIN q |-> Biggest({1, q[k]})]
build_active_driver_chain_payload(d, q, s, t) ==
    IF s = None THEN [error |-> "MISSING_FIELD"]
    ELSE IF ~d[s].handle THEN [error |-> "SIGNAL_NOT_FOUND"]
    ELSE LET c == build_chain(d, Limits(q), s, t)
         IN  [error |-> "", result |-> c, complete |-> ~c.truncated,
              continue_from |-> c.frontier]

----------------------------------------------------------------------------
(* trace.active_driver.  An item of the queue is a signal, a time, a depth *)
(* and the node that led to it (0 for the root).  root is the kind of the  *)
(* root driver found so far, current that of the query's own driver.       *)

Item(s, t, depth, parent) == [signal |-> s, time |-> t, depth |-> depth, parent |-> parent]
TraceStart(s, t) ==
    [queue |-> <<Item(s, t, 0, 0)>>, visited |-> {<<s, t>>}, times |-> {}, nodes |-> <<>>,
     edges |-> {}, controls |-> 0, aliases |-> <<>>, root |-> "", current |-> "",
     term |-> "unresolved", detail |-> "", truncated |-> FALSE]

\* The queue is dropped where the code breaks out of its loop.
Halt(b, term, detail) == [b EXCEPT !.queue = <<>>, !.term = term, !.detail = detail]
HaltLimit(b, detail) == [Halt(b, "limit", detail) EXCEPT !.truncated = TRUE]

AddNode(b, c, role, kind, at, next, linked) ==
    LET n == Len(b.nodes) + 1
    IN  [b EXCEPT !.nodes = Append(@, [signal |-> c.signal, role |-> role, kind |-> kind,
                                       active |-> at, next |-> next]),
                  !.edges = IF linked /\ c.parent # 0 THEN @ \cup {<<c.parent, n>>} ELSE @]
Reachable(b, q, c, s, t) == <<s, t>> \notin b.visited /\ c.depth < q.depth
Enqueue(b, c, s, t) ==
    [b EXCEPT !.visited = @ \cup {<<s, t>>},
              !.queue = Append(@, Item(s, t, c.depth + 1, Len(b.nodes)))]

\* No candidate is active and no reference leads on: an input boundary or an
\* unresolved end.
terminal_node(b, info, c, at) ==
    LET outside == info.input /\ info.target = None
        n == AddNode(b, c, "root", IF outside THEN "primary_input" ELSE "unknown", at, None, TRUE)
    IN  [n EXCEPT !.root = IF outside /\ @ = "" THEN "primary_input" ELSE @,
                  !.term = IF ~outside THEN "unresolved"
                           ELSE IF @ = "unresolved" THEN "primary_input" ELSE @]

port_or_terminal(b, q, info, c, at) ==
    IF info.input /\ info.target # None /\ Reachable(b, q, c, info.target, at)
    THEN Enqueue(AddNode(b, c, "alias", "port_boundary", at, info.target, TRUE),
                 c, info.target, at)
    ELSE IF info.input /\ info.target # None /\ <<info.target, at>> \notin b.visited
    THEN HaltLimit(b, "")
    ELSE terminal_node(b, info, c, at)

\* A reference that resolves to one signal is followed at the time of the
\* query; the node of the reference gets no edge from its parent.
no_driver(b, q, info, c, at) ==
    LET t == IF info.aliases = <<>> THEN None ELSE info.aliases[1]
    IN  IF is_alias_kind(info.alias) /\ Len(info.aliases) > 1
        THEN [b EXCEPT !.term = "ambiguous", !.aliases = @ \o info.aliases]
        ELSE IF is_alias_kind(info.alias) /\ t # None /\ Reachable(b, q, c, t, c.time)
        THEN Enqueue(AddNode(b, c, "alias", info.alias, c.time, t, FALSE), c, t, c.time)
        ELSE port_or_terminal(b, q, info, c, at)

\* The signal a statement leads to: the connection of an input port, or the
\* right hand side when it is one signal the design knows.
next_of(d, s, st) ==
    LET known == st.direct \notin {None, s} /\ d[st.direct].handle
    IN  IF st.kind \in {"assignment", "port_boundary"} /\ d[s].input /\ d[s].target # None
        THEN d[s].target
        ELSE IF st.kind = "assignment" /\ known THEN st.direct ELSE None

\* An assignment is the root driver unless its source can be followed; a
\* source that is an input is not.
assignment_step(d, q, b, c, at, next) ==
    LET r == [b EXCEPT !.root = "assignment"]
    IN  IF next = None \/ d[next].input THEN [r EXCEPT !.term = "assignment"]
        ELSE IF Reachable(b, q, c, next, at) THEN Enqueue(r, c, next, at)
        ELSE IF <<next, at>> \in b.visited
        THEN [r EXCEPT !.term = IF @ = "unresolved" THEN "assignment" ELSE @]
        ELSE [r EXCEPT !.truncated = TRUE, !.term = "limit"]

\* A port of the instance leads outside; an input that does not ends the
\* statements of the signal.  Other references resolve like the signal's own.
port_step(d, q, a, c, at, st) ==
    LET info == d[c.signal]
        b == a.b
    IN  IF st.dir \in {"input", "inout"} /\ info.input /\ info.target # None
           /\ Reachable(b, q, c, info.target, at)
        THEN [a EXCEPT !.b = Enqueue(b, c, info.target, at)]
        ELSE IF st.dir = "input"
        THEN [a EXCEPT !.stop = TRUE,
                 !.b = IF info.input /\ info.target = None /\ c.parent = 0 /\ b.root = ""
                       THEN [b EXCEPT !.term = "primary_input", !.root = "primary_input"]
                       ELSE [b EXCEPT !.term = IF @ = "unresolved" THEN "assignment" ELSE @]]
        ELSE IF Len(info.aliases) > 1
        THEN [a EXCEPT !.b.term = "ambiguous", !.b.aliases = @ \o info.aliases]
        ELSE IF info.aliases # <<>> /\ Reachable(b, q, c, info.aliases[1], at)
        THEN [a EXCEPT !.b = Enqueue(b, c, info.aliases[1], at)] ELSE a

role_of(kind) ==
    CASE kind \in {"assignment", "force"} -> kind
      [] is_control_kind(kind) -> "control"
      [] is_alias_kind(kind) -> "alias"
      [] kind = "event_control" -> "event"
      [] OTHER -> "other"

statement_step(d, q, c, at, a, st) ==
    LET next == next_of(d, c.signal, st)
        n == [a EXCEPT !.b = AddNode(@, c, role_of(st.kind), st.kind, at, next, TRUE)]
    IN  CASE a.stop -> a
          [] ~a.stop /\ Len(a.b.nodes) >= q.nodes ->
                [a EXCEPT !.stop = TRUE, !.b.truncated = TRUE, !.b.term = "limit"]
          [] OTHER ->
                CASE st.kind = "force" ->
                       [n EXCEPT !.driver = "force", !.b.term = "force", !.b.root = "force"]
                  [] st.kind = "assignment" ->
                       [n EXCEPT !.driver = IF @ = "" THEN "assignment" ELSE @,
                                 !.b = assignment_step(d, q, @, c, at, next)]
                  [] is_alias_kind(st.kind) -> port_step(d, q, n, c, at, st)
                  [] is_control_kind(st.kind) -> [n EXCEPT !.b.controls = @ + 1]
                  [] OTHER -> n

statements_step(d, q, b, c, r) ==
    LET a == FoldLeft(LAMBDA acc, st : statement_step(d, q, c, r.time, acc, st),
                      [b |-> b, driver |-> "", stop |-> FALSE], r.stmts)
        top == c.depth = 0
    IN  [a.b EXCEPT !.current = IF top /\ @ = "" THEN a.driver ELSE @,
                    !.term = IF top /\ a.driver = "" /\ a.b.controls > 0 THEN "control_only"
                             ELSE @]

trace_step(d, q, b) ==
    LET c == Head(b.queue)
        rest == [b EXCEPT !.queue = Tail(@), !.times = @ \cup {c.time}]
        r == resolve_active_driver_precise(d, c.signal, c.time)
        at == IF r.time = Never THEN c.time ELSE r.time
    IN  IF c.time \notin b.times /\ Cardinality(b.times) >= q.steps
        THEN HaltLimit(b, "max_time_steps")
        ELSE IF c.depth > q.depth THEN HaltLimit(rest, "max_depth")
        ELSE IF Len(b.nodes) >= q.nodes THEN HaltLimit(rest, "max_nodes")
        ELSE IF ~d[c.signal].handle
        THEN IF b.nodes = <<>> THEN Halt(rest, "unresolved", "signal_missing") ELSE rest
        ELSE IF r.ambiguous THEN Halt(rest, "ambiguous", "multiple_active_candidates")
        ELSE IF r.stmts = <<>> THEN no_driver(rest, q, d[c.signal], c, at)
        ELSE statements_step(d, q, rest, c, r)

\* Every item of the queue is another visited signal and time.
build_active_trace(d, q, s, t) ==
    FoldLeft(LAMBDA b, i : IF b.queue = <<>> THEN b ELSE trace_step(d, q, b),
             TraceStart(s, t), Times((t + 1) * Cardinality(DOMAIN d) + 1))

build_active_driver_payload(d, q, s, t) ==
    IF s = None THEN [error |-> "MISSING_FIELD"]
    ELSE IF ~d[s].handle THEN [error |-> "SIGNAL_NOT_FOUND"]
    ELSE LET b == build_active_trace(d, Limits(q), s, t)
         IN  [error |-> "", result |-> b, complete |-> ~b.truncated,
              driver_status |-> IF \/ b.term \in {"assignment", "force", "primary_input"}
                                   \/ b.term = "limit" /\ b.root # ""
                                THEN "resolved" ELSE b.term]

----------------------------------------------------------------------------
(* trace.x_origin.  A point is a signal and an instant at which it has an  *)
(* unknown bit; start says that the waveform shows nothing before it.      *)

has_x(v) == v \in {"x", "xx"}
read_point(d, s, t) == fsdb_value_at(d, s, t) # "?"
XAt(d, s, t) == has_x(fsdb_value_at(d, s, t))

\* Backwards over the changes that keep an unknown bit.  A change before the
\* last one was seen, whatever its value, means it is not the start.
find_x_onset(d, s, t) ==
    LET last == previous_fsdb_change_time(d, s, t)
        run == {u \in ChangeTimes(d, s) : u <= last /\
                  \A w \in ChangeTimes(d, s) : u <= w /\ w <= last => XAt(d, s, w)}
    IN  [sig |-> s, tick |-> Smallest(run),
         start |-> \A u \in ChangeTimes(d, s) : u >= last]

relation(kind) ==
    CASE is_control_kind(kind) -> "control"
      [] kind = "assignment" -> "rhs"
      [] is_alias_kind(kind) -> "port"
      [] OTHER -> ""

\* What the value at the point depends on, in the order of the source lines:
\* the connection of an input port, the signals the active statements read,
\* and, when only a control is active, those of the other assignments.
collect_dependencies(d, p) ==
    LET info == d[p.sig]
        r == resolve_active_driver_precise(d, p.sig, p.tick)
        kinds == {st.kind : st \in Range(r.stmts)}
        unclear == (\E k \in kinds : is_control_kind(k)) /\ "assignment" \notin kinds
        static == SelectSeq(info.stmts, LAMBDA st : /\ st.kind = "assignment"
                                                    /\ r.time \notin st.active)
        used == IF ~info.handle THEN <<>> ELSE r.stmts \o IF unclear THEN static ELSE <<>>
        mention(s) == {i \in DOMAIN used : /\ s \in Range(used[i].sigs)
                                           /\ relation(used[i].kind) # ""}
        port == IF info.input /\ info.target # p.sig THEN info.target ELSE None
        signals == ({port} \cup {s \in DOMAIN d : mention(s) # {}}) \ {None, p.sig}
        line(s) == IF mention(s) = {} THEN 0 ELSE used[Smallest(mention(s))].line
        dep(s) == [sig |-> s, rels |-> {relation(used[i].kind) : i \in mention(s)}
                                       \cup IF s = port THEN {"port"} ELSE {}]
        before(a, b) == line(a) < line(b) \/ (line(a) = line(b) /\ a < b)
        order == SetToSortSeq(signals, before)
    IN  [deps |-> [i \in DOMAIN order |-> dep(order[i])],
         force |-> info.handle /\ "force" \in kinds, external |-> info.input /\ port = None,
         driven |-> used # <<>>]

\* Pure connections do not count in the identity of a chain.
trace_x_origin_semantic_relation(rels) == rels \ {"port"}
semantic_hop(rels, p) ==
    IF trace_x_origin_semantic_relation(rels) = {} THEN <<>>
    ELSE <<[rels |-> trace_x_origin_semantic_relation(rels), sig |-> p.sig, tick |-> p.tick]>>
trace_x_origin_exploration_state_key(c) == <<c.sem, c.cur.sig, c.cur.tick>>
visit_key(p) == <<p.sig, p.tick>>

XChain(p) ==
    [status |-> "pending", detail |-> "", complete |-> TRUE, finished |-> FALSE, depth |-> 0,
     cur |-> p, hops |-> <<>>, origin |-> FALSE, proven |-> FALSE, pending |-> {},
     visited |-> {visit_key(p)}, rels |-> {"root"}, sem |-> semantic_hop({"root"}, p),
     suppressed |-> FALSE]
stop_chain(c, status, detail, complete) ==
    [c EXCEPT !.status = status, !.detail = detail, !.complete = @ /\ complete,
              !.finished = TRUE]
Origin(c, detail, proven) ==
    [stop_chain(c, IF detail = "x_not_observable_upstream" THEN detail ELSE "origin_found",
                detail, TRUE) EXCEPT !.origin = TRUE, !.proven = proven]

\* Why no dependency explains the unknown value.
origin_without_children(c, dep, unreadable) ==
    CASE c.cur.start -> Origin(c, "x_present_at_fsdb_start", TRUE)
      [] ~c.cur.start /\ dep.external -> Origin(c, "primary_input_x", TRUE)
      [] ~c.cur.start /\ ~dep.external /\ unreadable -> Origin(c, "undumped_boundary", FALSE)
      [] OTHER -> Origin(c, IF dep.deps = <<>> /\ dep.driven THEN "candidate_x_source"
                            ELSE "x_not_observable_upstream", FALSE)

\* One dependency with an unknown value becomes a child of the chain: the
\* first takes the chain's place, the others start chains of their own.  A
\* child that closes a loop ends, one whose state was explored is dropped.
add_child(d, q, i, chain, a, dep) ==
    LET p == find_x_onset(d, dep.sig, chain.cur.tick)
        c == [chain EXCEPT !.cur = p, !.depth = @ + 1, !.rels = dep.rels,
                           !.sem = @ \o semantic_hop(dep.rels, p)]
        key == trace_x_origin_exploration_state_key(c)
        loop == visit_key(p) \in c.visited
        open == [c EXCEPT !.visited = @ \cup {visit_key(p)}]
        ended == IF loop THEN stop_chain(c, "loop_detected", "loop_detected", TRUE)
                 ELSE IF c.depth > q.depth THEN stop_chain(open, "limit", "max_depth", FALSE)
                 ELSE open
        child == IF a.made = <<>> THEN ended
                 ELSE [ended EXCEPT !.pending = {}, !.complete = TRUE]
        chains == IF a.made = <<>> THEN [a.chains EXCEPT ![i] = child]
                  ELSE Append(a.chains, child)
    IN  IF ~loop /\ key \in a.explored THEN a
        ELSE [chains |-> chains, explored |-> IF loop THEN a.explored ELSE a.explored \cup {key},
              made |-> Append(a.made, IF a.made = <<>> THEN i ELSE Len(chains))]

expand(d, q, w, i) ==
    LET dep == collect_dependencies(d, w.chains[i].cur)
        n == Lesser(Len(dep.deps), q.signals)
        considered == SubSeq(dep.deps, 1, n)
        rest == {x.sig : x \in Range(SubSeq(dep.deps, n + 1, Len(dep.deps)))}
        chain == [w.chains[i] EXCEPT !.hops = Append(@, [sig |-> w.chains[i].cur.sig,
                                                         tick |-> w.chains[i].cur.tick,
                                                         rels |-> w.chains[i].rels])]
        cut == [chain EXCEPT !.pending = @ \cup rest, !.complete = @ /\ rest = {}]
        children == SelectSeq(considered, LAMBDA x : XAt(d, x.sig, chain.cur.tick))
        unreadable == \E x \in Range(considered) : ~read_point(d, x.sig, chain.cur.tick)
        a == FoldLeft(LAMBDA acc, x : add_child(d, q, i, cut, acc, x),
                      [chains |-> w.chains, explored |-> w.explored, made |-> <<>>], children)
        next == [w EXCEPT !.processed = @ + 1,
                          !.limitations = @ \/ (~dep.force /\ rest # {})]
        ended(c) == [next EXCEPT !.chains[i] = c]
        running == SelectSeq(Reverse(a.made), LAMBDA k : ~a.chains[k].finished)
    IN  CASE dep.force -> ended(Origin(chain, "force_x", TRUE))
          [] ~dep.force /\ children = <<>> ->
                ended(origin_without_children(cut, dep, unreadable))
          [] ~dep.force /\ children # <<>> /\ a.made = <<>> ->
                ended([cut EXCEPT !.suppressed = TRUE, !.finished = TRUE])
          [] OTHER -> [next EXCEPT !.chains = a.chains, !.explored = a.explored,
                                   !.stack = @ \o running]

\* A limit of the whole search ends the chain and all that wait.
stop_remaining(w, i, detail) ==
    [w EXCEPT !.stack = <<>>, !.limitations = TRUE,
       !.chains = [k \in DOMAIN @ |->
          IF k = i \/ (k \in Range(w.stack) /\ ~@[k].finished)
          THEN stop_chain(@[k], "limit", detail, FALSE) ELSE @[k]]]

search_step(d, q, w) ==
    LET i == Last(w.stack)
        p == [w EXCEPT !.stack = Front(@)]
        times == w.times \cup {w.chains[i].cur.tick}
    IN  IF w.processed >= q.nodes THEN stop_remaining(p, i, "max_nodes")
        ELSE IF times # w.times /\ Cardinality(times) > q.steps
        THEN stop_remaining([p EXCEPT !.times = times], i, "max_time_steps")
        ELSE expand(d, q, [p EXCEPT !.times = times], i)

prefer_effective_chain(c, e) ==
    IF c.complete # e.complete THEN c.complete
    ELSE IF (c.status = "limit") # (e.status = "limit") THEN c.status # "limit"
    ELSE Len(c.hops) < Len(e.hops)

\* One chain per semantic identity.
effective_chains(chains) ==
    FoldLeft(LAMBDA acc, c :
               LET same == {k \in DOMAIN acc : acc[k].sem = c.sem}
               IN  IF c.suppressed THEN acc
                   ELSE IF same = {} THEN Append(acc, c)
                   ELSE [k \in DOMAIN acc |-> IF k \in same /\ prefer_effective_chain(c, acc[k])
                                              THEN c ELSE acc[k]],
             <<>>, chains)

\* Beyond max_chains the first chain keeps what was left out as pending.
cut_chains(chains, max) ==
    IF Len(chains) <= max THEN chains
    ELSE [SubSeq(chains, 1, max) EXCEPT
            ![1].complete = FALSE,
            ![1].pending = @ \cup {c.cur.sig : c \in Range(SubSeq(chains, max + 1, Len(chains)))}]

limited(c) == c.status = "limit" \/ ~c.complete
termination(chains) ==
    LET cut == {k \in DOMAIN chains : limited(chains[k])}
    IN  CASE cut # {} -> IF cut = DOMAIN chains THEN "limit" ELSE "partial"
          [] cut = {} /\ (\E k \in DOMAIN chains : chains[k].origin) -> "origin_found"
          [] OTHER -> IF chains = <<>> THEN "x_not_observable_upstream" ELSE chains[1].status

XSearch(d, q, root) ==
    FoldLeft(LAMBDA w, i : IF w.stack = <<>> THEN w ELSE search_step(d, q, w),
             [chains |-> <<XChain(root)>>, stack |-> <<1>>, times |-> {}, processed |-> 0,
              explored |-> {trace_x_origin_exploration_state_key(XChain(root))},
              limitations |-> FALSE], Times(q.nodes + 1))

\* An answer without a limited chain counts as complete; limitations says that
\* it also lists something that a limit left out.
TraceXOriginHandler(d, limits, s, t) ==
    LET q == Limits(limits)
        w == XSearch(d, q, find_x_onset(d, s, t))
        chains == cut_chains(effective_chains(w.chains), q.chains)
    IN  IF s = None THEN [error |-> "MISSING_FIELD"]
        ELSE IF ~read_point(d, s, t)
        THEN [error |-> IF d[s].changes = <<>> THEN "SIGNAL_NOT_FOUND" ELSE "VALUE_NOT_AVAILABLE"]
        ELSE IF ~XAt(d, s, t)
        THEN [error |-> "", chains |-> <<>>, termination |-> "not_x_at_query_time",
              complete |-> TRUE, limitations |-> FALSE, frontiers |-> {}]
        ELSE [error |-> "", chains |-> chains, termination |-> termination(chains),
              complete |-> \A k \in DOMAIN chains : ~limited(chains[k]),
              limitations |-> w.limitations \/ chains # effective_chains(w.chains),
              frontiers |-> {visit_key(c.cur) : c \in {e \in Range(chains) :
                               e.status = "limit" /\ e.detail = "max_depth"}}]

----------------------------------------------------------------------------
(* What the answers promise each other.                                    *)

\* A chain is a walk: each node's driver is the next node, looked at when the
\* node got its value, never later, and no signal is explained twice at one
\* time.  Where the depth stopped the walk, going on from the frontier gives
\* the rest of the chain, unless the chain runs into a loop.
ChainContinues(d, q, big, s, t) ==
    LET c == build_chain(d, q, s, t)
        full == build_chain(d, big, s, t)
        rest == build_chain(d, big, c.frontier[1].signal, c.frontier[1].time)
    IN  /\ \A i \in DOMAIN c.chain :
             /\ c.chain[i].active <= c.chain[i].time
             /\ i < Len(c.chain) => /\ c.chain[i].next = c.chain[i + 1].signal
                                    /\ c.chain[i].active = c.chain[i + 1].time
             /\ \A j \in 1 .. i - 1 : <<c.chain[i].signal, c.chain[i].time>>
                                         # <<c.chain[j].signal, c.chain[j].time>>
        /\ c.term = "limit" <=> c.truncated /\ c.detail \in {"max_depth", "max_nodes"}
        /\ c.frontier # <<>> /\ full.term # "loop_detected" =>
             full.chain = c.chain \o rest.chain /\ full.term = rest.term

\* The signals in the order the walks explain them.
Explained(nodes) ==
    FoldLeft(LAMBDA acc, n : IF acc # <<>> /\ Last(acc) = n.signal THEN acc
                             ELSE Append(acc, n.signal), <<>>, nodes)

\* trace.active_driver and trace.active_driver_chain explain a signal by the
\* same drivers: one explains a prefix of what the other does.  References
\* are the business of the first only, and so is a force on a connected port.
WalksAgree(d, q, s, t) ==
    LET a == Explained(build_chain(d, q, s, t).chain)
        b == Explained(build_active_trace(d, q, s, t).nodes)
    IN  (\A x \in DOMAIN d : /\ d[x].aliases = <<>>
                             /\ ~(d[x].input /\ d[x].target # None /\ \E st \in Range(d[x].stmts) :
                                     st.kind = "force")) => IsPrefix(a, b) \/ IsPrefix(b, a)

\* The two answers refuse alike, and where the chain names a final driver
\* without a limit the other one reports the signal as resolved.
AnswersAgree(d, q, s, t) ==
    LET c == build_active_driver_chain_payload(d, q, s, t)
        b == build_active_driver_payload(d, q, s, t)
    IN  /\ c.error = b.error
        /\ c.error = "" =>
             /\ c.continue_from # <<>> => ~c.complete
             /\ c.complete /\ c.result.term \in {"assignment", "force", "primary_input"}
                  /\ b.complete => b.driver_status = "resolved"

\* The tree of trace.active_driver: edges lead from an earlier node to a
\* later one, and every node but those of the query has one, or is a
\* reference.
TreeSound(d, q, s, t) ==
    LET b == build_active_trace(d, q, s, t)
    IN  /\ Len(b.nodes) <= q.nodes
        /\ \A e \in b.edges : e[1] < e[2] /\ e[2] \in DOMAIN b.nodes
                              /\ b.nodes[e[1]].next \in {b.nodes[e[2]].signal, None}
        /\ \A n \in DOMAIN b.nodes : b.nodes[n].signal # s /\ d[b.nodes[n].signal].aliases = <<>> =>
             Cardinality({e \in b.edges : e[2] = n}) = 1

\* The unknown values an unknown value at p comes from, whatever the limits.
XSteps(d, p) ==
    LET dep == collect_dependencies(d, p)
    IN  IF dep.force THEN {}
        ELSE {[rels |-> x.rels, p |-> find_x_onset(d, x.sig, p.tick)] :
                x \in {y \in Range(dep.deps) : XAt(d, y.sig, p.tick)}}

\* The ways back from the query that pass no point twice, a last step back to
\* an earlier point included, with the identity of each.
LoopFree(x) == visit_key(x.p) \notin Range(Front(x.at))
Longer(d, x) ==
    {[at |-> Append(x.at, visit_key(e.p)), sem |-> x.sem \o semantic_hop(e.rels, e.p),
      p |-> e.p] : e \in XSteps(d, x.p)}
XPaths(d, s, t) ==
    LET root == find_x_onset(d, s, t)
        first == {[at |-> <<visit_key(root)>>, sem |-> semantic_hop({"root"}, root), p |-> root]}
    IN  FoldLeft(LAMBDA S, i : LET new == UNION {Longer(d, x) : x \in {y \in S.new : LoopFree(y)}}
                               IN  [all |-> S.all \cup new, new |-> new],
                 [all |-> first, new |-> first], Times((t + 1) * Cardinality(DOMAIN d))).all

\* Two ways that part from each other but have one identity, because they
\* differ in connections only.
Forked(paths) == \E x, y \in paths : /\ x.sem = y.sem
                                     /\ ~IsPrefix(x.at, y.at) /\ ~IsPrefix(y.at, x.at)
Found(r) == {visit_key(c.cur) : c \in {e \in Range(r.chains) : e.origin}}

\* trace.x_origin: every chain follows dependencies that were unknown when
\* the value spread, back in time, and ends at a source unless it is limited.
\* Where no connection forks, every source is found without a limit or in an
\* answer that calls itself complete, and a source the depth cuts off is
\* found again from the frontiers.  Where one forks, the sources of one
\* identity are merged: one chain of that identity is reported for them all,
\* and a complete answer to a limited request may stop before it.
XOriginsFound(d, q, big, s, t) ==
    LET full == TraceXOriginHandler(d, big, s, t)
        r == TraceXOriginHandler(d, q, s, t)
        again == UNION {Found(TraceXOriginHandler(d, big, f[1], f[2])) : f \in r.frontiers}
        paths == XPaths(d, s, t)
        forked == Forked(paths)
        ends == {x \in paths : XSteps(d, x.p) = {}}
        sources == {visit_key(x.p) : x \in ends}
        finished == r.complete /\ ~r.limitations
    IN  XAt(d, s, t) =>
        /\ \A x \in ends : \E c \in Range(full.chains) : c.sem = x.sem
        /\ Found(full) \subseteq sources
        /\ \A c \in Range(r.chains) :
             /\ c.origin /\ ~limited(c) => visit_key(c.cur) \in sources
             /\ \A i \in DOMAIN c.hops :
                  /\ \E x \in paths : visit_key(x.p) = <<c.hops[i].sig, c.hops[i].tick>>
                  /\ i > 1 => c.hops[i].tick <= c.hops[i - 1].tick
        /\ finished => \A x \in ends : \E c \in Range(r.chains) : IsPrefix(c.sem, x.sem)
        /\ ~forked => /\ Found(full) = sources
                      /\ finished => Found(r) = sources
                      /\ q = [big EXCEPT !.depth = q.depth] => sources \subseteq Found(r) \cup again
=============================================================================
