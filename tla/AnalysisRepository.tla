-------------------------- MODULE AnalysisRepository --------------------------
(***************************************************************************)
(* The analysis cache of one engine process (class AnalysisRepository):    *)
(* canonical analysis results, the lazy indexes built on them, the         *)
(* cursors that walk them, the generations, the tombstones of evicted keys *)
(* and the stream bindings, all charged against one byte budget.           *)
(*                                                                         *)
(* The repository is a record r and every method is an operator from a     *)
(* record to a record; AnalysisCache holds it in a variable and calls it   *)
(* as the analyzers do.  Access sequences are only ever compared, so each  *)
(* map keeps its keys in the order of their last access instead (lru,      *)
(* ilru, tlru, clru): the head is the next victim.                         *)
(***************************************************************************)
EXTENDS Integers, FiniteSets, Sequences, SequencesExt, FiniteSetsExt, SequenceFilters

CONSTANTS SoftMax,        \* config_.soft_max_bytes, 0 turns the soft budget off
          HardMax,        \* config_.hard_max_bytes
          SafetyFactor,   \* config_.estimator_safety_factor
          KeyBytes,       \* key_metadata_bytes of a key
          CursorBytes,    \* cursor_metadata_bytes of a cursor
          BindingBytes    \* binding_metadata_bytes of a stream binding

\* analysis_cache_config_from_environment: the soft budget never exceeds the
\* hard one, and the hard one is positive.
ConfigAccepted ==
  /\ SoftMax \in Nat /\ HardMax \in Nat \ {0} /\ SoftMax <= HardMax
  /\ SafetyFactor \in Nat \ {0}

ASSUME BudgetAssumption ==
  /\ ConfigAccepted
  /\ KeyBytes \in Nat /\ CursorBytes \in Nat /\ BindingBytes \in Nat

(***************************************************************************)
(* Shapes.                                                                 *)
(***************************************************************************)
\* stats_ without the access sequence.
NoStats == [resident |-> 0, build |-> 0, charged |-> 0, metadata |-> 0,
            canonicals |-> 0, indexes |-> 0, generations |-> 0, cursors |-> 0,
            bindings |-> 0, tombstones |-> 0]

NoFun == [x \in {} |-> x]

EmptyRepository ==
  [canon |-> NoFun, lru |-> <<>>, index |-> NoFun, ilru |-> <<>>,
   gens |-> NoFun, tlru |-> <<>>, cursor |-> NoFun, clru |-> <<>>,
   binding |-> NoFun, stats |-> NoStats]

\* A key is [proto, sem, scope]; session, FSDB identity and fingerprint version
\* are fixed for the life of an engine, and digest is a function of the rest.
is_stream_sibling_range(c, full) ==
  /\ full.proto = "stream" /\ full.scope = "full"
  /\ c.proto = "stream" /\ c.scope # "full" /\ c.sem = full.sem

FullStream(k) == k.proto = "stream" /\ k.scope = "full"

Without(f, S) == [x \in DOMAIN f \ S |-> f[x]]
With(f, x, v) == [y \in DOMAIN f \cup {x} |-> IF y = x THEN v ELSE f[y]]
Dropped(s, S) == Filtered(s, Range(s) \ S)
Touched(s, x) == Append(Dropped(s, {x}), x)

charge(bytes) == bytes * SafetyFactor
Less(a, b) == IF b > a THEN 0 ELSE a - b

add_bytes(r, field, bytes) ==
  [r EXCEPT !.stats[field] = @ + bytes, !.stats.charged = @ + charge(bytes)]

remove_bytes(r, field, bytes) ==
  [r EXCEPT !.stats[field] = Less(@, bytes),
            !.stats.charged = Less(@, charge(bytes))]

counted(r, field, by) == [r EXCEPT !.stats[field] = @ + by]
uncounted(r, field, by) == [r EXCEPT !.stats[field] = Less(@, by)]

(***************************************************************************)
(* Metadata.                                                               *)
(***************************************************************************)
erase_generation_if_unreferenced(r, k) ==
  IF \/ k \in DOMAIN r.canon
     \/ \E c \in DOMAIN r.cursor : r.cursor[c].key = k
     \/ k \notin DOMAIN r.gens
  THEN r
  ELSE uncounted([remove_bytes(r, "metadata", KeyBytes)
                    EXCEPT !.gens = Without(@, {k})], "generations", 1)

erase_tombstone(r, k) ==
  IF k \notin Range(r.tlru) THEN r
  ELSE uncounted([remove_bytes(r, "metadata", KeyBytes)
                    EXCEPT !.tlru = Dropped(@, {k})], "tombstones", 1)

\* Drops cursor records; the caller decides about the generation.
drop_cursors(r, S) ==
  uncounted([remove_bytes(r, "metadata", CursorBytes * Cardinality(S))
               EXCEPT !.cursor = Without(@, S), !.clru = Dropped(@, S)],
            "cursors", Cardinality(S))

\* Mutant: the cursor outlives the re-analysis of its name.
erase_cursor_omitted(r, id) == r

erase_cursor(r, id) ==
  IF id \notin DOMAIN r.cursor THEN r
  ELSE erase_generation_if_unreferenced(drop_cursors(r, {id}), r.cursor[id].key)

\* The oldest tombstone, else the oldest cursor, else the first binding.
HasMetadata(r) == r.tlru # <<>> \/ r.clru # <<>> \/ DOMAIN r.binding # {}

erase_one_releasable_metadata(r) ==
  CASE r.tlru # <<>> ->
         erase_generation_if_unreferenced(erase_tombstone(r, Head(r.tlru)),
                                          Head(r.tlru))
    [] r.tlru = <<>> /\ r.clru # <<>> -> erase_cursor(r, Head(r.clru))
    [] OTHER ->
         LET n == CHOOSE b \in DOMAIN r.binding : TRUE
         IN uncounted([remove_bytes(r, "metadata", BindingBytes)
                         EXCEPT !.binding = Without(@, {n})], "bindings", 1)

(***************************************************************************)
(* Erasing objects.                                                        *)
(***************************************************************************)
ReadyCount(f, S) == Cardinality({x \in S : f[x].st = "ready"})
BytesOf(f, S, field) == MapThenSumSet(LAMBDA x : f[x][field], S)

erase_indexes(r, S) ==
  LET out == remove_bytes(remove_bytes(r, "resident", BytesOf(r.index, S, "res")),
                          "build", BytesOf(r.index, S, "bld"))
  IN uncounted([out EXCEPT !.index = Without(@, S), !.ilru = Dropped(@, S)],
               "indexes", ReadyCount(r.index, S))

\* store->erase(found) where the caller has settled the byte counters.
erase_entry(r, k) == [r EXCEPT !.canon = Without(@, {k}), !.lru = Dropped(@, {k})]

\* The object o of k: its bytes, its entry and its count.
erase_object(r, k, o) ==
  uncounted(erase_entry(remove_bytes(remove_bytes(r, "resident", o.res), "build", o.bld), k),
            "canonicals", IF o.st = "ready" THEN 1 ELSE 0)

erase_canonical_internal(r, k, invalidate_cursors) ==
  IF k \notin DOMAIN r.canon THEN r
  ELSE erase_generation_if_unreferenced(
         erase_object(
           drop_cursors(erase_indexes(r, {i \in DOMAIN r.index : i[1] = k}),
                        {c \in DOMAIN r.cursor : /\ invalidate_cursors
                                                 /\ r.cursor[c].key = k}),
           k, r.canon[k]), k)

sibling_ranges(r, full) == {k \in DOMAIN r.canon : is_stream_sibling_range(k, full)}

erase_stream_sibling_ranges(r, full) ==
  FoldLeft(LAMBDA q, k : erase_canonical_internal(q, k, TRUE),
           r, SetToSeq(sibling_ranges(r, full)))

(***************************************************************************)
(* Budgets.  fuel is the number of request_deadline_checkpoint calls that  *)
(* pass before the request's deadline expires; a loop that runs out of it  *)
(* throws and leaves the repository as it is (thrown = TRUE).              *)
(***************************************************************************)
Loop(r, fuel) == [r |-> r, fuel |-> fuel, thrown |-> FALSE]

current_charged_bytes(r, excl) ==
  LET canons == {k \in DOMAIN r.canon : excl # <<>> /\ is_stream_sibling_range(k, excl[1])}
      idxs == {i \in DOMAIN r.index : excl # <<>> /\ is_stream_sibling_range(i[1], excl[1])}
  IN Less(r.stats.charged,
          charge(BytesOf(r.canon, canons, "res") + BytesOf(r.canon, canons, "bld")
                 + BytesOf(r.index, idxs, "res") + BytesOf(r.index, idxs, "bld")))

Fits(r, limit, new, excl) == current_charged_bytes(r, excl) + new <= limit

evict_index(r, i) == IF i \notin DOMAIN r.index THEN r ELSE erase_indexes(r, {i})

bury(r, k) ==
  IF k \in Range(r.tlru) THEN [r EXCEPT !.tlru = Touched(@, k)]
  ELSE counted([add_bytes(r, "metadata", KeyBytes) EXCEPT !.tlru = Append(@, k)],
               "tombstones", 1)

\* An evicted canonical leaves a tombstone, and keeps its cursors.
evict_canonical(r, k) ==
  IF k \notin DOMAIN r.canon THEN r ELSE bury(erase_canonical_internal(r, k, FALSE), k)

\* One round of an eviction loop, where evicting the candidate gives q.
evict_round(a, q, limit, new, excl) ==
  IF a.thrown \/ Fits(a.r, limit, new, excl) THEN a
  ELSE IF a.fuel = 0 THEN [r |-> a.r, fuel |-> 0, thrown |-> TRUE]
  ELSE [r |-> q, fuel |-> a.fuel - 1, thrown |-> FALSE]

Kept(k, keep) == keep # <<>> /\ is_stream_sibling_range(k, keep[1])

\* The first loop of evict_to_budget, over the indexes, and the second.
index_candidates(r, protIdx, keep) ==
  Filtered(r.ilru, {i \in DOMAIN r.index : /\ r.index[i].st = "ready"
                                           /\ <<i>> # protIdx /\ ~Kept(i[1], keep)})
evict_indexes(l, limit, new, protIdx, keep, excl) ==
  FoldLeft(LAMBDA a, x : evict_round(a, evict_index(a.r, x), limit, new, excl),
           l, index_candidates(l.r, protIdx, keep))

canonical_candidates(r, prot, keep) ==
  Filtered(r.lru, {k \in DOMAIN r.canon : /\ r.canon[k].st = "ready"
                                          /\ <<k>> # prot /\ ~Kept(k, keep)})
evict_canonicals(l, limit, new, prot, keep, excl) ==
  FoldLeft(LAMBDA a, x : evict_round(a, evict_canonical(a.r, x), limit, new, excl),
           l, canonical_candidates(l.r, prot, keep))

\* prot = <<protected canonical>> or <<>>, protIdx likewise; keep = the full
\* stream key whose range siblings must stay, or <<>>.
evict_to_budget(r, fuel, limit, new, prot, protIdx, keep, excl) ==
  evict_canonicals(evict_indexes(Loop(r, fuel), limit, new, protIdx, keep, excl),
                   limit, new, prot, keep, excl)

\* One round of the loop of make_hard_room: the record goes, then the checkpoint.
release_round(a, limit, new, excl) ==
  IF a.thrown \/ Fits(a.r, limit, new, excl) \/ ~HasMetadata(a.r) THEN a
  ELSE [r |-> erase_one_releasable_metadata(a.r),
        fuel |-> IF a.fuel = 0 THEN 0 ELSE a.fuel - 1,
        thrown |-> a.fuel = 0]

ReleaseMetadata(l, limit, new, excl) ==
  LET n == Len(l.r.tlru) + Len(l.r.clru) + Cardinality(DOMAIN l.r.binding)
  IN FoldLeft(LAMBDA a, i : release_round(a, limit, new, excl), l, [i \in 1..n |-> i])

\* Result of make_hard_room: [r, fuel, thrown, ok].
Room(l, new, excl) ==
  [r |-> l.r, fuel |-> l.fuel, thrown |-> l.thrown,
   ok |-> ~l.thrown /\ Fits(l.r, HardMax, new, excl)]

\* Mutant: eviction for room may take the protected owner.
make_hard_room_unprotected(r, fuel, new, prot, protIdx, key, excl) ==
  Room(evict_to_budget(r, fuel, HardMax, new, <<>>, <<>>, <<>>, excl), new, excl)

\* Mutant: what was evicted is taken to be enough.
make_hard_room_trusting(r, fuel, new, prot, protIdx, key, excl) ==
  [Room(evict_to_budget(r, fuel, HardMax, new, prot, protIdx, <<>>, excl), new, excl)
     EXCEPT !.ok = TRUE]

make_hard_room(r, fuel, new, prot, protIdx, key, excl) ==
  Room(ReleaseMetadata(evict_to_budget(r, fuel, HardMax, new, prot, protIdx,
                                       IF FullStream(key) THEN <<key>> ELSE <<>>, excl),
                       HardMax, new, excl), new, excl)

enforce_soft_budget(r, fuel, prot, protIdx) ==
  IF SoftMax = 0 THEN Loop(r, fuel)
  ELSE evict_to_budget(r, fuel, SoftMax + charge(r.stats.metadata), 0,
                       prot, protIdx, <<>>, <<>>)

(***************************************************************************)
(* The methods.  A result is [r, thrown, status]: status is one of the     *)
(* AnalysisAcquireStatus values for the begin methods and "ok" or          *)
(* "rejected" for the others.  When thrown, the status is not returned.    *)
(***************************************************************************)
Result(r, thrown, status) == [r |-> r, thrown |-> thrown, status |-> status]

add_generation(r, k) ==
  IF k \in DOMAIN r.gens THEN r
  ELSE counted(add_bytes([r EXCEPT !.gens = With(@, k, 0)], "metadata", KeyBytes),
               "generations", 1)

\* The part of begin_canonical after make_hard_room, whose result is m.
start_canonical(m, k, bytes) ==
  LET g == IF k \in DOMAIN m.r.gens THEN m.r.gens[k] + 1 ELSE 1
      obj == [st |-> "building", gen |-> g, res |-> 0, bld |-> bytes]
  IN IF m.thrown \/ ~m.ok THEN Result(m.r, m.thrown, "rejected")
     ELSE Result(add_bytes([add_generation(m.r, k) EXCEPT !.gens[k] = g,
                                                          !.canon = With(@, k, obj),
                                                          !.lru = Touched(@, k)],
                           "build", bytes), FALSE, "started")

begin_canonical(r, fuel, k, bytes) ==
  IF k \in DOMAIN r.canon
  THEN IF r.canon[k].st = "building" THEN Result(r, FALSE, "reentrant")
       ELSE Result([r EXCEPT !.lru = Touched(@, k)], FALSE, "hit")
  ELSE start_canonical(
         make_hard_room(r, fuel,
                        charge(bytes) + IF k \in DOMAIN r.gens THEN 0 ELSE charge(KeyBytes),
                        <<>>, <<>>, k, <<>>), k, bytes)

\* The building entry is dropped when its bytes do not fit.
abandon_canonical(r, k) == erase_generation_if_unreferenced(erase_entry(r, k), k)

\* Mutant: the entry keeps the estimate that was given back.
return_build_bytes_kept(r, k) == remove_bytes(r, "build", r.canon[k].bld)

\* The accounting step publish and update share: give the old build bytes back.
return_build_bytes(r, k) ==
  [remove_bytes(r, "build", r.canon[k].bld) EXCEPT !.canon[k].bld = 0]

BuildingCanonical(r, k) == k \in DOMAIN r.canon /\ r.canon[k].st = "building"

\* What publish and update do with the room m they asked for: a deadline leaves
\* the entry as it is, no room abandons it, and otherwise done is the result.
with_room(m, k, done) ==
  CASE m.thrown -> Result(m.r, TRUE, "rejected")
    [] ~m.thrown /\ ~m.ok -> Result(abandon_canonical(m.r, k), FALSE, "rejected")
    [] OTHER -> done

rebuild_canonical(m, k, bytes) ==
  with_room(m, k, Result(add_bytes([m.r EXCEPT !.canon[k].bld = bytes], "build", bytes),
                         FALSE, "ok"))

update_canonical_build_bytes(r, fuel, k, bytes) ==
  IF ~BuildingCanonical(r, k) THEN Result(r, FALSE, "rejected")
  ELSE rebuild_canonical(make_hard_room(return_build_bytes(r, k), fuel, charge(bytes),
                                        <<k>>, <<>>, k, <<>>), k, bytes)

mark_ready(r, k, bytes) ==
  counted(add_bytes([r EXCEPT !.canon[k].st = "ready", !.canon[k].res = bytes,
                              !.lru = Touched(@, k)], "resident", bytes),
          "canonicals", 1)

\* The tombstone of an earlier eviction goes last, after the soft budget.
settled(l, k) ==
  IF l.thrown THEN Result(l.r, TRUE, "ok") ELSE Result(erase_tombstone(l.r, k), FALSE, "ok")

ready_canonical(m, k, bytes) ==
  with_room(m, k,
    settled(enforce_soft_budget(
              mark_ready(IF FullStream(k) THEN erase_stream_sibling_ranges(m.r, k) ELSE m.r,
                         k, bytes), m.fuel, <<k>>, <<>>), k))

publish_canonical(r, fuel, k, bytes) ==
  IF ~BuildingCanonical(r, k) THEN Result(r, FALSE, "rejected")
  ELSE ready_canonical(make_hard_room(return_build_bytes(r, k), fuel, charge(bytes), <<k>>,
                                      <<>>, k, IF FullStream(k) THEN <<k>> ELSE <<>>),
                       k, bytes)

fail_canonical(r, k) ==
  IF ~BuildingCanonical(r, k) THEN r ELSE abandon_canonical(return_build_bytes(r, k), k)

\* peek_canonical: <<generation>> of a ready entry, <<>> when there is none.
peek_canonical(r, k) ==
  IF k \in DOMAIN r.canon /\ r.canon[k].st = "ready" THEN <<r.canon[k].gen>> ELSE <<>>

\* Recording an access to an index counts as one to its owner.
touch_index(r, i) == [r EXCEPT !.ilru = Touched(@, i), !.lru = Touched(@, i[1])]

start_index(m, i, bytes) ==
  IF m.thrown \/ ~m.ok THEN Result(m.r, m.thrown, "rejected")
  ELSE Result(add_bytes([m.r EXCEPT !.index = With(@, i, [st |-> "building", res |-> 0,
                                                          bld |-> bytes]),
                                    !.ilru = Touched(@, i)], "build", bytes),
              FALSE, "started")

begin_index(r, fuel, i, bytes) ==
  CASE peek_canonical(r, i[1]) # <<i[2]>> -> Result(r, FALSE, "rejected")
    [] /\ peek_canonical(r, i[1]) = <<i[2]>> /\ i \in DOMAIN r.index ->
         IF r.index[i].st = "building" THEN Result(r, FALSE, "reentrant")
         ELSE Result(touch_index(r, i), FALSE, "hit")
    [] OTHER -> start_index(make_hard_room(r, fuel, charge(bytes), <<i[1]>>, <<>>, i[1],
                                           <<>>), i, bytes)

drop_index(r, i) == [r EXCEPT !.index = Without(@, {i}), !.ilru = Dropped(@, {i})]

return_index_bytes(r, i) ==
  [remove_bytes(r, "build", r.index[i].bld) EXCEPT !.index[i].bld = 0]

BuildingIndex(r, i) == i \in DOMAIN r.index /\ r.index[i].st = "building"

index_room(r, fuel, i, bytes) ==
  make_hard_room(return_index_bytes(r, i), fuel, charge(bytes), <<i[1]>>, <<i>>, i[1], <<>>)

with_index_room(m, i, done) ==
  CASE m.thrown -> Result(m.r, TRUE, "rejected")
    [] ~m.thrown /\ ~m.ok -> Result(drop_index(m.r, i), FALSE, "rejected")
    [] OTHER -> done

rebuild_index(m, i, bytes) ==
  with_index_room(m, i, Result(add_bytes([m.r EXCEPT !.index[i].bld = bytes],
                                         "build", bytes), FALSE, "ok"))

update_index_build_bytes(r, fuel, i, bytes) ==
  IF ~BuildingIndex(r, i) THEN Result(r, FALSE, "rejected")
  ELSE rebuild_index(index_room(r, fuel, i, bytes), i, bytes)

mark_index_ready(r, i, bytes) ==
  counted(add_bytes([r EXCEPT !.index[i].st = "ready", !.index[i].res = bytes],
                    "resident", bytes), "indexes", 1)

settled_index(l) == Result(l.r, l.thrown, "ok")

ready_index(m, i, bytes) ==
  with_index_room(m, i,
    settled_index(enforce_soft_budget(touch_index(mark_index_ready(m.r, i, bytes), i), m.fuel,
                                <<i[1]>>, <<i>>)))

publish_index(r, fuel, i, bytes) ==
  IF ~BuildingIndex(r, i) THEN Result(r, FALSE, "rejected")
  ELSE ready_index(index_room(r, fuel, i, bytes), i, bytes)

fail_index(r, i) ==
  IF ~BuildingIndex(r, i) THEN r ELSE drop_index(return_index_bytes(r, i), i)

\* The part of put_cursor after make_hard_room; old is the size of the record
\* that was there before.
store_cursor(m, id, c, old) ==
  LET less == IF id \in DOMAIN m.r.cursor THEN remove_bytes(m.r, "metadata", old)
              ELSE counted(m.r, "cursors", 1)
  IN IF m.thrown \/ ~m.ok THEN Result(m.r, m.thrown, "rejected")
     ELSE Result(add_bytes([less EXCEPT !.cursor = With(@, id, c),
                                        !.clru = Touched(@, id)],
                           "metadata", CursorBytes), FALSE, "ok")

put_cursor(r, fuel, id, c) ==
  LET old == IF id \in DOMAIN r.cursor THEN CursorBytes ELSE 0
  IN store_cursor(IF CursorBytes > old
                  THEN make_hard_room(r, fuel, charge(CursorBytes - old), <<c.key>>, <<>>,
                                      c.key, <<>>)
                  ELSE [r |-> r, fuel |-> fuel, thrown |-> FALSE, ok |-> TRUE],
                  id, c, old)

resume_cursor(r, id, k, gen) ==
  IF id \notin DOMAIN r.cursor \/ r.cursor[id].key # k THEN Result(r, FALSE, "rejected")
  ELSE Result([r EXCEPT !.cursor[id].gen = gen, !.clru = Touched(@, id)], FALSE, "ok")

invalidate(r, k) == erase_canonical_internal(erase_tombstone(r, k), k, TRUE)

bind_stream(r, name, digest) ==
  add_bytes([(IF name \in DOMAIN r.binding THEN remove_bytes(r, "metadata", BindingBytes)
              ELSE counted(r, "bindings", 1)) EXCEPT !.binding = With(@, name, digest)],
            "metadata", BindingBytes)

\* The stream results of a digest, unless some binding still names it.
unbound_results(r, old) ==
  {k \in DOMAIN r.canon : /\ \A n \in DOMAIN r.binding : r.binding[n] # old
                          /\ k.proto = "stream" /\ k.sem = old}

invalidate_each(r, S) == FoldLeft(LAMBDA q, k : invalidate(q, k), r, SetToSeq(S))

\* The checkpoint before the entries of the old digest go can end the request
\* with the binding already moved.
retire_digest(l, old, new) ==
  CASE l.thrown \/ old \in {"", new} -> Result(l.r, l.thrown, "ok")
    [] ~l.thrown /\ old \notin {"", new} /\ l.fuel = 0 -> Result(l.r, TRUE, "ok")
    [] OTHER -> Result(invalidate_each(l.r, unbound_results(l.r, old)), FALSE, "ok")

\* One binding change (name, old digest, new digest).
notify_stream_config_change(r, fuel, name, old, new) ==
  IF fuel = 0 THEN Result(r, TRUE, "ok")
  ELSE retire_digest(
         ReleaseMetadata(evict_to_budget(bind_stream(r, name, new), fuel - 1, HardMax, 0,
                                         <<>>, <<>>, <<>>, <<>>),
                         HardMax, 0, <<>>), old, new)

\* clear with the deadline not in force: close_fsdb_file runs outside a request.
clear(r) == EmptyRepository

(***************************************************************************)
(* debug_recomputed_stats: the counters recomputed from the maps.          *)
(***************************************************************************)
debug_recomputed_stats(r) ==
  LET K == DOMAIN r.canon  I == DOMAIN r.index
      res == BytesOf(r.canon, K, "res") + BytesOf(r.index, I, "res")
      bld == BytesOf(r.canon, K, "bld") + BytesOf(r.index, I, "bld")
      meta == KeyBytes * (Cardinality(DOMAIN r.gens) + Len(r.tlru))
              + CursorBytes * Cardinality(DOMAIN r.cursor)
              + BindingBytes * Cardinality(DOMAIN r.binding)
  IN [resident |-> res, build |-> bld, metadata |-> meta,
      charged |-> charge(res) + charge(bld) + charge(meta),
      canonicals |-> ReadyCount(r.canon, K), indexes |-> ReadyCount(r.index, I),
      generations |-> Cardinality(DOMAIN r.gens),
      cursors |-> Cardinality(DOMAIN r.cursor),
      bindings |-> Cardinality(DOMAIN r.binding), tombstones |-> Len(r.tlru)]
====
