---------------------------- MODULE AnalysisCache ----------------------------
(***************************************************************************)
(* The analyzers of one engine on top of the analysis repository.  The     *)
(* engine runs one action at a time (g_npi_request_mutex), so at most one  *)
(* build is under way (job); the repository is visible to it between its   *)
(* accounting calls.  A request's deadline can expire at any checkpoint:   *)
(* in a scan, and in the eviction loops (fuel).                            *)
(***************************************************************************)
EXTENDS AnalysisRepository

CONSTANTS Name,      \* configuration names of the protocol analyzers
          Sem,       \* normalized semantics a configuration can have
          Digest,    \* semantic digests of stream configurations
          Ranges,    \* scopes of range analyses
          Kinds,     \* lazy index kinds
          Sizes,     \* byte estimates a build can report
          StartBytes, \* sizeof of the empty result object
          Fuels,     \* checkpoints that pass before the deadline, -1: no deadline
          MaxGen,    \* bound on generations
          LastTxn    \* position of the last transaction of a result

\* Byte estimates are sizes, a deadline is a number of checkpoints.
ASSUME CacheAssumption ==
  /\ StartBytes \in Nat /\ Sizes \subseteq Nat /\ Fuels \subseteq Int
  /\ MaxGen \in Nat /\ LastTxn \in Nat

VARIABLES repo,      \* the repository
          keyof,     \* keys_ of the analyzers: name -> <<key>> or <<>>
          streamCfg, \* the stored stream configuration's digest, "" when absent
          job        \* the build under way: <<>>, <<"canon", key>>, <<"index", ikey>>

vars == <<repo, keyof, streamCfg, job>>

AxiKey(sem) == [proto |-> "axi", sem |-> sem, scope |-> "full"]
StreamKey(d, scope) == [proto |-> "stream", sem |-> d, scope |-> scope]

Init ==
  /\ repo = EmptyRepository
  /\ keyof = [n \in Name |-> <<>>]
  /\ streamCfg = ""
  /\ job = <<>>

\* Every method result: adopt the repository; the job goes on as next only when
\* the method returned, with the given status.
Adopt(res, next) == repo' = res.r /\ job' = next
Continue(res, status, next) ==
  Adopt(res, IF ~res.thrown /\ res.status = status THEN next ELSE <<>>)
\* A result that ends the build, or a method that follows it.
Refused(res) == res.thrown \/ res.status # "ok"

GenerationOk(k) == k \in DOMAIN repo.gens => repo.gens[k] < MaxGen

(***************************************************************************)
(* AxiAnalyzer::analyze and ApbAnalyzer::analyze up to the scan.           *)
(***************************************************************************)
analyze(n, sem, fuel) ==
  LET k == AxiKey(sem)
      moved == keyof[n] # <<>> /\ keyof[n] # <<k>>
  IN /\ job = <<>> /\ GenerationOk(k)
     /\ keyof' = [keyof EXCEPT ![n] = <<k>>]
     /\ Continue(begin_canonical(IF moved THEN erase_cursor(repo, n) ELSE repo,
                                 fuel, k, StartBytes), "started", <<"canon", k>>)
     /\ UNCHANGED streamCfg

\* StreamAnalyzer::analyze_cached up to the scan; the configuration is the
\* stored one.
analyze_cached(scope, fuel) ==
  LET k == StreamKey(streamCfg, scope)
  IN /\ job = <<>> /\ streamCfg # "" /\ GenerationOk(k)
     /\ Continue(begin_canonical(repo, fuel, k, StartBytes), "started", <<"canon", k>>)
     /\ UNCHANGED <<keyof, streamCfg>>

\* The working set is re-estimated at every power-of-two sample count.
Grow(bytes, fuel) ==
  /\ job # <<>> /\ job[1] = "canon"
  /\ Continue(update_canonical_build_bytes(repo, fuel, job[2], bytes), "ok", job)
  /\ UNCHANGED <<keyof, streamCfg>>

\* The scan is over: account for the result's size, then publish it.
PublishAfter(u, k, bytes, fuel) ==
  IF Refused(u) THEN u ELSE publish_canonical(u.r, fuel, k, bytes)
Finish(bytes, fuel) ==
  /\ job # <<>> /\ job[1] = "canon"
  /\ Adopt(PublishAfter(update_canonical_build_bytes(repo, fuel, job[2], bytes),
                        job[2], bytes, fuel), <<>>)
  /\ UNCHANGED <<keyof, streamCfg>>

\* A failed scan and a bad_alloc end in fail_canonical.
BuildFails ==
  /\ job # <<>>
  /\ repo' = IF job[1] = "canon" THEN fail_canonical(repo, job[2])
             ELSE fail_index(repo, job[2])
  /\ job' = <<>>
  /\ UNCHANGED <<keyof, streamCfg>>

\* RequestDeadlineExceeded thrown by a scan checkpoint: no handler on the way
\* to the engine's catch clause touches the repository.
ScanDeadline ==
  /\ job # <<>> /\ job[1] = "canon"
  /\ \E f \in Fuels : f >= 0
  /\ job' = <<>>
  /\ UNCHANGED <<repo, keyof, streamCfg>>

(***************************************************************************)
(* numeric_index, handshake_index and address_index.                       *)
(***************************************************************************)
ensure_index(n, kind, fuel) ==
  LET gen == peek_canonical(repo, keyof[n][1])
      i == <<keyof[n][1], gen[1], kind>>
  IN /\ job = <<>> /\ keyof[n] # <<>> /\ gen # <<>>
     /\ Continue(begin_index(repo, fuel, i, StartBytes), "started", <<"index", i>>)
     /\ UNCHANGED <<keyof, streamCfg>>

GrowIndex(bytes, fuel) ==
  /\ job # <<>> /\ job[1] = "index"
  /\ Continue(update_index_build_bytes(repo, fuel, job[2], bytes), "ok", job)
  /\ UNCHANGED <<keyof, streamCfg>>

PublishIndexAfter(u, i, bytes, fuel) ==
  IF Refused(u) THEN u ELSE publish_index(u.r, fuel, i, bytes)
FinishIndex(bytes, fuel) ==
  /\ job # <<>> /\ job[1] = "index"
  /\ Adopt(PublishIndexAfter(update_index_build_bytes(repo, fuel, job[2], bytes),
                             job[2], bytes, fuel), <<>>)
  /\ UNCHANGED <<keyof, streamCfg>>

(***************************************************************************)
(* The cursor commands of a name.                                          *)
(***************************************************************************)
CursorAt(n, pos) ==
  [key |-> keyof[n][1], gen |-> peek_canonical(repo, keyof[n][1])[1], pos |-> pos]

HasResult(n) == job = <<>> /\ keyof[n] # <<>> /\ peek_canonical(repo, keyof[n][1]) # <<>>

\* cursor_begin and cursor_last place the cursor.
cursor_place(n, pos, fuel) ==
  /\ HasResult(n)
  /\ Adopt(put_cursor(repo, fuel, n, CursorAt(n, pos)), <<>>)
  /\ UNCHANGED <<keyof, streamCfg>>

\* The cursor a step starts from: the stored one, brought to this generation.
Resumed(n) ==
  LET here == CursorAt(n, 0)
  IN IF n \in DOMAIN repo.cursor /\ repo.cursor[n].gen # here.gen
     THEN resume_cursor(repo, n, here.key, here.gen)
     ELSE Result(repo, FALSE, "ok")

\* cursor_next (by = 1) makes a cursor at the first position when there is none,
\* cursor_prev (by = -1) needs one; both refuse to leave the result.
cursor_move(n, by, fuel) ==
  LET s == Resumed(n)
      c == IF n \in DOMAIN s.r.cursor THEN s.r.cursor[n] ELSE CursorAt(n, 0)
      moved == [c EXCEPT !.pos = @ + by]
  IN /\ HasResult(n)
     /\ by = 1 \/ n \in DOMAIN repo.cursor
     /\ Adopt(IF s.status = "ok" /\ moved.pos \in 0..LastTxn
              THEN put_cursor(s.r, fuel, n, moved) ELSE s, <<>>)
     /\ UNCHANGED <<keyof, streamCfg>>

(***************************************************************************)
(* stream.config.load stores the configuration, then tells the repository. *)
(***************************************************************************)
load_stream_config(d, fuel) ==
  /\ job = <<>>
  /\ Adopt(notify_stream_config_change(repo, fuel, "st", streamCfg, d), <<>>)
  /\ streamCfg' = d
  /\ UNCHANGED keyof

\* close_fsdb_file: the analyzers forget their keys, the repository is cleared.
close_fsdb_file ==
  /\ job = <<>>
  /\ repo' = clear(repo)
  /\ keyof' = [n \in Name |-> <<>>]
  /\ UNCHANGED <<streamCfg, job>>

Next ==
  \/ \E n \in Name, s \in Sem, f \in Fuels : analyze(n, s, f)
  \/ \E s \in {"full"} \cup Ranges, f \in Fuels : analyze_cached(s, f)
  \/ \E b \in Sizes, f \in Fuels : Grow(b, f)
  \/ \E b \in Sizes, f \in Fuels : Finish(b, f)
  \/ BuildFails
  \/ ScanDeadline
  \/ \E n \in Name, k \in Kinds, f \in Fuels : ensure_index(n, k, f)
  \/ \E b \in Sizes, f \in Fuels : GrowIndex(b, f)
  \/ \E b \in Sizes, f \in Fuels : FinishIndex(b, f)
  \/ \E n \in Name, p \in {0, LastTxn}, f \in Fuels : cursor_place(n, p, f)
  \/ \E n \in Name, by \in {-1, 1}, f \in Fuels : cursor_move(n, by, f)
  \/ \E d \in Digest, f \in Fuels : load_stream_config(d, f)
  \/ close_fsdb_file

Spec == Init /\ [][Next]_vars

(***************************************************************************)
(* Properties.                                                             *)
(***************************************************************************)
\* The incremental byte and object counters that every admission decision
\* reads equal the counters recomputed from the maps, after any sequence of
\* builds, evictions, cursor moves and expired deadlines
\* (AnalysisRepository::stats against debug_recomputed_stats).
AccountingExact == repo.stats = debug_recomputed_stats(repo)

\* A lazy index is resident only while the very generation of the canonical
\* result it was built from is resident and ready, and the owner of the index
\* being built is never evicted under it: numeric_index and handshake_index
\* keep a raw pointer to the result across begin_index, update_index_build_bytes
\* and publish_index.
IndexOwned ==
  /\ \A i \in DOMAIN repo.index : peek_canonical(repo, i[1]) = <<i[2]>>
  /\ job # <<>> /\ job[1] = "index" => peek_canonical(repo, job[2][1]) = <<job[2][2]>>

\* A stored cursor of a name belongs to the key the name is bound to now, and
\* to a generation of it that is not newer than the resident one: cursor_next
\* protects the cursor's key from eviction while it holds the name's result.
CursorBound ==
  \A n \in DOMAIN repo.cursor :
    /\ keyof[n] = <<repo.cursor[n].key>>
    /\ repo.cursor[n].key \in DOMAIN repo.gens
    /\ repo.cursor[n].gen <= repo.gens[repo.cursor[n].key]

\* Objects and build estimates alone never exceed the hard budget.
ObjectsWithinHard ==
  charge(repo.stats.resident) + charge(repo.stats.build) <= HardMax

\* When no request is running nothing is marked as building, so that the next
\* request for the same key can build it (begin_canonical answers a building
\* key with ANALYSIS_CACHE_REENTRANT_BUILD).
NothingBuildingWhenIdle ==
  job = <<>> => /\ \A k \in DOMAIN repo.canon : repo.canon[k].st = "ready"
                /\ \A i \in DOMAIN repo.index : repo.index[i].st = "ready"
====
