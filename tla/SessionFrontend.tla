------------------------- MODULE SessionFrontend -------------------------
(***************************************************************************)
(* xdebug's public front ends: each runs the stdio loop (api/stdio_loop)   *)
(* over a dispatcher (api/dispatcher) whose session actions and queries    *)
(* run one short-lived engine helper per backend call                      *)
(* (backend/engine_adapter, core/process/process_runner,                   *)
(* engine/engine_query).  All front ends of a user share the session       *)
(* records under ~/.xdebug/engine (session/session_catalog) and nothing    *)
(* else; the lifecycle lease of a session name serialises the helpers that *)
(* change it, while records are read without it.                           *)
(*                                                                         *)
(* One action is one backend call or one read of the catalog: everything   *)
(* between two of them is local to its front end.  What a helper does      *)
(* under the lease is the subject of NativeSession; here it is one step    *)
(* with every outcome the caller can see.                                  *)
(***************************************************************************)
EXTENDS Naturals, Sequences, FiniteSets, SequencesExt

CONSTANTS FrontEnd,     \* front-end processes
          Name,         \* session names, numbers in the order of the catalog
          Token,        \* ownership tokens chosen by clients
          Request,      \* the requests of the lines below and the children of batches
          Line,         \* per front end: for its first, second, ... input line, the set
                        \* of lines its client may send
          IdleTimeout,  \* session_idle_timeout_sec
          MaxEvents,    \* bound: engine deaths, seconds and resource changes together
          MaxGen,       \* bound: session generations ever created
          None          \* "nothing", outside every other set

ASSUME TimeoutAssumption == IdleTimeout \in Nat \ {0} /\ MaxEvents \in Nat

\* Tokens the dispatcher draws for itself (32 random bytes) are numbers here:
\* no client comes up with one.
ASSUME TokenAssumption == \A t \in Token : t \notin Nat

\* A record in state.json, and what a batch reply says of its request.
SessionState == {"opening", "active", "cleanup_failed", "terminated_on_timeout"}
Record == [name : Name, gen : Nat, tok : Nat \cup Token, state : SessionState,
           pid : BOOLEAN, created : Nat, active : Nat, fsdb : Nat]
Asked == [kids : Nat, stop : BOOLEAN, timed : BOOLEAN]

ASSUME NoneAssumption == /\ None \notin FrontEnd /\ None \notin Nat /\ None \notin Token
                         /\ None \notin Record /\ None \notin Asked

VARIABLES reg,     \* per name: None or the record in state.json
          lease,   \* per name: None or the front end whose helper is opening it
          up,      \* the generations whose engine process runs and answers
          clock,   \* seconds, starting at 1
          file,    \* current fingerprint of the FSDB all sessions use
          events,  \* how many of those have happened
          gens,    \* generations created so far
          toks,    \* conditional-cleanup tokens generated so far
          fe,      \* per front end: its loop and dispatcher state
          out,     \* per front end: replies written to stdout
          reclaims \* history: what gc, expiry and compensation removed

vars == <<reg, lease, up, clock, file, events, gens, toks, fe, out, reclaims>>
world == <<clock, file, events>>

AnyLine == UNION {UNION {Line[f][i] : i \in DOMAIN Line[f]} : f \in FrontEnd}

ASSUME RequestAssumption ==
  /\ Request \subseteq [action : STRING, name : Name, tok : Token \cup {None},
                        force : BOOLEAN, retire : BOOLEAN,
                        kids : Seq(Request), stop : BOOLEAN, timed : BOOLEAN]
  /\ \A line \in AnyLine : line.kind = "request" => line.req \in Request
  /\ \A f \in FrontEnd : DOMAIN Line[f] \subseteq Nat

---------------------------------------------------------------------------
(* Requests and replies. *)

\* The reply of a handler: an outcome code, what a compensation achieved and,
\* for batch, the results of the children with the indexes reported as failed.
Outcome(ok, code) ==
  [ok |-> ok, code |-> code, tok |-> None, cleaned |-> FALSE,
   results |-> <<>>, failed |-> {}, asked |-> None]
Ok == Outcome(TRUE, "OK")
Err(code) == Outcome(FALSE, code)

\* An idle front end between two lines.
Idle(seq) ==
  [pc |-> "idle", seq |-> seq, id |-> None, req |-> None, todo |-> <<>>,
   seen |-> None, tok |-> None, res |-> None, batch |-> <<>>]

Init ==
  /\ reg = [n \in Name |-> None] /\ lease = [n \in Name |-> None]
  /\ up = {} /\ clock = 1 /\ file = 1 /\ events = 0 /\ gens = 0 /\ toks = 0
  /\ fe = [f \in FrontEnd |-> Idle(0)]
  /\ out = [f \in FrontEnd |-> <<>>] /\ reclaims = {}

Goto(f, pc) == fe' = [fe EXCEPT ![f].pc = pc]
Finish(f, r) == fe' = [fe EXCEPT ![f].pc = "reply", ![f].res = r]

---------------------------------------------------------------------------
(* The stdio loop. *)

\* consume_loop_metadata: the id a reply carries, "req-<seq>" without one.
loop_id(line, seq) == IF line.id = None THEN seq ELSE line.id

\* The answer of a line the loop handles without the dispatcher.
refusal(line) ==
  CASE line.kind = "not_json" -> "INVALID_JSON"
    [] line.kind = "bad_metadata" -> "INVALID_REQUEST"
    [] line.kind = "bad_quit" -> "INVALID_REQUEST"
    [] line.kind = "bad_version" -> "UNSUPPORTED_API_VERSION"
    [] OTHER -> "OK"

ReadLine(f, line) ==
  LET seq == fe[f].seq + 1
      id == loop_id(line, seq)
      answer == Append(out[f], [id |-> id, body |-> Outcome(line.kind = "quit", refusal(line))])
  IN /\ fe[f].pc = "idle" /\ seq \in DOMAIN Line[f] /\ line \in Line[f][seq]
     /\ \/ /\ line.kind = "empty"
           /\ fe' = [fe EXCEPT ![f].seq = seq]
           /\ UNCHANGED out
        \/ /\ line.kind \in {"not_json", "bad_metadata", "bad_quit", "bad_version"}
           /\ fe' = [fe EXCEPT ![f].seq = seq]
           /\ out' = [out EXCEPT ![f] = answer]
        \/ /\ line.kind = "quit"
           /\ fe' = [fe EXCEPT ![f].seq = seq, ![f].pc = "done"]
           /\ out' = [out EXCEPT ![f] = answer]
        \/ /\ line.kind = "request"
           /\ fe' = [fe EXCEPT ![f] =
                 [Idle(seq) EXCEPT !.pc = "dispatch", !.id = id, !.req = line.req]]
           /\ UNCHANGED out
     /\ UNCHANGED <<reg, lease, up, world, gens, toks, reclaims>>

\* The client closes stdin.
Eof(f) ==
  /\ fe[f].pc = "idle" /\ Goto(f, "done")
  /\ UNCHANGED <<reg, lease, up, world, gens, toks, out, reclaims>>

---------------------------------------------------------------------------
(* batch: children run one after the other through dispatch; the outer     *)
(* deadline is looked at before each child.  A child may be a batch        *)
(* itself, which inherits the deadline: fe[f].batch is the stack of the    *)
(* batches being served, the innermost one last.                           *)

batch_summary(b) ==
  [Outcome(TRUE, "OK") EXCEPT !.results = b.results, !.failed = b.failed,
    !.asked = [kids |-> Len(b.kids), stop |-> b.stop, timed |-> b.timed]]

new_batch(q, around) ==
  [kids |-> q.kids, stop |-> q.stop,
   timed |-> q.timed \/ (around # <<>> /\ Last(around).timed),
   results |-> <<>>, failed |-> {}]

\* The innermost batch is over and its summary is the reply of its request.
BatchOver(f, b, around) ==
  fe' = [fe EXCEPT ![f].pc = "reply", ![f].res = batch_summary(b), ![f].batch = around]

\* The next child of b starts, or b is complete.
BatchNext(f, b, around) ==
  IF Len(b.results) = Len(b.kids)
    THEN BatchOver(f, b, around)
    ELSE fe' = [fe EXCEPT ![f] =
           [Idle(fe[f].seq) EXCEPT !.pc = "dispatch", !.id = fe[f].id,
              !.req = b.kids[Len(b.results) + 1], !.batch = Append(around, b)]]

batch_add_off_by_one(b, r) ==
  [b EXCEPT !.results = Append(@, r),
            !.failed = IF r.ok THEN @ ELSE @ \cup {Len(b.results)}]
batch_add(b, r) ==
  [b EXCEPT !.results = Append(@, r),
            !.failed = IF r.ok THEN @ ELSE @ \cup {Len(b.results) + 1}]

\* Mutated: the reply carries the number of the line, not the id it gave.
WriteReplyNumbered(f) ==
  /\ fe[f].pc = "reply" /\ fe[f].batch = <<>>
  /\ out' = [out EXCEPT ![f] = Append(@, [id |-> fe[f].seq, body |-> fe[f].res])]
  /\ fe' = [fe EXCEPT ![f] = Idle(fe[f].seq)]
  /\ UNCHANGED <<reg, lease, up, world, gens, toks, reclaims>>

\* dispatch returned: the reply goes to stdout, or into the batch around it.
WriteReply(f) ==
  /\ fe[f].pc = "reply" /\ fe[f].batch = <<>>
  /\ out' = [out EXCEPT ![f] = Append(@, [id |-> fe[f].id, body |-> fe[f].res])]
  /\ fe' = [fe EXCEPT ![f] = Idle(fe[f].seq)]
  /\ UNCHANGED <<reg, lease, up, world, gens, toks, reclaims>>

ChildDone(f) ==
  LET b == batch_add(Last(fe[f].batch), fe[f].res)
      around == Front(fe[f].batch)
  IN
  /\ fe[f].pc = "reply" /\ fe[f].batch # <<>>
  /\ IF ~fe[f].res.ok /\ b.stop THEN BatchOver(f, b, around) ELSE BatchNext(f, b, around)
  /\ UNCHANGED <<reg, lease, up, world, gens, toks, out, reclaims>>

\* The batch deadline passed while the previous child ran.
BatchDeadline(f) ==
  /\ fe[f].pc = "dispatch" /\ fe[f].batch # <<>> /\ Last(fe[f].batch).timed
  /\ BatchOver(f, batch_add(Last(fe[f].batch), Err("BATCH_TIMEOUT")), Front(fe[f].batch))
  /\ UNCHANGED <<reg, lease, up, world, gens, toks, out, reclaims>>

---------------------------------------------------------------------------
(* The session catalog, read without any lock. *)

records == {reg[n] : n \in {m \in Name : reg[m] # None}}
list(some) == SetToSortSeq(some, LAMBDA a, b : a.name < b.name)

\* The activity file, when newer, overrides the recorded last_active.
session_idle_expired(r) ==
  LET last == IF r.active > 0 THEN r.active ELSE r.created
  IN last > 0 /\ clock - last >= IdleTimeout

session_fsdb_resource_changed(r) == r.fsdb # file

---------------------------------------------------------------------------
(* Backend calls: one engine helper process under the name's lease. *)

\* diagnose_session reads the record without the lease: a generation that is
\* still opening is not healthy, and a busy engine may miss the ping.
BackDoctor(n, healthy) ==
  healthy => /\ reg[n] # None /\ reg[n].state = "active"
             /\ reg[n].fsdb = file /\ reg[n].gen \in up

owns(r, tok) == r.tok = tok

\* session.close by name.  An engine whose pid was never recorded cannot be
\* stopped, an unreachable one is only retired when the caller asked for it.
BackClose(n, tok, retire, result) ==
  /\ lease[n] = None
  /\ \/ /\ reg[n] = None /\ result = "SESSION_NOT_FOUND"
        /\ UNCHANGED <<reg, up>>
     \/ /\ reg[n] # None /\ tok # None /\ ~owns(reg[n], tok)
        /\ result = "SESSION_OWNERSHIP_TOKEN_MISMATCH"
        /\ UNCHANGED <<reg, up>>
     \/ /\ reg[n] # None /\ (tok # None => owns(reg[n], tok))
        /\ \/ /\ result = "OK"
              /\ up' \in (IF retire \/ ~reg[n].pid THEN {up} ELSE {})
                         \cup (IF reg[n].pid THEN {up \ {reg[n].gen}} ELSE {})
              /\ reg' = [reg EXCEPT ![n] = None]
           \/ /\ result = "SESSION_CLEANUP_FAILED"
              /\ up' \in {up, up \ {reg[n].gen}}
              /\ reg' = [reg EXCEPT ![n].state = "cleanup_failed"]
           \/ /\ result = "INTERNAL_ENGINE_FAILED"
              /\ up' = up
              /\ reg' \in {reg, [reg EXCEPT ![n].state = "cleanup_failed"]}

Results == {"OK", "SESSION_NOT_FOUND", "SESSION_OWNERSHIP_TOKEN_MISMATCH",
            "SESSION_CLEANUP_FAILED", "INTERNAL_ENGINE_FAILED"}
backend_cleanup_ok_always(result) == result \in Results
backend_cleanup_ok(result) == result \in {"OK", "SESSION_NOT_FOUND"}

\* What a reclaiming close removed, beside what the caller had judged.
Removed(lane, f, judged, tok) ==
  LET n == judged.name IN
  reclaims' = IF reg[n] # None /\ reg'[n] = None
              THEN reclaims \cup {[lane |-> lane, gen |-> reg[n].gen, state |-> reg[n].state,
                                   owner |-> reg[n].tok, judged_gen |-> judged.gen,
                                   judged_state |-> judged.state, tok |-> tok]}
              ELSE reclaims

---------------------------------------------------------------------------
(* Dispatcher::dispatch_impl: the handler of the action. *)

Dispatch(f) ==
  LET q == fe[f].req IN
  /\ fe[f].pc = "dispatch"
  /\ \/ q.action = "unknown" /\ Finish(f, Err("UNKNOWN_ACTION"))
     \/ q.action \in {"schema", "list"} /\ Finish(f, Ok)
     \/ /\ q.action = "batch"
        /\ BatchNext(f, new_batch(q, fe[f].batch), fe[f].batch)
     \/ /\ q.action \in {"gc", "open"}
        /\ fe' = [fe EXCEPT ![f].pc = "expire", ![f].todo = list({r \in records : session_idle_expired(r)})]
     \/ /\ q.action = "close_all"
        /\ fe' = [fe EXCEPT ![f].pc = "close_all", ![f].todo = list(records)]
     \/ /\ q.action \in {"query", "close", "doctor"}    \* resolve_target
        /\ IF reg[q.name] = None THEN Finish(f, Err("SESSION_NOT_FOUND"))
                                 ELSE Goto(f, "lookup")
  /\ UNCHANGED <<reg, lease, up, world, gens, toks, out, reclaims>>

\* The checks each handler makes on the record it looked up: the error it
\* answers with, or "OK".
query_check(r) ==
  IF session_idle_expired(r) THEN "SESSION_EXPIRED"
  ELSE IF session_fsdb_resource_changed(r) THEN "RESOURCE_CHANGED"
  ELSE "OK"
doctor_check(r) == IF session_fsdb_resource_changed(r) THEN "RESOURCE_CHANGED" ELSE "OK"
close_check(q, r) ==
  IF q.retire /\ ~q.force THEN "INVALID_REQUEST"
  ELSE IF q.tok # None /\ ~owns(r, q.tok) THEN "SESSION_OWNERSHIP_TOKEN_MISMATCH"
  ELSE "OK"

\* The handler's own lookup of the session, a second read of the record.
Lookup(f) ==
  LET q == fe[f].req
      r == reg[q.name]
      Checked(code) ==
        IF code \in {"OK", "SESSION_EXPIRED"}
          THEN fe' = [fe EXCEPT ![f].seen = r,
                        ![f].pc = IF code = "OK" THEN q.action ELSE "query_expired"]
          ELSE Finish(f, Err(code))
  IN
  /\ fe[f].pc = "lookup"
  /\ \/ r = None /\ Finish(f, Err("SESSION_NOT_FOUND"))
     \/ r # None /\ q.action = "query" /\ Checked(query_check(r))
     \/ r # None /\ q.action = "doctor" /\ Checked(doctor_check(r))
     \/ r # None /\ q.action = "close" /\ Checked(close_check(q, r))
  /\ UNCHANGED <<reg, lease, up, world, gens, toks, out, reclaims>>

---------------------------------------------------------------------------
(* Queries, doctor and explicit closes. *)

\* The reclamation lane: a forced close by name that may retire the record of
\* an engine it cannot reach.
force_close_session_record(n, result) == BackClose(n, None, TRUE, result)

\* A session that sat idle too long is closed instead of queried.
QueryExpired(f) ==
  /\ fe[f].pc = "query_expired"
  /\ \E result \in Results : force_close_session_record(fe[f].req.name, result)
  /\ Removed("expiry", f, fe[f].seen, None)
  /\ Finish(f, Err("SESSION_EXPIRED"))
  /\ UNCHANGED <<lease, world, gens, toks, out>>

\* What the helper can get from the session of that name.
send_request_capture(n) ==
  IF reg[n] # None /\ reg[n].state = "active" /\ reg[n].gen \in up
    THEN {"ok", "server_error"} \cup (IF lease[n] = None THEN {"transport_timeout"} ELSE {})
    ELSE {"connect_failed"}

\* The helper forwards the request to the session's engine; a deadline that
\* passes there makes it terminate the engine and leave a tombstone.
Query(f) ==
  LET n == fe[f].req.name IN
  /\ fe[f].pc = "query"
  /\ \E status \in send_request_capture(n) :
     \/ /\ status \in {"ok", "server_error"}
        /\ reg' = [reg EXCEPT ![n].active = clock]
        /\ UNCHANGED up
        /\ Finish(f, IF status = "ok" THEN Ok ELSE Err("ACTION_FAILED"))
     \/ /\ status = "transport_timeout"
        /\ reg' = [reg EXCEPT ![n].state = "terminated_on_timeout"]
        /\ up' = up \ {reg[n].gen} /\ Finish(f, Err("ENGINE_TIMEOUT"))
     \/ /\ status = "connect_failed"
        /\ UNCHANGED <<reg, up>> /\ Finish(f, Err("SESSION_UNHEALTHY"))
  /\ UNCHANGED <<lease, world, gens, toks, out, reclaims>>

Doctor(f) ==
  /\ fe[f].pc = "doctor"
  /\ \E healthy \in BOOLEAN :
       /\ BackDoctor(fe[f].req.name, healthy)
       /\ Finish(f, IF healthy THEN Ok ELSE Err("SESSION_UNHEALTHY"))
  /\ UNCHANGED <<reg, lease, up, world, gens, toks, out, reclaims>>

Close(f) ==
  LET q == fe[f].req IN
  /\ fe[f].pc = "close"
  /\ \E result \in Results :
       /\ BackClose(q.name, q.tok, q.retire, result)
       /\ Finish(f, IF backend_cleanup_ok(result) THEN Ok ELSE Err("SESSION_CLEANUP_FAILED"))
  /\ UNCHANGED <<lease, world, gens, toks, out, reclaims>>

\* close all: one close per listed record; a failure does not stop the rest.
CloseAll(f) ==
  /\ fe[f].pc = "close_all"
  /\ \/ /\ fe[f].todo = <<>>
        /\ Finish(f, IF fe[f].seen = None THEN Ok ELSE Err("SESSION_CLEANUP_PARTIAL_FAILURE"))
        /\ UNCHANGED <<reg, up>>
     \/ /\ fe[f].todo # <<>>
        /\ \E result \in Results :
             /\ BackClose(Head(fe[f].todo).name, None, FALSE, result)
             /\ fe' = [fe EXCEPT ![f].todo = Tail(@),
                         ![f].seen = IF backend_cleanup_ok(result) THEN @
                                     ELSE Head(fe[f].todo)]
  /\ UNCHANGED <<lease, world, gens, toks, out, reclaims>>

---------------------------------------------------------------------------
(* cleanup_expired_sessions and session.gc. *)

\* Force close of the next listed record, by its name.
Expire(f) ==
  /\ fe[f].pc = "expire" /\ fe[f].todo # <<>>
  /\ \E result \in Results :
       /\ force_close_session_record(Head(fe[f].todo).name, result)
       /\ IF backend_cleanup_ok(result)
            THEN fe' = [fe EXCEPT ![f].todo = Tail(@)]
            ELSE Finish(f, Err("SESSION_CLEANUP_FAILED"))
  /\ Removed("gc", f, Head(fe[f].todo), None)
  /\ UNCHANGED <<lease, world, gens, toks, out>>

Expired(f) ==
  LET q == fe[f].req IN
  /\ fe[f].pc = "expire" /\ fe[f].todo = <<>>
  /\ \/ /\ q.action = "gc"
        /\ fe' = [fe EXCEPT ![f].pc = "gc", ![f].todo = list(records)]
        /\ UNCHANGED toks
     \/ /\ q.action = "open" /\ reg[q.name] # None
        /\ Goto(f, "probe") /\ UNCHANGED toks
     \/ /\ q.action = "open" /\ reg[q.name] = None
        /\ fe' = [fe EXCEPT ![f].pc = "open",
                    ![f].tok = IF q.tok # None THEN q.tok ELSE toks + 1]
        /\ toks' = IF q.tok # None THEN toks ELSE toks + 1
  /\ UNCHANGED <<reg, lease, up, world, gens, out, reclaims>>

\* session.gc looks at each remaining record through session.doctor ...
GcDoctor(f) ==
  /\ fe[f].pc = "gc"
  /\ \/ fe[f].todo = <<>> /\ Finish(f, Ok)
     \/ /\ fe[f].todo # <<>>
        /\ \E healthy \in BOOLEAN :
             /\ BackDoctor(Head(fe[f].todo).name, healthy)
             /\ fe' = IF healthy THEN [fe EXCEPT ![f].todo = Tail(@)]
                      ELSE [fe EXCEPT ![f].pc = "gc_force",
                              ![f].seen = Head(fe[f].todo)]
  /\ UNCHANGED <<reg, lease, up, world, gens, toks, out, reclaims>>

\* ... and force-closes, by name, the ones that were not healthy.
GcForce(f) ==
  /\ fe[f].pc = "gc_force"
  /\ \E result \in Results :
       /\ force_close_session_record(fe[f].seen.name, result)
       /\ IF backend_cleanup_ok(result)
            THEN fe' = [fe EXCEPT ![f].pc = "gc", ![f].todo = Tail(@)]
            ELSE Finish(f, Err("SESSION_CLEANUP_FAILED"))
  /\ Removed("gc", f, fe[f].seen, None)
  /\ UNCHANGED <<lease, world, gens, toks, out>>

---------------------------------------------------------------------------
(* session.open. *)

Probe(f) ==
  /\ fe[f].pc = "probe"
  /\ \E healthy \in BOOLEAN :
       /\ BackDoctor(fe[f].req.name, healthy)
       /\ Finish(f, Err(IF healthy THEN "SESSION_ID_EXISTS" ELSE "SESSION_STALE"))
  /\ UNCHANGED <<reg, lease, up, world, gens, toks, out, reclaims>>

NewRecord(f) ==
  [name |-> fe[f].req.name, gen |-> gens + 1, tok |-> fe[f].tok, state |-> "opening",
   pid |-> FALSE, created |-> clock, active |-> 0, fsdb |-> file]

\* The helper takes the lease and reserves the name, or dies before it could.
OpenReserve(f) ==
  LET n == fe[f].req.name IN
  /\ fe[f].pc = "open" /\ lease[n] = None
  /\ \/ /\ reg[n] # None /\ Finish(f, Err("SESSION_ID_EXISTS"))
        /\ UNCHANGED <<reg, lease, gens>>
     \/ /\ reg[n] = None /\ gens < MaxGen
        /\ reg' = [reg EXCEPT ![n] = NewRecord(f)]
        /\ lease' = [lease EXCEPT ![n] = f]
        /\ gens' = gens + 1 /\ Goto(f, "opening")
     \/ /\ Goto(f, "compensate") /\ UNCHANGED <<reg, lease, gens>>
  /\ UNCHANGED <<up, world, toks, out, reclaims>>

\* How the helper process of an open ends: with a reply, or killed by its
\* deadline or crashed somewhere on the way, or with output nobody can read.
helper_end == {"opened", "failed", "ENGINE_TIMEOUT", "INTERNAL_ENGINE_FAILED",
               "INTERNAL_ENGINE_RESPONSE_INVALID"}
ambiguous_session_open_result(end) == end \notin {"opened", "failed"}

\* The name's record and engine when the helper is gone.
OpenEnd(f) ==
  LET n == fe[f].req.name
      g == reg[n].gen
      Left(state, pid) == [reg EXCEPT ![n].state = state, ![n].pid = pid]
  IN
  /\ fe[f].pc = "opening"
  /\ lease' = [lease EXCEPT ![n] = None]
  /\ \E end \in helper_end :
     \/ /\ end = "opened"
        /\ reg' = Left("active", TRUE) /\ up' = up \cup {g} /\ Goto(f, "publish")
     \/ /\ end = "failed"
        /\ reg' \in {[reg EXCEPT ![n] = None], Left("cleanup_failed", TRUE)}
        /\ UNCHANGED up /\ Finish(f, Err("ENGINE_START_FAILED"))
     \/ /\ ambiguous_session_open_result(end)
        /\ \/ reg' = Left("opening", FALSE) /\ up' \in {up, up \cup {g}}
           \/ reg' \in {Left("opening", TRUE), Left("active", TRUE)} /\ up' = up \cup {g}
        /\ Goto(f, "compensate")
  /\ UNCHANGED <<world, gens, toks, out, reclaims>>

\* The backend's answer must be canonical and the public session manifest
\* written, else the open is undone.
Publish(f) ==
  /\ fe[f].pc = "publish"
  /\ Finish(f, Ok) \/ Goto(f, "compensate")
  /\ UNCHANGED <<reg, lease, up, world, gens, toks, out, reclaims>>

\* dispatch: an exception, or a reply that violates its response schema,
\* after a successful open undoes the open.
ReplyInvalid(f) ==
  /\ fe[f].pc = "reply" /\ fe[f].tok # None /\ fe[f].res = Ok
  /\ Goto(f, "compensate")
  /\ UNCHANGED <<reg, lease, up, world, gens, toks, out, reclaims>>

\* compensate_failed_session_open: a forced close that must prove, with the
\* token, that it removes what this open created.
compensation_token_omitted(f) == None
compensation_token(f) == fe[f].tok
Compensate(f) ==
  LET n == fe[f].req.name IN
  /\ fe[f].pc = "compensate"
  /\ \E result \in Results :
       /\ BackClose(n, compensation_token(f), FALSE, result)
       /\ Finish(f, [Err("INTERNAL_ERROR") EXCEPT !.tok = fe[f].tok,
                       !.cleaned = backend_cleanup_ok(result)])
  /\ Removed("compensate", f, [name |-> n, gen |-> 0, state |-> "any"], fe[f].tok)
  /\ UNCHANGED <<lease, world, gens, toks, out>>

---------------------------------------------------------------------------
(* The environment. *)

Event == events < MaxEvents /\ events' = events + 1
EngineDies ==
  /\ Event /\ \E g \in up : up' = up \ {g}
  /\ UNCHANGED <<reg, lease, clock, file, gens, toks, fe, out, reclaims>>
Tick ==
  /\ Event /\ clock' = clock + 1
  /\ UNCHANGED <<reg, lease, up, file, gens, toks, fe, out, reclaims>>
FileChanges ==
  /\ Event /\ file' = file + 1
  /\ UNCHANGED <<reg, lease, up, clock, gens, toks, fe, out, reclaims>>

Step(f) ==
  \/ Dispatch(f) \/ Lookup(f) \/ QueryExpired(f) \/ Query(f) \/ Doctor(f)
  \/ Close(f) \/ CloseAll(f) \/ Expire(f) \/ Expired(f) \/ GcDoctor(f) \/ GcForce(f)
  \/ Probe(f) \/ OpenReserve(f) \/ OpenEnd(f) \/ Publish(f) \/ Compensate(f)
  \/ WriteReply(f) \/ ChildDone(f)

Next ==
  \/ \E f \in FrontEnd : Step(f) \/ ReplyInvalid(f) \/ BatchDeadline(f) \/ Eof(f)
                         \/ \E line \in AnyLine : ReadLine(f, line)
  \/ EngineDies \/ Tick \/ FileChanges

Spec == Init /\ [][Next]_vars
FairSpec == Spec /\ \A f \in FrontEnd : WF_vars(Step(f))
---------------------------------------------------------------------------
(* Properties. *)

\* Every reply a client has read, the children's replies of a batch included.
bodies(f) ==
  LET top == {out[f][i].body : i \in DOMAIN out[f]}
  IN top \cup UNION {{b.results[i] : i \in DOMAIN b.results} : b \in top}

\* The undo of a failed session.open removes only the generation that carries
\* the token of that very open, even when another front end opened the name
\* between the failure and the undo (dispatcher.cpp, compensate_failed_session_open).
CompensationOwn ==
  \A c \in reclaims : c.lane = "compensate" => c.owner = c.tok

\* A client told "cleanup_succeeded" for a failed session.open never finds a
\* session record of that open afterwards, whenever its helper was killed.
CleanedMeansGone ==
  \A f \in FrontEnd : \A b \in bodies(f) :
    b.cleaned /\ b.tok \in 1..toks => \A r \in records : r.tok # b.tok

\* A batch reply reports exactly the failed children at their own indexes, and
\* children are missing only after the failure stop_on_error asks for or after
\* the deadline, which is itself reported as the last result.
BatchHonest ==
  \A f \in FrontEnd : \A b \in bodies(f) : b.asked # None =>
    LET count == Len(b.results) IN
    /\ b.failed = {i \in 1..count : ~b.results[i].ok}
    /\ b.asked.stop => b.failed \subseteq {count}
    /\ count < b.asked.kids =>
         \/ b.asked.stop /\ count \in b.failed
         \/ b.asked.timed /\ b.results[count].code = "BATCH_TIMEOUT"

\* What the client of a front end sees of its loop, as SerialServer's state.
Loops == INSTANCE SerialServer WITH
  Client <- FrontEnd,
  Id <- (UNION {DOMAIN Line[f] : f \in FrontEnd}) \cup {line.id : line \in AnyLine} \cup {None},
  pending <- [f \in FrontEnd |-> IF fe[f].id = None THEN <<>> ELSE <<fe[f].id>>],
  replied <- [f \in FrontEnd |-> [i \in DOMAIN out[f] |-> out[f][i].id]]

\* The loop of a front end serves its client as SerialServer says: one reply
\* per non-empty line, in order, with the line's id, and every request it took
\* is answered although engines die and other front ends hold leases
\* (stdio_loop.cpp, run_stdio_loop).
ServesSerially == Loops!Spec

\* session.gc and the idle expiry, "the reclamation lane (session.gc, idle
\* expiry, confirmed unhealthy sessions)", remove only the generation they
\* judged, in the state they judged it.
ReclaimsWhatItJudged ==
  \A c \in reclaims : c.lane \in {"gc", "expiry"} =>
    c.gen = c.judged_gen /\ c.state = c.judged_state

===========================================================================
