---------------------------- MODULE FileExchange ----------------------------
(***************************************************************************)
(* The file transport of xdebug (core/transport/file_exchange.cpp) and the *)
(* engine's worker loop that serves it (engine/server.cpp,                 *)
(* file_transport_loop).  A caller publishes requests/<id>.json and polls  *)
(* for responses/<id>.json; a worker renames the request into claims/,     *)
(* runs the handler, publishes the response and archives the claim.  There *)
(* is no lock: link(2) and rename(2) are the only synchronisation.         *)
(*                                                                         *)
(* A step of this module is one such system call together with the local   *)
(* computation around it.  Each member of Requests is one call of          *)
(* file_exchange_send_request: ids are never reused, so the sequential     *)
(* calls of one process are independent callers.  Each member of Workers   *)
(* is one engine process: the agent id holds the pid, so a restarted       *)
(* engine is another worker.  Payloads are abstracted to what the handler  *)
(* answers and to whether the envelope is valid.                           *)
(***************************************************************************)
EXTENDS Integers, FiniteSets

CONSTANTS
  Requests,       \* calls of file_exchange_send_request
  Workers,        \* engine processes serving the directory
  RequestTimeout, \* timeout_ms of the calls, in clock ticks
  ClaimTimeout,   \* XDEBUG_FILE_CLAIM_TIMEOUT_MS, in clock ticks
  IdleTimeout,    \* XDEBUG_SESSION_IDLE_TIMEOUT_SEC, in clock ticks
  HistoryTtl,     \* done/failed TTL of file_exchange_gc, in clock ticks
  KeepHistory,    \* XDEBUG_FILE_KEEP_HISTORY
  FaultyIo,       \* whether a write may fail (full disk, failing fsync)
  MaxTime,        \* bound on the clock
  None            \* no value

ASSUME FileExchangeAssumption ==
  /\ RequestTimeout \in Nat \ {0}
  /\ ClaimTimeout \in Nat
  /\ IdleTimeout \in Nat \ {0}
  /\ HistoryTtl \in Nat
  /\ KeepHistory \in BOOLEAN
  /\ FaultyIo \in BOOLEAN
  /\ MaxTime \in Nat
  /\ None \notin Requests

VARIABLES
  clock,      \* gettimeofday, shared by all processes
  caller,     \* where each send_request call stands
  valid,      \* whether the published envelope passes validation
  created,    \* created_at_us of each request
  result,     \* FileExchangeResult.status of each call
  requests,   \* ids in requests/
  claims,     \* files in claims/
  responses,  \* file in responses/ of each id, or None
  done,       \* files in done/
  failed,     \* files in failed/
  worker,     \* local state of each file_transport_loop
  runs        \* how often the handler was started for each id

callerVars == <<caller, valid, created, result>>
dirVars == <<requests, claims, responses, done, failed>>
vars == <<clock, callerVars, dirVars, worker, runs>>

(***************************************************************************)
(* Statuses of responses and results.                                      *)
(***************************************************************************)
HandlerStatus == {"ok", "action_error", "server_error"}
RefusalStatus == {"expired", "invalid_request"}
ResponseStatus == HandlerStatus \union RefusalStatus \union {"stale_claim"}
ResultStatus == ResponseStatus \union
  {"request_too_large", "write_failed", "response_too_large",
   "invalid_response", "timeout"}

Time == 0..MaxTime

Response == [status : ResponseStatus, at : Time]
Claim == [id : Requests, agent : Workers, stamp : Time]
ArchiveTag == {"claim", "response", "client_timeout", "stale_claim"} \union
              RefusalStatus
Archived == [id : Requests, tag : ArchiveTag, mtime : Time]

CallerPc == {"new", "polling", "reading", "consuming", "withdrawing",
             "returned", "crashed"}
WorkerPc == {"off", "top", "scan", "staleRespond", "staleMove", "claim",
             "claimed", "failRespond", "failMove", "stamp", "running",
             "respond", "archive", "exited", "crashed"}
DeadPc == {"off", "exited", "crashed"}

(***************************************************************************)
(* A worker's locals: the request it handles, the status it will publish,  *)
(* the claim it found stale, the time stamp of its claim, whether the      *)
(* handler asked to quit, and last_active.  "served" is a history variable:  *)
(* when the worker last finished a request.                                *)
(***************************************************************************)
Worker == [pc : WorkerPc, req : Requests \union {None},
           status : ResponseStatus \union {None},
           stale : Claim \union {None}, stamp : Time,
           quit : BOOLEAN, active : Time, served : Time]

IdleWorker == [pc |-> "off", req |-> None, status |-> None, stale |-> None,
               stamp |-> 0, quit |-> FALSE, active |-> 0, served |-> 0]

TypeOK ==
  /\ clock \in Time
  /\ caller \in [Requests -> CallerPc]
  /\ valid \in [Requests -> BOOLEAN]
  /\ created \in [Requests -> Time]
  /\ result \in [Requests -> ResultStatus \union {None}]
  /\ requests \subseteq Requests
  /\ claims \subseteq Claim
  /\ responses \in [Requests -> Response \union {None}]
  /\ done \subseteq Archived
  /\ failed \subseteq Archived
  /\ worker \in [Workers -> Worker]
  /\ runs \in [Requests -> Nat]

\* None is not a status, a response or a claim.
ASSUME NoneAssumption ==
  None \notin ResultStatus \union Response \union Claim

(***************************************************************************)
(* What the locals hold at a program counter, which the types of the       *)
(* values computed from them rest on.                                      *)
(***************************************************************************)
HeldPc == {"claimed", "failRespond", "failMove", "stamp", "running",
           "respond", "archive"}
ScanPc == {"staleRespond", "staleMove"}

LocalsFit(x) ==
  /\ x.pc \in HeldPc => x.req # None
  /\ x.pc \in ScanPc => x.stale # None
  /\ x.pc \in {"failRespond", "failMove"} => x.status \in RefusalStatus
  /\ x.pc = "respond" => x.status \in HandlerStatus

LocalsOK ==
  /\ \A r \in Requests :
       caller[r] \in {"reading", "consuming"} => responses[r] # None
  /\ \A w \in Workers : LocalsFit(worker[w])

Init ==
  /\ clock = 0
  /\ caller = [r \in Requests |-> "new"]
  /\ valid = [r \in Requests |-> TRUE]
  /\ created = [r \in Requests |-> 0]
  /\ result = [r \in Requests |-> None]
  /\ requests = {}
  /\ claims = {}
  /\ responses = [r \in Requests |-> None]
  /\ done = {}
  /\ failed = {}
  /\ worker = [w \in Workers |-> IdleWorker]
  /\ runs = [r \in Requests |-> 0]

-----------------------------------------------------------------------------
(***************************************************************************)
(* Primitives on the directory.                                            *)
(***************************************************************************)
\* Defect: the response is renamed over an existing one.
write_response_overwrites(r, status) ==
  responses' = [responses EXCEPT ![r] = [status |-> status, at |-> clock]]

\* write_response: link(2) creates the file or fails with EEXIST, which
\* counts as success; a failing write leaves the directory as it was.
write_response(r, status) ==
  \/ /\ responses[r] = None
     /\ responses' = [responses EXCEPT ![r] = [status |-> status, at |-> clock]]
  \/ /\ responses[r] # None \/ FaultyIo
     /\ UNCHANGED responses

\* move_file: rename(2) moves the files that are still there, or fails.
Moves(files) == IF FaultyIo THEN {files, {}} ELSE {files}

ClaimsOf(r, w) == {c \in claims : c.id = r /\ c.agent = w}

Archive(r, tag, mtime) == [id |-> r, tag |-> tag, mtime |-> mtime]

\* cleanup_ttl_dir
Fresh(files) == {f \in files : HistoryTtl = 0 \/ clock - f.mtime <= HistoryTtl}

-----------------------------------------------------------------------------
(***************************************************************************)
(* file_exchange_send_request                                              *)
(***************************************************************************)
\* Defect: the timeout is not turned into a deadline.
DeadlineUnset(r) == MaxTime + RequestTimeout

Deadline(r) == created[r] + RequestTimeout

\* The request is over the size limit (or the configuration or the directory
\* is unusable, which the caller learns in the same way): nothing is published.
SendRejected(r) ==
  /\ caller[r] = "new"
  /\ caller' = [caller EXCEPT ![r] = "returned"]
  /\ result' = [result EXCEPT ![r] = "request_too_large"]
  /\ UNCHANGED <<clock, valid, created, dirVars, worker, runs>>

\* file_exchange_gc, then the request file is created.  A client of another
\* RPC version publishes an envelope the worker does not accept (v = FALSE).
Send(r, v) ==
  /\ caller[r] = "new"
  /\ clock + RequestTimeout <= MaxTime
  /\ done' = Fresh(done)
  /\ failed' = Fresh(failed)
  /\ caller' = [caller EXCEPT ![r] = "polling"]
  /\ valid' = [valid EXCEPT ![r] = v]
  /\ created' = [created EXCEPT ![r] = clock]
  /\ requests' = requests \union {r}
  /\ UNCHANGED <<clock, result, claims, responses, worker, runs>>

\* The write fails.  When only the fsync of the parent directory failed, the
\* link is already there and the request stays published.
SendFailed(r, linked) ==
  /\ FaultyIo
  /\ caller[r] = "new"
  /\ clock + RequestTimeout <= MaxTime
  /\ done' = Fresh(done)
  /\ failed' = Fresh(failed)
  /\ caller' = [caller EXCEPT ![r] = "returned"]
  /\ result' = [result EXCEPT ![r] = "write_failed"]
  /\ created' = [created EXCEPT ![r] = clock]
  /\ requests' = IF linked THEN requests \union {r} ELSE requests
  /\ UNCHANGED <<clock, valid, claims, responses, worker, runs>>

\* One turn of the polling loop that finds the response file.
Poll(r) ==
  /\ caller[r] = "polling"
  /\ clock < Deadline(r)
  /\ responses[r] # None
  /\ caller' = [caller EXCEPT ![r] = "reading"]
  /\ UNCHANGED <<clock, valid, created, result, dirVars, worker, runs>>

ReadResponse(r) ==
  /\ caller[r] = "reading"
  /\ result' = [result EXCEPT ![r] = responses[r].status]
  /\ caller' = [caller EXCEPT ![r] = "consuming"]
  /\ UNCHANGED <<clock, valid, created, dirVars, worker, runs>>

\* A handler's answer may exceed XDEBUG_FILE_MAX_JSON_BYTES, and a read may
\* fail; the call returns and the file stays in responses/.
ReadFails(r, status) ==
  /\ caller[r] = "reading"
  /\ \/ status = "response_too_large" /\ responses[r].status \in HandlerStatus
     \/ status = "invalid_response" /\ FaultyIo
  /\ result' = [result EXCEPT ![r] = status]
  /\ caller' = [caller EXCEPT ![r] = "returned"]
  /\ UNCHANGED <<clock, valid, created, dirVars, worker, runs>>

Consume(r) ==
  /\ caller[r] = "consuming"
  /\ \E moved \in Moves({r}) :
       /\ done' = IF KeepHistory
                  THEN done \union
                         {Archive(q, "response", responses[q].at) : q \in moved}
                  ELSE done
       /\ responses' = [q \in Requests |->
                          IF q \in moved THEN None ELSE responses[q]]
  /\ caller' = [caller EXCEPT ![r] = "returned"]
  /\ UNCHANGED <<clock, valid, created, result, requests, claims, failed,
                 worker, runs>>

TimeOut(r) ==
  /\ caller[r] = "polling"
  /\ clock >= Deadline(r)
  /\ result' = [result EXCEPT ![r] = "timeout"]
  /\ caller' = [caller EXCEPT ![r] = "withdrawing"]
  /\ UNCHANGED <<clock, valid, created, dirVars, worker, runs>>

\* Defect: the request is unlinked and leaves no trace in failed/.
WithdrawUnlinks(r) ==
  /\ caller[r] = "withdrawing"
  /\ caller' = [caller EXCEPT ![r] = "returned"]
  /\ requests' = requests \ {r}
  /\ UNCHANGED <<clock, valid, created, result, claims, responses, done,
                 failed, worker, runs>>

\* rename(requests/r, failed/r.client_timeout); fails silently when a worker
\* has claimed the request.
Withdraw(r) ==
  /\ caller[r] = "withdrawing"
  /\ caller' = [caller EXCEPT ![r] = "returned"]
  /\ \E moved \in Moves(requests \intersect {r}) :
       /\ requests' = requests \ moved
       /\ failed' = failed \union
                      {Archive(q, "client_timeout", created[q]) : q \in moved}
  /\ UNCHANGED <<clock, valid, created, result, claims, responses, done,
                 worker, runs>>

CallerCrash(r) ==
  /\ caller[r] \notin {"new", "returned", "crashed"}
  /\ caller' = [caller EXCEPT ![r] = "crashed"]
  /\ UNCHANGED <<clock, valid, created, result, dirVars, worker, runs>>

-----------------------------------------------------------------------------
(***************************************************************************)
(* file_transport_loop                                                     *)
(***************************************************************************)
Start(w) ==
  /\ worker[w].pc = "off"
  /\ worker' = [worker EXCEPT ![w].pc = "top", ![w].active = clock,
                              ![w].served = clock]
  /\ UNCHANGED <<clock, callerVars, dirVars, runs>>

IdleExit(w) ==
  /\ worker[w].pc = "top"
  /\ clock - worker[w].active >= IdleTimeout
  /\ worker' = [worker EXCEPT ![w].pc = "exited"]
  /\ UNCHANGED <<clock, callerVars, dirVars, runs>>

\* The heartbeat is written and the scan of claims/ begins.
Heartbeat(w) ==
  /\ worker[w].pc = "top"
  /\ clock - worker[w].active < IdleTimeout
  /\ worker' = [worker EXCEPT ![w].pc = "scan"]
  /\ UNCHANGED <<clock, callerVars, dirVars, runs>>

\* file_exchange_scan_stale_claims, one claim file at a time.
IsStale(c) == clock - c.stamp > ClaimTimeout

FindStale(w, c) ==
  /\ worker[w].pc = "scan"
  /\ IsStale(c)
  /\ worker' = [worker EXCEPT ![w].pc = "staleRespond", ![w].stale = c]
  /\ UNCHANGED <<clock, callerVars, dirVars, runs>>

RespondStale(w) ==
  /\ worker[w].pc = "staleRespond"
  /\ write_response(worker[w].stale.id, "stale_claim")
  /\ worker' = [worker EXCEPT ![w].pc = "staleMove"]
  /\ UNCHANGED <<clock, callerVars, requests, claims, done, failed, runs>>

\* Defect: the stale claim is answered and left in claims/.
MoveStaleOmitted(w) ==
  /\ worker[w].pc = "staleMove"
  /\ worker' = [worker EXCEPT ![w].pc = "scan", ![w].stale = None]
  /\ UNCHANGED <<clock, callerVars, dirVars, runs>>

MoveStale(w) ==
  LET c == worker[w].stale
      files == ClaimsOf(c.id, c.agent)
  IN /\ worker[w].pc = "staleMove"
     /\ \E moved \in Moves(files) :
          /\ claims' = claims \ moved
          /\ failed' = failed \union
                         {Archive(c.id, "stale_claim", f.stamp) : f \in moved}
     /\ worker' = [worker EXCEPT ![w].pc = "scan", ![w].stale = None]
     /\ UNCHANGED <<clock, callerVars, requests, responses, done, runs>>

ScanDone(w) ==
  /\ worker[w].pc = "scan"
  /\ \A c \in claims : ~IsStale(c)
  /\ worker' = [worker EXCEPT ![w].pc = "claim"]
  /\ UNCHANGED <<clock, callerVars, dirVars, runs>>

\* Defect: the request is copied into claims/ instead of renamed.
ClaimOneCopies(w, r) ==
  /\ worker[w].pc = "claim"
  /\ \A q \in requests : created[r] <= created[q]
  /\ claims' = claims \union {[id |-> r, agent |-> w, stamp |-> created[r]]}
  /\ worker' = [worker EXCEPT ![w].pc = "claimed", ![w].req = r]
  /\ UNCHANGED <<clock, callerVars, requests, responses, done, failed, runs>>

\* file_exchange_claim_one: the names in requests/ are tried in order and the
\* first rename that succeeds wins.  Ids begin with a time stamp.
ClaimOne(w, r) ==
  /\ worker[w].pc = "claim"
  /\ \A q \in requests : created[r] <= created[q]
  /\ requests' = requests \ {r}
  /\ claims' = claims \union {[id |-> r, agent |-> w, stamp |-> created[r]]}
  /\ worker' = [worker EXCEPT ![w].pc = "claimed", ![w].req = r]
  /\ UNCHANGED <<clock, callerVars, responses, done, failed, runs>>

NothingToClaim(w) ==
  /\ worker[w].pc = "claim"
  /\ requests = {}
  /\ worker' = [worker EXCEPT ![w].pc = "top"]
  /\ UNCHANGED <<clock, callerVars, dirVars, runs>>

\* The claim is read and validated.  Another worker may have moved it away.
\* An unreadable or oversized claim is refused like an invalid one.
Refusal(w, r) ==
  IF ClaimsOf(r, w) = {} \/ ~valid[r] THEN "invalid_request"
  ELSE IF clock > Deadline(r) THEN "expired" ELSE None

Validate(w) ==
  LET r == worker[w].req
      refusal == Refusal(w, r)
  IN /\ worker[w].pc = "claimed"
     /\ worker' = [worker EXCEPT
          ![w].pc = IF refusal = None THEN "stamp" ELSE "failRespond",
          ![w].status = refusal,
          ![w].stamp = clock]
     /\ UNCHANGED <<clock, callerVars, dirVars, runs>>

\* Defect: the status argument is ignored.
FailRespondOk(w) ==
  /\ worker[w].pc = "failRespond"
  /\ write_response(worker[w].req, "ok")
  /\ worker' = [worker EXCEPT ![w].pc = "failMove"]
  /\ UNCHANGED <<clock, callerVars, requests, claims, done, failed, runs>>

\* fail_claim
FailRespond(w) ==
  /\ worker[w].pc = "failRespond"
  /\ write_response(worker[w].req, worker[w].status)
  /\ worker' = [worker EXCEPT ![w].pc = "failMove"]
  /\ UNCHANGED <<clock, callerVars, requests, claims, done, failed, runs>>

\* Defect: claim_one goes on after fail_claim.
FailMoveFallsThrough(w) ==
  /\ worker[w].pc = "failMove"
  /\ worker' = [worker EXCEPT ![w].pc = "stamp"]
  /\ UNCHANGED <<clock, callerVars, dirVars, runs>>

FailMove(w) ==
  LET r == worker[w].req
      files == ClaimsOf(r, w)
  IN /\ worker[w].pc = "failMove"
     /\ \E moved \in Moves(files) :
          /\ claims' = claims \ moved
          /\ failed' = failed \union
                         {Archive(r, worker[w].status, f.stamp) : f \in moved}
     /\ worker' = [worker EXCEPT ![w] =
                     [IdleWorker EXCEPT !.pc = "top", !.active = clock,
                                        !.served = clock]]
     /\ UNCHANGED <<clock, callerVars, requests, responses, done, runs>>

\* The claim is rewritten with claimed_at_us (its result is ignored) and the
\* handler is entered; last_active is set before the handler runs.
StampAndRun(w) ==
  LET r == worker[w].req
  IN /\ worker[w].pc = "stamp"
     /\ \/ claims' = (claims \ ClaimsOf(r, w)) \union
                       {[id |-> r, agent |-> w, stamp |-> worker[w].stamp]}
        \/ FaultyIo /\ UNCHANGED claims
     /\ runs' = [runs EXCEPT ![r] = @ + 1]
     /\ worker' = [worker EXCEPT ![w].pc = "running", ![w].active = clock]
     /\ UNCHANGED <<clock, callerVars, requests, responses, done, failed>>

HandlerReturns(w, status, quit) ==
  /\ worker[w].pc = "running"
  /\ worker' = [worker EXCEPT ![w].pc = "respond", ![w].status = status,
                              ![w].quit = quit]
  /\ UNCHANGED <<clock, callerVars, dirVars, runs>>

\* file_exchange_complete_claim: the claim is archived whether or not the
\* response could be written.
CompleteRespond(w) ==
  /\ worker[w].pc = "respond"
  /\ write_response(worker[w].req, worker[w].status)
  /\ worker' = [worker EXCEPT ![w].pc = "archive"]
  /\ UNCHANGED <<clock, callerVars, requests, claims, done, failed, runs>>

CompleteMove(w) ==
  LET r == worker[w].req
      files == ClaimsOf(r, w)
  IN /\ worker[w].pc = "archive"
     /\ \E moved \in Moves(files) :
          /\ claims' = claims \ moved
          /\ done' = done \union {Archive(r, "claim", f.stamp) : f \in moved}
     /\ worker' = [worker EXCEPT ![w] =
          [IdleWorker EXCEPT !.pc = IF worker[w].quit THEN "exited" ELSE "top",
                             !.active = worker[w].active, !.served = clock]]
     /\ UNCHANGED <<clock, callerVars, requests, responses, failed, runs>>

WorkerCrash(w) ==
  /\ worker[w].pc \notin DeadPc
  /\ worker' = [worker EXCEPT ![w] = [IdleWorker EXCEPT !.pc = "crashed"]]
  /\ UNCHANGED <<clock, callerVars, dirVars, runs>>

-----------------------------------------------------------------------------
Tick ==
  /\ clock < MaxTime
  /\ clock' = clock + 1
  /\ UNCHANGED <<callerVars, dirVars, worker, runs>>

CallerStep(r) ==
  \/ Poll(r) \/ ReadResponse(r) \/ Consume(r)
  \/ \E status \in {"response_too_large", "invalid_response"} :
       ReadFails(r, status)
  \/ TimeOut(r) \/ Withdraw(r)

CallerNext(r) ==
  \/ SendRejected(r)
  \/ \E v \in BOOLEAN : Send(r, v)
  \/ \E linked \in BOOLEAN : SendFailed(r, linked)
  \/ CallerStep(r)
  \/ CallerCrash(r)

WorkerStep(w) ==
  \/ IdleExit(w) \/ Heartbeat(w) \/ ScanDone(w)
  \/ \E c \in claims : FindStale(w, c)
  \/ RespondStale(w) \/ MoveStale(w)
  \/ \E r \in requests : ClaimOne(w, r)
  \/ NothingToClaim(w)
  \/ Validate(w) \/ FailRespond(w) \/ FailMove(w) \/ StampAndRun(w)
  \/ \E status \in HandlerStatus, quit \in BOOLEAN :
       HandlerReturns(w, status, quit)
  \/ CompleteRespond(w) \/ CompleteMove(w)

WorkerNext(w) == Start(w) \/ WorkerStep(w) \/ WorkerCrash(w)

Next ==
  \/ Tick
  \/ \E r \in Requests : CallerNext(r)
  \/ \E w \in Workers : WorkerNext(w)

Spec == Init /\ [][Next]_vars

\* Time passes and a call that is running keeps polling (usleep returns).
CallerFairness ==
  /\ WF_vars(Tick)
  /\ \A r \in Requests : WF_vars(CallerStep(r))

\* A live engine keeps turning its loop, and its handler returns.
WorkerFairness == \A w \in Workers : WF_vars(WorkerStep(w))

FairSpec == Spec /\ CallerFairness /\ WorkerFairness

-----------------------------------------------------------------------------
(***************************************************************************)
(* Safety.                                                                 *)
(***************************************************************************)
Holds(w, r) == worker[w].pc \in HeldPc /\ worker[w].req = r

\* A request is run at most once, whatever workers crash, whatever claims are
\* declared stale and whenever its caller gives up: only the rename out of
\* requests/ in file_exchange_claim_one starts a run, and nothing puts a file
\* back there.
AtMostOneRun == \A r \in Requests : runs[r] <= 1

Scans(w, r) == /\ worker[w].pc \in ScanPc
               /\ worker[w].stale.id = r
Untouched(r) ==
  /\ runs[r] = 0 /\ responses[r] = None
  /\ \A c \in claims : c.id # r
  /\ \A w \in Workers : ~Holds(w, r) /\ ~Scans(w, r)
Withdrawn(r) == \E f \in failed : f.id = r /\ f.tag = "client_timeout"

\* A request its caller withdrew on timeout (it is in failed/ as
\* client_timeout) is not held, not claimed, not answered and was never run:
\* the caller's rename and the worker's rename cannot both succeed.
WithdrawnNeverRuns == \A r \in Requests : Withdrawn(r) => Untouched(r)

\* A refusal is definite: a caller told "expired", "invalid_request" or
\* "request_too_large" can retry, because the request was not run and never
\* will be.
RefusedNeverRuns ==
  \A r \in Requests :
    result[r] \in RefusalStatus \union {"request_too_large"} => runs[r] = 0

\* An answer of the handler reaches a caller only after its request ran.
AnswerImpliesRun ==
  \A r \in Requests : result[r] \in HandlerStatus => runs[r] = 1

\* Every published request stays accounted for: it is in requests/, claims/,
\* done/ or failed/ until file_exchange_gc may drop it for its age.
NeverLost ==
  \A r \in Requests :
    \/ caller[r] = "new"
    \/ result[r] \in {"request_too_large", "write_failed"}
    \/ r \in requests
    \/ \E c \in claims : c.id = r
    \/ \E f \in done \union failed : f.id = r /\ f.tag # "response"
    \/ HistoryTtl # 0 /\ clock - created[r] > HistoryTtl

\* The first response wins: a published response is never replaced by another
\* one, and only the caller of the request takes it away.
FirstResponseWins ==
  [][\A r \in Requests :
       responses[r] # None /\ responses'[r] # responses[r] =>
         responses'[r] = None /\ caller[r] = "consuming"]_vars

(***************************************************************************)
(* The inductive core of the safety properties: where a request can be,    *)
(* who can hold it and what that says about its runs.                      *)
(***************************************************************************)
Refused(r) ==
  \/ responses[r] # None /\ responses[r].status \in RefusalStatus
  \/ result[r] \in RefusalStatus
Answered(r) ==
  \/ responses[r] # None /\ responses[r].status \in HandlerStatus
  \/ result[r] \in HandlerStatus

Unclaimed(r) == \/ r \in requests \/ caller[r] = "new" \/ Withdrawn(r)
                \/ result[r] = "request_too_large"

\* Before a worker's rename a request is untouched, and it is in one place.
BeforeClaim(r) ==
  /\ Unclaimed(r) => Untouched(r)
  /\ caller[r] = "new" => r \notin requests /\ result[r] = None
  /\ caller[r] = "new" \/ r \in requests => ~Withdrawn(r)
  /\ result[r] = "request_too_large" => caller[r] = "returned" /\ r \notin requests

\* The rename gives a request to one worker, whose program counter knows
\* whether the handler was entered.
OneHolder(r) ==
  /\ \A v, w \in Workers : Holds(v, r) /\ Holds(w, r) => v = w
  /\ \A w \in Workers : Holds(w, r) =>
       runs[r] = IF worker[w].pc \in {"running", "respond", "archive"}
                 THEN 1 ELSE 0

\* A published refusal or answer agrees with the runs, now and later.
Definite(r) ==
  /\ runs[r] \in {0, 1}
  /\ Refused(r) =>
       /\ runs[r] = 0 /\ ~Unclaimed(r)
       /\ \A w \in Workers : Holds(w, r) => worker[w].pc = "failMove"
  /\ Answered(r) => runs[r] = 1

Lifecycle(r) == BeforeClaim(r) /\ OneHolder(r) /\ Definite(r)

\* Every request follows its lifecycle: file_exchange_send_request,
\* file_exchange_claim_one, then fail_claim or file_exchange_complete_claim,
\* or withdrawal, with any crash and any stale scan in between.
RequestLifecycle == \A r \in Requests : Lifecycle(r)

(***************************************************************************)
(* Liveness.                                                               *)
(***************************************************************************)
\* Every call returns, also when no engine serves the directory.
CallReturns ==
  \A r \in Requests :
    caller[r] = "polling" ~> caller[r] \in {"returned", "crashed"}

\* While some engine is alive, the claim of a crashed engine does not stay in
\* claims/ for ever (claims stamped so late that the bounded clock cannot
\* make them stale are excluded).
StaleClaimResolved ==
  \A r \in Requests, w \in Workers :
    (/\ worker[w].pc = "crashed"
     /\ \E c \in ClaimsOf(r, w) : c.stamp + ClaimTimeout < MaxTime)
      ~> (ClaimsOf(r, w) = {} \/ \A v \in Workers : worker[v].pc \in DeadPc)
=============================================================================
