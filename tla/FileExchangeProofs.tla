------------------------- MODULE FileExchangeProofs -------------------------
(***************************************************************************)
(* Proofs about FileExchange for every number of callers and workers and   *)
(* every value of the timeouts.                                            *)
(***************************************************************************)
EXTENDS FileExchange, TLAPS

TypeInv == TypeOK /\ LocalsOK

USE DEF Time

LEMMA InitType == Init => TypeInv
<1> SUFFICES ASSUME Init PROVE TypeInv
  OBVIOUS
<1>1. IdleWorker \in Worker
  BY FileExchangeAssumption DEF IdleWorker, Worker, WorkerPc
<1>2. TypeOK
  BY <1>1, FileExchangeAssumption DEF Init, TypeOK, CallerPc
<1>3. LocalsOK
  BY DEF Init, LocalsOK, LocalsFit, IdleWorker, HeldPc, ScanPc
<1>4. QED
  BY <1>2, <1>3 DEF TypeInv

\* What the statuses and program counters are.
USE DEF HandlerStatus, RefusalStatus, ResponseStatus, ResultStatus, CallerPc,
        HeldPc, ScanPc, ArchiveTag

LEMMA ResponseType ==
  ASSUME TypeOK, NEW r \in Requests, NEW status \in ResponseStatus,
         write_response(r, status)
  PROVE  /\ responses' \in [Requests -> Response \union {None}]
         /\ \A q \in Requests : responses[q] # None => responses'[q] # None
         /\ responses' # responses =>
              /\ responses[r] = None
              /\ responses' = [responses EXCEPT ![r] =
                                 [status |-> status, at |-> clock]]
<1> DEFINE new == [status |-> status, at |-> clock]
<1>1. new \in Response
  BY DEF TypeOK, Response
<1>2. CASE responses' = responses
  BY <1>2 DEF TypeOK
<1>3. CASE responses[r] = None /\ responses' = [responses EXCEPT ![r] = new]
  <2> HIDE DEF new
  <2>1. new # None
    BY <1>1, NoneAssumption
  <2>2. QED
    BY <1>1, <1>3, <2>1 DEF TypeOK, new
<1>4. QED
  BY <1>2, <1>3 DEF write_response

LEMMA CallerType ==
  ASSUME TypeInv, NEW r \in Requests, CallerNext(r)
  PROVE  TypeInv'
<1> USE FileExchangeAssumption DEF TypeInv
<1>1. UNCHANGED worker
  BY DEF CallerNext, CallerStep, SendRejected, Send, SendFailed, Poll,
         ReadResponse, ReadFails, Consume, TimeOut, Withdraw, CallerCrash
<1>2. CASE SendRejected(r)
  BY <1>2 DEF TypeOK, LocalsOK, SendRejected, dirVars
<1>3. ASSUME NEW v \in BOOLEAN, Send(r, v) PROVE TypeInv'
  BY <1>3 DEF TypeOK, LocalsOK, Send, Fresh
<1>4. ASSUME NEW linked \in BOOLEAN, SendFailed(r, linked) PROVE TypeInv'
  BY <1>4 DEF TypeOK, LocalsOK, SendFailed, Fresh
<1>5. CASE Poll(r)
  BY <1>5 DEF TypeOK, LocalsOK, Poll, dirVars
<1>6. CASE ReadResponse(r)
  <2>1. responses[r].status \in ResultStatus
    BY <1>6, NoneAssumption DEF TypeOK, LocalsOK, ReadResponse, Response
  <2>2. QED
    BY <1>6, <2>1 DEF TypeOK, LocalsOK, ReadResponse, dirVars
<1>7. ASSUME NEW status \in {"response_too_large", "invalid_response"},
             ReadFails(r, status)
      PROVE  TypeInv'
  BY <1>7 DEF TypeOK, LocalsOK, ReadFails, dirVars
<1>8. CASE Consume(r)
  <2>1. responses[r] \in Response
    BY <1>8 DEF TypeOK, LocalsOK, Consume
  <2>2. Archive(r, "response", responses[r].at) \in Archived
    BY <2>1 DEF Archive, Archived, Response
  <2>3. done' \subseteq Archived
    BY <1>8, <2>2 DEF TypeOK, Consume, Moves
  <2>4. /\ responses' \in [Requests -> Response \union {None}]
        /\ \A q \in Requests \ {r} : responses'[q] = responses[q]
    BY <1>8 DEF TypeOK, Consume, Moves
  <2>5. QED
    BY <1>8, <2>3, <2>4 DEF TypeOK, LocalsOK, Consume
<1>9. CASE TimeOut(r)
  BY <1>9 DEF TypeOK, LocalsOK, TimeOut, dirVars
<1>10. CASE Withdraw(r)
  <2>1. Archive(r, "client_timeout", created[r]) \in Archived
    BY DEF TypeOK, Archive, Archived
  <2>2. failed' \subseteq Archived /\ requests' \subseteq Requests
    BY <1>10, <2>1 DEF TypeOK, Withdraw, Moves
  <2>3. QED
    BY <1>10, <2>2 DEF TypeOK, LocalsOK, Withdraw
<1>11. CASE CallerCrash(r)
  BY <1>11 DEF TypeOK, LocalsOK, CallerCrash, dirVars
<1>12. QED
  BY <1>2, <1>3, <1>4, <1>5, <1>6, <1>7, <1>8, <1>9, <1>10, <1>11
     DEF CallerNext, CallerStep

LEMMA LocalUpdate ==
  ASSUME TypeInv, NEW w \in Workers, NEW x \in Worker, LocalsFit(x),
         worker' = [worker EXCEPT ![w] = x]
  PROVE  /\ worker' \in [Workers -> Worker]
         /\ \A v \in Workers : LocalsFit(worker'[v])
BY DEF TypeInv, TypeOK, LocalsOK

LEMMA WorkerType ==
  ASSUME TypeInv, NEW w \in Workers, WorkerNext(w)
  PROVE  TypeInv'
<1> USE FileExchangeAssumption DEF TypeInv
<1>1. IdleWorker \in Worker
  BY DEF IdleWorker, Worker, WorkerPc
<1> DEFINE self == worker[w]
           Leaves(x) == worker' = [worker EXCEPT ![w] = x]
<1>0. self \in Worker /\ clock \in Time
  BY DEF TypeOK
<1>2. CASE Start(w)
  <2> DEFINE x == [self EXCEPT !.pc = "top", !.active = clock, !.served = clock]
  <2>1. x \in Worker /\ LocalsFit(x)
    <3>1. x \in Worker
      BY <1>0 DEF Worker, WorkerPc
    <3>2. LocalsFit(x)
      BY <1>0 DEF LocalsFit, Worker, HeldPc, ScanPc
    <3>3. QED
      BY <3>1, <3>2
  <2>2. Leaves(x)
    BY <1>2 DEF Start, TypeOK, Worker
  <2>3. QED
    BY <1>2, <2>1, <2>2, LocalUpdate
       DEF Start, TypeOK, LocalsOK, callerVars, dirVars
<1>3. CASE IdleExit(w)
  <2> DEFINE x == [self EXCEPT !.pc = "exited"]
  <2>1. x \in Worker /\ LocalsFit(x)
    BY <1>3 DEF IdleExit, TypeOK, LocalsOK, LocalsFit, Worker, WorkerPc
  <2>2. Leaves(x)
    BY <1>3 DEF IdleExit, TypeOK, Worker
  <2>3. QED
    BY <1>3, <2>1, <2>2, LocalUpdate
       DEF IdleExit, TypeOK, LocalsOK, callerVars, dirVars
<1>4. CASE Heartbeat(w)
  <2> DEFINE x == [self EXCEPT !.pc = "scan"]
  <2>1. x \in Worker /\ LocalsFit(x)
    BY <1>4 DEF Heartbeat, TypeOK, LocalsOK, LocalsFit, Worker, WorkerPc
  <2>2. Leaves(x)
    BY <1>4 DEF Heartbeat, TypeOK, Worker
  <2>3. QED
    BY <1>4, <2>1, <2>2, LocalUpdate
       DEF Heartbeat, TypeOK, LocalsOK, callerVars, dirVars
<1>5. CASE ScanDone(w)
  <2> DEFINE x == [self EXCEPT !.pc = "claim"]
  <2>1. x \in Worker /\ LocalsFit(x)
    BY <1>5 DEF ScanDone, TypeOK, LocalsOK, LocalsFit, Worker, WorkerPc
  <2>2. Leaves(x)
    BY <1>5 DEF ScanDone, TypeOK, Worker
  <2>3. QED
    BY <1>5, <2>1, <2>2, LocalUpdate
       DEF ScanDone, TypeOK, LocalsOK, callerVars, dirVars
<1>6. ASSUME NEW c \in claims, FindStale(w, c) PROVE TypeInv'
  <2> DEFINE x == [self EXCEPT !.pc = "staleRespond", !.stale = c]
  <2>1. c \in Claim /\ c # None
    BY <1>6, NoneAssumption DEF TypeOK
  <2>2. x \in Worker /\ LocalsFit(x)
    <3>1. x \in Worker
      BY <1>6, <2>1, <1>0 DEF Worker, WorkerPc
    <3>2. LocalsFit(x)
      BY <1>6, <2>1, <1>0 DEF Worker, LocalsFit
    <3>3. QED
      BY <3>1, <3>2
  <2>3. Leaves(x)
    BY <1>6 DEF FindStale, TypeOK, Worker
  <2>4. QED
    BY <1>6, <2>2, <2>3, LocalUpdate
       DEF FindStale, TypeOK, LocalsOK, callerVars, dirVars
<1>7. CASE RespondStale(w)
  <2> DEFINE x == [self EXCEPT !.pc = "staleMove"]
  <2>1. self.stale # None /\ self.stale.id \in Requests
    BY <1>7 DEF RespondStale, TypeOK, LocalsOK, LocalsFit, Worker, Claim
  <2>2. x \in Worker /\ LocalsFit(x)
    <3>1. x \in Worker
      BY <2>1, <1>0 DEF Worker, WorkerPc
    <3>2. LocalsFit(x)
      BY <2>1, <1>0 DEF Worker, LocalsFit
    <3>3. QED
      BY <3>1, <3>2
  <2>3. Leaves(x)
    BY <1>7 DEF RespondStale, TypeOK, Worker
  <2>4. /\ responses' \in [Requests -> Response \union {None}]
        /\ \A q \in Requests : responses[q] # None => responses'[q] # None
    BY <1>7, <2>1, ResponseType DEF RespondStale
  <2>5. QED
    BY <1>7, <2>2, <2>3, <2>4, LocalUpdate
       DEF RespondStale, TypeOK, LocalsOK, callerVars
<1>8. CASE MoveStale(w)
  <2> DEFINE c == self.stale
             x == [self EXCEPT !.pc = "scan", !.stale = None]
  <2>1. c \in Claim
    BY <1>8 DEF MoveStale, TypeOK, LocalsOK, LocalsFit, Worker
  <2>2. \A f \in Claim : Archive(c.id, "stale_claim", f.stamp) \in Archived
    BY <2>1 DEF Claim, Archived, Archive
  <2>3. failed' \subseteq Archived /\ claims' \subseteq Claim
    BY <1>8, <2>2 DEF MoveStale, TypeOK, Moves, ClaimsOf
  <2>4. x \in Worker /\ LocalsFit(x)
    <3>1. x \in Worker
      BY <1>0 DEF Worker, WorkerPc
    <3>2. LocalsFit(x)
      BY <1>0 DEF Worker, LocalsFit
    <3>3. QED
      BY <3>1, <3>2
  <2>5. Leaves(x)
    BY <1>8 DEF MoveStale, TypeOK, Worker
  <2>6. QED
    BY <1>8, <2>3, <2>4, <2>5, LocalUpdate
       DEF MoveStale, TypeOK, LocalsOK, callerVars
<1>9. ASSUME NEW r \in requests, ClaimOne(w, r) PROVE TypeInv'
  <2> DEFINE x == [self EXCEPT !.pc = "claimed", !.req = r]
  <2>1. r \in Requests /\ [id |-> r, agent |-> w, stamp |-> created[r]] \in Claim
    BY DEF TypeOK, Claim
  <2>2. x \in Worker /\ LocalsFit(x)
    <3>1. x \in Worker
      BY <2>1, <1>0 DEF Worker, WorkerPc
    <3>2. LocalsFit(x)
      BY <2>1, <1>0 DEF Worker, LocalsFit
    <3>3. QED
      BY <3>1, <3>2
  <2>3. Leaves(x)
    BY <1>9 DEF ClaimOne, TypeOK, Worker
  <2>4. claims' \subseteq Claim /\ requests' \subseteq Requests
    BY <1>9, <2>1 DEF ClaimOne, TypeOK
  <2>5. QED
    BY <1>9, <2>2, <2>3, <2>4, LocalUpdate
       DEF ClaimOne, TypeOK, LocalsOK, callerVars
<1>10. CASE NothingToClaim(w)
  <2> DEFINE x == [self EXCEPT !.pc = "top"]
  <2>1. x \in Worker /\ LocalsFit(x)
    BY <1>10 DEF NothingToClaim, TypeOK, LocalsOK, LocalsFit, Worker, WorkerPc
  <2>2. Leaves(x)
    BY <1>10 DEF NothingToClaim, TypeOK, Worker
  <2>3. QED
    BY <1>10, <2>1, <2>2, LocalUpdate
       DEF NothingToClaim, TypeOK, LocalsOK, callerVars, dirVars
<1>11. CASE Validate(w)
  <2> DEFINE refusal == Refusal(w, self.req)
             x == [self EXCEPT
                     !.pc = IF refusal = None THEN "stamp" ELSE "failRespond",
                     !.status = refusal, !.stamp = clock]
  <2>1. refusal \in RefusalStatus \union {None}
    BY DEF Refusal
  <2>2. Leaves(x)
    BY <1>11 DEF Validate, TypeOK, Worker
  <2> HIDE DEF refusal
  <2>3. self.req # None
    BY <1>11 DEF Validate, LocalsOK, LocalsFit
  <2>4. x \in Worker /\ LocalsFit(x)
    <3>1. x \in Worker
      BY <2>1, <2>3, <1>0 DEF Worker, WorkerPc
    <3>2. LocalsFit(x)
      BY <2>1, <2>3, <1>0 DEF Worker, LocalsFit
    <3>3. QED
      BY <3>1, <3>2
  <2>5. QED
    BY <1>11, <2>2, <2>4, LocalUpdate
       DEF Validate, TypeOK, LocalsOK, callerVars, dirVars
<1>12. CASE FailRespond(w)
  <2> DEFINE x == [self EXCEPT !.pc = "failMove"]
  <2>1. self.req \in Requests /\ self.status \in RefusalStatus
    BY <1>12 DEF FailRespond, TypeOK, LocalsOK, LocalsFit, Worker
  <2>2. x \in Worker /\ LocalsFit(x)
    BY <1>12, <2>1 DEF FailRespond, TypeOK, LocalsOK, LocalsFit, Worker, WorkerPc
  <2>3. Leaves(x)
    BY <1>12 DEF FailRespond, TypeOK, Worker
  <2>4. /\ responses' \in [Requests -> Response \union {None}]
        /\ \A q \in Requests : responses[q] # None => responses'[q] # None
    BY <1>12, <2>1, ResponseType DEF FailRespond
  <2>5. QED
    BY <1>12, <2>2, <2>3, <2>4, LocalUpdate
       DEF FailRespond, TypeOK, LocalsOK, callerVars
<1>13. CASE FailMove(w)
  <2> DEFINE x == [IdleWorker EXCEPT !.pc = "top", !.active = clock,
                                   !.served = clock]
  <2>1. self.req \in Requests /\ self.status \in RefusalStatus
    BY <1>13 DEF FailMove, TypeOK, LocalsOK, LocalsFit, Worker
  <2>2. \A f \in Claim : Archive(self.req, self.status, f.stamp) \in Archived
    BY <2>1 DEF Claim, Archived, Archive
  <2>3. failed' \subseteq Archived /\ claims' \subseteq Claim
    BY <1>13, <2>2 DEF FailMove, TypeOK, Moves, ClaimsOf
  <2>4. x \in Worker /\ LocalsFit(x)
    BY <1>1 DEF TypeOK, LocalsFit, Worker, WorkerPc, IdleWorker
  <2>5. Leaves(x)
    BY <1>13 DEF FailMove
  <2>6. QED
    BY <1>13, <2>3, <2>4, <2>5, LocalUpdate
       DEF FailMove, TypeOK, LocalsOK, callerVars
<1>14. CASE StampAndRun(w)
  <2> DEFINE x == [self EXCEPT !.pc = "running", !.active = clock]
  <2>1. self.req \in Requests
    BY <1>14 DEF StampAndRun, TypeOK, LocalsOK, LocalsFit, Worker
  <2>2. [id |-> self.req, agent |-> w, stamp |-> self.stamp] \in Claim
    BY <2>1 DEF TypeOK, Worker, Claim
  <2>3. claims' \subseteq Claim /\ runs' \in [Requests -> Nat]
    BY <1>14, <2>1, <2>2 DEF StampAndRun, TypeOK, ClaimsOf
  <2>4. x \in Worker /\ LocalsFit(x)
    <3>1. x \in Worker
      BY <2>1, <1>0 DEF Worker, WorkerPc
    <3>2. LocalsFit(x)
      BY <2>1, <1>0 DEF Worker, LocalsFit
    <3>3. QED
      BY <3>1, <3>2
  <2>5. Leaves(x)
    BY <1>14 DEF StampAndRun, TypeOK, Worker
  <2>6. QED
    BY <1>14, <2>3, <2>4, <2>5, LocalUpdate
       DEF StampAndRun, TypeOK, LocalsOK, callerVars
<1>15. ASSUME NEW status \in HandlerStatus, NEW quit \in BOOLEAN,
              HandlerReturns(w, status, quit)
       PROVE  TypeInv'
  <2> DEFINE x == [self EXCEPT !.pc = "respond", !.status = status, !.quit = quit]
  <2>0. self.pc = "running" /\ LocalsFit(self)
    BY <1>15 DEF HandlerReturns, LocalsOK
  <2>1. x \in Worker /\ LocalsFit(x)
    <3>1. x \in Worker
      BY <1>0 DEF Worker, WorkerPc, ResponseStatus
    <3>2. LocalsFit(x)
      BY <2>0, <1>0 DEF LocalsFit, Worker, HeldPc, ScanPc
    <3>3. QED
      BY <3>1, <3>2
  <2>2. Leaves(x)
    BY <1>15 DEF HandlerReturns, TypeOK, Worker
  <2>3. QED
    BY <1>15, <2>1, <2>2, LocalUpdate
       DEF HandlerReturns, TypeOK, LocalsOK, callerVars, dirVars
<1>16. CASE CompleteRespond(w)
  <2> DEFINE x == [self EXCEPT !.pc = "archive"]
  <2>1. self.req \in Requests /\ self.status \in HandlerStatus
    BY <1>16 DEF CompleteRespond, TypeOK, LocalsOK, LocalsFit, Worker
  <2>2. x \in Worker /\ LocalsFit(x)
    BY <1>16, <2>1 DEF CompleteRespond, TypeOK, LocalsOK, LocalsFit, Worker, WorkerPc
  <2>3. Leaves(x)
    BY <1>16 DEF CompleteRespond, TypeOK, Worker
  <2>4. /\ responses' \in [Requests -> Response \union {None}]
        /\ \A q \in Requests : responses[q] # None => responses'[q] # None
    BY <1>16, <2>1, ResponseType DEF CompleteRespond
  <2>5. QED
    BY <1>16, <2>2, <2>3, <2>4, LocalUpdate
       DEF CompleteRespond, TypeOK, LocalsOK, callerVars
<1>17. CASE CompleteMove(w)
  <2> DEFINE x == [IdleWorker EXCEPT !.pc = IF self.quit THEN "exited" ELSE "top",
                                   !.active = self.active, !.served = clock]
  <2>1. self.req \in Requests
    BY <1>17 DEF CompleteMove, TypeOK, LocalsOK, LocalsFit, Worker
  <2>2. \A f \in Claim : Archive(self.req, "claim", f.stamp) \in Archived
    BY <2>1 DEF Claim, Archived, Archive
  <2>3. done' \subseteq Archived /\ claims' \subseteq Claim
    BY <1>17, <2>2 DEF CompleteMove, TypeOK, Moves, ClaimsOf
  <2>4. x \in Worker /\ LocalsFit(x)
    BY <1>1 DEF TypeOK, LocalsFit, Worker, WorkerPc, IdleWorker
  <2>5. Leaves(x)
    BY <1>17 DEF CompleteMove
  <2>6. QED
    BY <1>17, <2>3, <2>4, <2>5, LocalUpdate
       DEF CompleteMove, TypeOK, LocalsOK, callerVars
<1>18. CASE WorkerCrash(w)
  <2> DEFINE x == [IdleWorker EXCEPT !.pc = "crashed"]
  <2>1. x \in Worker /\ LocalsFit(x)
    BY <1>1 DEF LocalsFit, Worker, WorkerPc, IdleWorker
  <2>2. Leaves(x)
    BY <1>18 DEF WorkerCrash
  <2>3. QED
    BY <1>18, <2>1, <2>2, LocalUpdate
       DEF WorkerCrash, TypeOK, LocalsOK, callerVars, dirVars
<1>19. QED
  BY <1>2, <1>3, <1>4, <1>5, <1>6, <1>7, <1>8, <1>9, <1>10, <1>11, <1>12,
     <1>13, <1>14, <1>15, <1>16, <1>17, <1>18 DEF WorkerNext, WorkerStep

LEMMA NextType == TypeInv /\ [Next]_vars => TypeInv'
<1> SUFFICES ASSUME TypeInv, [Next]_vars PROVE TypeInv'
  OBVIOUS
<1>1. CASE Tick
  BY <1>1, FileExchangeAssumption
     DEF Tick, TypeInv, TypeOK, LocalsOK, callerVars, dirVars
<1>2. CASE UNCHANGED vars
  BY <1>2 DEF TypeInv, TypeOK, LocalsOK, vars, callerVars, dirVars
<1>3. QED
  BY <1>1, <1>2, CallerType, WorkerType DEF Next

\* Every reachable state has the types of TypeOK: in particular no worker
\* publishes or archives for a request, claim or status it does not have, and
\* no caller reads a response that is not there.
THEOREM TypeCorrect == Spec => []TypeOK
<1>1. TypeInv => TypeOK
  BY DEF TypeInv
<1>2. QED
  BY <1>1, InitType, NextType, PTL DEF Spec

-----------------------------------------------------------------------------
(***************************************************************************)
(* The lifecycle of a request.  Most steps keep what Lifecycle says of a   *)
(* request q: FrameLemma collects what such a step may do.                 *)
(***************************************************************************)
RunPc == {"running", "respond", "archive"}

Frame(q) ==
  /\ caller'[q] = "new" => caller[q] = "new" /\ result'[q] = result[q]
  /\ caller[q] = "returned" => caller'[q] = "returned"
  /\ q \in requests' => q \in requests
  /\ Withdrawn(q)' => Withdrawn(q)
  /\ result'[q] = "request_too_large" => result[q] = "request_too_large"
  /\ Refused(q)' => Refused(q)
  /\ Answered(q)' => Answered(q)
  /\ runs'[q] = runs[q]
  /\ responses'[q] \in {responses[q], None} \/ ~Untouched(q)
  /\ (\E c \in claims' : c.id = q) =>
       (\E c \in claims : c.id = q) \/ \E w \in Workers : Holds(w, q)
  /\ \A w \in Workers :
       /\ Scans(w, q)' => Scans(w, q) \/ \E c \in claims : c.id = q
       /\ Holds(w, q)' =>
            /\ Holds(w, q)
            /\ worker'[w].pc \in RunPc <=> worker[w].pc \in RunPc
            /\ worker[w].pc = "failMove" => worker'[w].pc = "failMove"

LEMMA FrameLemma ==
  ASSUME NEW q \in Requests, Lifecycle(q), Frame(q)
  PROVE  Lifecycle(q)'
<1>1. Unclaimed(q)' => Unclaimed(q)
  BY DEF Frame, Unclaimed
<1>2. Untouched(q) => Untouched(q)'
  BY DEF Frame, Untouched
<1>3. BeforeClaim(q)'
  BY <1>1, <1>2 DEF Lifecycle, BeforeClaim, Frame
<1>4. OneHolder(q)'
  BY DEF Lifecycle, OneHolder, Frame, RunPc
<1>5. Definite(q)'
  BY <1>1 DEF Lifecycle, Definite, Frame
<1>6. QED
  BY <1>3, <1>4, <1>5 DEF Lifecycle

\* A request that no worker has touched may be in any of its early places.
LEMMA UntouchedLemma ==
  ASSUME NEW q \in Requests, Untouched(q)',
         result'[q] \notin RefusalStatus \union HandlerStatus,
         caller'[q] = "new" => q \notin requests' /\ result'[q] = None,
         caller'[q] = "new" \/ q \in requests' => ~Withdrawn(q)',
         result'[q] = "request_too_large" =>
           caller'[q] = "returned" /\ q \notin requests'
  PROVE  Lifecycle(q)'
<1>1. BeforeClaim(q)'
  BY DEF BeforeClaim
<1>2. OneHolder(q)'
  BY DEF OneHolder, Untouched
<1>3. Definite(q)'
  BY DEF Definite, Untouched, Refused, Answered
<1>4. QED
  BY <1>1, <1>2, <1>3 DEF Lifecycle

LEMMA CallerLifecycle ==
  ASSUME TypeInv, NEW r \in Requests, CallerNext(r),
         NEW q \in Requests, Lifecycle(q)
  PROVE  Lifecycle(q)'
<1> USE FileExchangeAssumption, NoneAssumption DEF TypeInv, callerVars, dirVars
<1>1. UNCHANGED <<worker, claims, runs>>
  BY DEF CallerNext, CallerStep, SendRejected, Send, SendFailed, Poll,
         ReadResponse, ReadFails, Consume, TimeOut, Withdraw, CallerCrash
<1>2. \A w \in Workers : /\ Holds(w, q)' <=> Holds(w, q)
                         /\ Scans(w, q)' <=> Scans(w, q)
  BY <1>1 DEF Holds, Scans
<1>3. Untouched(q) /\ responses'[q] = responses[q] => Untouched(q)'
  BY <1>1, <1>2 DEF Untouched
<1>4. caller[q] = "new" \/ q \in requests => Untouched(q) /\ ~Withdrawn(q)
  BY DEF Lifecycle, BeforeClaim, Unclaimed
\* The frame conditions that <1>1 and <1>2 leave to show.
<1> DEFINE Quiet ==
      /\ caller'[q] = "new" => caller[q] = "new" /\ result'[q] = result[q]
      /\ caller[q] = "returned" => caller'[q] = "returned"
      /\ q \in requests' => q \in requests
      /\ Withdrawn(q)' => Withdrawn(q)
      /\ result'[q] = "request_too_large" => result[q] = "request_too_large"
      /\ Refused(q)' => Refused(q)
      /\ Answered(q)' => Answered(q)
      /\ responses'[q] \in {responses[q], None}
<1>5. ASSUME Quiet PROVE Lifecycle(q)'
  <2>1. Frame(q)
    BY <1>1, <1>2, <1>5 DEF Frame
  <2>2. QED
    BY <2>1, FrameLemma
<1>6. ASSUME failed' \subseteq failed
      PROVE  Withdrawn(q)' => Withdrawn(q)
  BY <1>6 DEF Withdrawn
<1>7. CASE SendRejected(r)
  <2>1. CASE q = r
    BY <1>3, <1>4, <1>7, <2>1, UntouchedLemma
       DEF SendRejected, TypeOK, Withdrawn, Lifecycle, BeforeClaim
  <2>2. CASE q # r
    BY <1>5, <1>6, <1>7, <2>2 DEF SendRejected, TypeOK, Refused, Answered
  <2>3. QED
    BY <2>1, <2>2
<1>8. ASSUME NEW v \in BOOLEAN, Send(r, v) PROVE Lifecycle(q)'
  <2>1. failed' \subseteq failed
    BY <1>8 DEF Send, Fresh
  <2>2. CASE q = r
    <3>1. Untouched(q)' /\ ~Withdrawn(q)' /\ result'[q] = None
      BY <1>3, <1>4, <1>6, <1>8, <2>1, <2>2
         DEF Send, Lifecycle, BeforeClaim
    <3>2. caller'[q] = "polling"
      BY <1>8, <2>2 DEF Send, TypeOK
    <3>3. QED
      BY <3>1, <3>2, UntouchedLemma
  <2>3. CASE q # r
    BY <1>5, <1>6, <1>8, <2>1, <2>3 DEF Send, TypeOK, Refused, Answered
  <2>4. QED
    BY <2>2, <2>3
<1>9. ASSUME NEW linked \in BOOLEAN, SendFailed(r, linked) PROVE Lifecycle(q)'
  <2>1. failed' \subseteq failed
    BY <1>9 DEF SendFailed, Fresh
  <2>2. CASE q = r
    <3>1. Untouched(q)' /\ ~Withdrawn(q)'
      BY <1>3, <1>4, <1>6, <1>9, <2>1, <2>2 DEF SendFailed
    <3>2. caller'[q] = "returned" /\ result'[q] = "write_failed"
      BY <1>9, <2>2 DEF SendFailed, TypeOK
    <3>3. QED
      BY <3>1, <3>2, UntouchedLemma
  <2>3. CASE q # r
    BY <1>5, <1>6, <1>9, <2>1, <2>3 DEF SendFailed, TypeOK, Refused, Answered
  <2>4. QED
    BY <2>2, <2>3
<1>10. CASE Poll(r)
  BY <1>5, <1>6, <1>10 DEF Poll, TypeOK, Refused, Answered
<1>11. CASE ReadResponse(r)
  <2>1. responses[r] # None /\ responses[r].status \in ResponseStatus
    BY <1>11 DEF ReadResponse, TypeOK, LocalsOK, Response
  <2>2. /\ result'[q] = IF q = r THEN responses[r].status ELSE result[q]
        /\ caller'[q] = IF q = r THEN "consuming" ELSE caller[q]
    BY <1>11 DEF ReadResponse, TypeOK
  <2>3. (Refused(q)' => Refused(q)) /\ (Answered(q)' => Answered(q))
    BY <1>11, <2>1, <2>2 DEF ReadResponse, Refused, Answered
  <2>4. QED
    BY <1>5, <1>6, <1>11, <2>1, <2>2, <2>3 DEF ReadResponse
<1>12. ASSUME NEW status \in {"response_too_large", "invalid_response"},
              ReadFails(r, status)
       PROVE  Lifecycle(q)'
  BY <1>5, <1>6, <1>12 DEF ReadFails, TypeOK, Refused, Answered
<1>13. CASE Consume(r)
  <2>1. responses'[q] \in {responses[q], None}
    BY <1>13 DEF Consume
  <2>2. QED
    BY <1>5, <1>6, <1>13, <2>1 DEF Consume, TypeOK, Refused, Answered
<1>14. CASE TimeOut(r)
  BY <1>5, <1>6, <1>14 DEF TimeOut, TypeOK, Refused, Answered
<1>15. CASE Withdraw(r)
  <2>1. Withdrawn(q)' => Withdrawn(q) \/ q \in requests
    BY <1>15 DEF Withdraw, Withdrawn, Archive, Moves
  <2>2. requests' \subseteq requests
    BY <1>15 DEF Withdraw
  <2>3. CASE Withdrawn(q)' /\ q \in requests
    <3>1. Untouched(q)'
      BY <1>3, <1>4, <1>15, <2>3 DEF Withdraw
    <3>2. q = r /\ q \notin requests'
      BY <1>4, <1>15, <2>3 DEF Withdraw, Withdrawn, Archive, Moves
    <3>3. caller'[q] = "returned" /\ result'[q] = result[q]
      BY <1>15, <3>2 DEF Withdraw, TypeOK
    <3>4. result[q] \notin RefusalStatus \union HandlerStatus
      BY <2>3 DEF Lifecycle, Definite, Refused, Answered, BeforeClaim,
                  Unclaimed, Untouched
    <3>5. QED
      BY <3>1, <3>2, <3>3, <3>4, UntouchedLemma
  <2>4. CASE Withdrawn(q)' => Withdrawn(q)
    BY <1>5, <1>15, <2>2, <2>4 DEF Withdraw, TypeOK, Refused, Answered
  <2>5. QED
    BY <2>1, <2>3, <2>4
<1>16. CASE CallerCrash(r)
  BY <1>5, <1>6, <1>16 DEF CallerCrash, TypeOK, Refused, Answered
<1>17. QED
  BY <1>7, <1>8, <1>9, <1>10, <1>11, <1>12, <1>13, <1>14, <1>15, <1>16
     DEF CallerNext, CallerStep

LEMMA WorkerLifecycle ==
  ASSUME TypeInv, NEW w \in Workers, WorkerNext(w),
         NEW q \in Requests, Lifecycle(q)
  PROVE  Lifecycle(q)'
<1> USE DEF callerVars, dirVars
<1> DEFINE self == worker[w]
           Claimed == \E c \in claims : c.id = q
<1>1. TypeOK /\ LocalsOK
  BY DEF TypeInv
<1>2. UNCHANGED <<caller, result>>
  BY DEF WorkerNext, WorkerStep, Start, IdleExit, Heartbeat, ScanDone,
         FindStale, RespondStale, MoveStale, ClaimOne, NothingToClaim,
         Validate, FailRespond, FailMove, StampAndRun, HandlerReturns,
         CompleteRespond, CompleteMove, WorkerCrash
<1>3. \A v \in Workers \ {w} : worker'[v] = worker[v]
  BY <1>1 DEF WorkerNext, WorkerStep, Start, IdleExit, Heartbeat, ScanDone,
         FindStale, RespondStale, MoveStale, ClaimOne, NothingToClaim,
         Validate, FailRespond, FailMove, StampAndRun, HandlerReturns,
         CompleteRespond, CompleteMove, WorkerCrash, TypeOK
<1>4. \A v \in Workers \ {w} : /\ Holds(v, q)' <=> Holds(v, q)
                               /\ Scans(v, q)' <=> Scans(v, q)
  BY <1>3 DEF Holds, Scans
\* The frame conditions that <1>2 and <1>4 leave to show.
<1> DEFINE Quiet ==
      /\ q \in requests' => q \in requests
      /\ Withdrawn(q)' => Withdrawn(q)
      /\ runs'[q] = runs[q]
      /\ responses'[q] = responses[q]
      /\ (\E c \in claims' : c.id = q) => Claimed \/ Holds(w, q)
      /\ Scans(w, q)' => Scans(w, q) \/ Claimed
      /\ Holds(w, q)' => /\ Holds(w, q)
                         /\ worker'[w].pc \in RunPc <=> self.pc \in RunPc
                         /\ self.pc = "failMove" => worker'[w].pc = "failMove"
<1>5. ASSUME Quiet PROVE Lifecycle(q)'
  <2>1. (Refused(q)' <=> Refused(q)) /\ (Answered(q)' <=> Answered(q))
    BY <1>2, <1>5 DEF Refused, Answered
  <2>2. Frame(q)
    BY <1>2, <1>3, <1>4, <1>5, <2>1 DEF Frame
  <2>3. QED
    BY <2>2, FrameLemma
<1>6. ASSUME UNCHANGED <<requests, failed, claims, runs, responses>>,
             worker'[w].pc \notin HeldPc \union ScanPc
      PROVE  Lifecycle(q)'
  BY <1>5, <1>6 DEF Withdrawn, Holds, Scans
<1>7. CASE Start(w) \/ IdleExit(w) \/ Heartbeat(w) \/ ScanDone(w)
           \/ NothingToClaim(w) \/ WorkerCrash(w)
  BY <1>1, <1>6, <1>7 DEF Start, IdleExit, Heartbeat, ScanDone,
     NothingToClaim, WorkerCrash, TypeOK, Worker, IdleWorker
<1>8. ASSUME NEW c \in claims, FindStale(w, c) PROVE Lifecycle(q)'
  <2>1. worker'[w].pc = "staleRespond" /\ worker'[w].stale = c
    BY <1>1, <1>8 DEF FindStale, TypeOK, Worker
  <2>2. QED
    BY <1>5, <1>8, <2>1 DEF FindStale, Withdrawn, Holds, Scans
<1>9. CASE RespondStale(w)
  <2> DEFINE r == self.stale.id
  <2>1. r \in Requests
    BY <1>1, <1>9 DEF RespondStale, TypeOK, LocalsOK, LocalsFit, Worker, Claim
  <2>2. worker'[w].pc = "staleMove" /\ worker'[w].stale = self.stale
    BY <1>1, <1>9 DEF RespondStale, TypeOK, Worker
  <2>3. \/ responses' = responses
        \/ responses' = [responses EXCEPT ![r] =
                            [status |-> "stale_claim", at |-> clock]]
    BY <1>1, <1>9, <2>1, ResponseType DEF RespondStale
  <2>4. Scans(w, r)
    BY <1>9 DEF RespondStale, Scans
  <2>5. (Refused(q)' => Refused(q)) /\ (Answered(q)' => Answered(q))
    BY <1>1, <1>2, <2>1, <2>3 DEF Refused, Answered, TypeOK
  <2>6. responses'[q] = responses[q] \/ ~Untouched(q)
    BY <1>1, <2>1, <2>3, <2>4 DEF Untouched, TypeOK
  <2>7. Frame(q)
    BY <1>2, <1>3, <1>4, <1>9, <2>2, <2>5, <2>6
       DEF Frame, RespondStale, Withdrawn, Holds, Scans
  <2>8. QED
    BY <2>7, FrameLemma
<1>10. CASE MoveStale(w)
  <2>1. worker'[w].pc = "scan"
    BY <1>1, <1>10 DEF MoveStale, TypeOK, Worker
  <2>2. claims' \subseteq claims /\ (Withdrawn(q)' => Withdrawn(q))
    BY <1>10 DEF MoveStale, Withdrawn, Archive
  <2>3. QED
    BY <1>5, <1>10, <2>1, <2>2 DEF MoveStale, Holds, Scans
<1>11. ASSUME NEW r \in requests, ClaimOne(w, r) PROVE Lifecycle(q)'
  <2>1. worker'[w].pc = "claimed" /\ worker'[w].req = r
    BY <1>1, <1>11 DEF ClaimOne, TypeOK, Worker
  <2>2. CASE q # r
    BY <1>5, <1>11, <2>1, <2>2 DEF ClaimOne, Withdrawn, Holds, Scans
  <2>3. CASE q = r
    <3>1. /\ Untouched(q)
          /\ caller[q] # "new" /\ ~Withdrawn(q)
          /\ result[q] # "request_too_large"
      BY <2>3 DEF Lifecycle, BeforeClaim, Unclaimed
    <3>2. q \notin requests' /\ ~Withdrawn(q)'
      BY <1>11, <2>3, <3>1 DEF ClaimOne, Withdrawn
    <3>3. BeforeClaim(q)'
      BY <1>2, <3>1, <3>2 DEF BeforeClaim, Unclaimed
    <3>4. \A v \in Workers : Holds(v, q)' => v = w
      BY <1>4, <3>1 DEF Untouched
    <3>5. OneHolder(q)'
      BY <1>11, <2>1, <3>1, <3>4 DEF OneHolder, ClaimOne, Untouched
    <3>6. ~Refused(q) /\ ~Answered(q)
      BY <2>3, <3>1 DEF Lifecycle, Definite, Unclaimed, Untouched
    <3>7. ~Refused(q)' /\ ~Answered(q)'
      BY <1>2, <1>11, <3>6 DEF ClaimOne, Refused, Answered
    <3>8. Definite(q)'
      BY <1>11, <3>1, <3>7 DEF Definite, ClaimOne, Untouched
    <3>9. QED
      BY <3>3, <3>5, <3>8 DEF Lifecycle
  <2>4. QED
    BY <2>2, <2>3
<1>12. CASE Validate(w)
  <2>1. /\ self.pc = "claimed" /\ worker'[w].pc \in {"stamp", "failRespond"}
        /\ worker'[w].req = self.req
    BY <1>1, <1>12 DEF Validate, TypeOK, Worker
  <2>2. QED
    BY <1>5, <1>12, <2>1 DEF Validate, Withdrawn, Holds, Scans, RunPc
<1>13. CASE FailRespond(w)
  <2> DEFINE r == self.req
  <2>1. r \in Requests /\ self.status \in RefusalStatus
    BY <1>1, <1>13 DEF FailRespond, TypeOK, LocalsOK, LocalsFit, Worker
  <2>2. worker'[w].pc = "failMove" /\ worker'[w].req = r /\ self.pc = "failRespond"
    BY <1>1, <1>13 DEF FailRespond, TypeOK, Worker
  <2>3. \/ responses' = responses
        \/ responses' = [responses EXCEPT ![r] =
                            [status |-> self.status, at |-> clock]]
    BY <1>1, <1>13, <2>1, ResponseType DEF FailRespond
  <2>4. CASE responses'[q] = responses[q]
    BY <1>5, <1>13, <2>2, <2>4 DEF FailRespond, Withdrawn, Holds, Scans, RunPc
  <2>5. CASE q = r
    <3>1. Holds(w, q)
      BY <2>2, <2>5 DEF Holds
    <3>2. ~Untouched(q) /\ ~Unclaimed(q) /\ runs[q] = 0
      BY <2>2, <3>1 DEF Lifecycle, BeforeClaim, OneHolder, Untouched
    <3>3. ~Unclaimed(q)'
      BY <1>2, <1>13, <3>2 DEF FailRespond, Unclaimed, Withdrawn
    <3>4. BeforeClaim(q)'
      BY <3>3 DEF BeforeClaim, Unclaimed
    <3>5. \A v \in Workers : Holds(v, q)' => v = w
      BY <1>4, <3>1 DEF Lifecycle, OneHolder
    <3>6. OneHolder(q)'
      BY <1>13, <2>2, <3>2, <3>5 DEF OneHolder, FailRespond
    <3>7. ~Answered(q)
      BY <3>2 DEF Lifecycle, Definite
    <3>8. ~Answered(q)'
      BY <1>1, <1>2, <2>1, <2>3, <3>7 DEF Answered, TypeOK
    <3>9. Definite(q)'
      BY <1>13, <2>2, <3>2, <3>3, <3>5, <3>8 DEF Definite, FailRespond
    <3>10. QED
      BY <3>4, <3>6, <3>9 DEF Lifecycle
  <2>6. QED
    BY <1>1, <2>1, <2>3, <2>4, <2>5 DEF TypeOK
<1>14. CASE FailMove(w)
  <2>1. worker'[w].pc = "top" /\ self.status \in RefusalStatus
    BY <1>1, <1>14 DEF FailMove, TypeOK, LocalsOK, LocalsFit, IdleWorker
  <2>2. claims' \subseteq claims /\ (Withdrawn(q)' => Withdrawn(q))
    BY <1>14, <2>1 DEF FailMove, Withdrawn, Archive
  <2>3. QED
    BY <1>5, <1>14, <2>1, <2>2 DEF FailMove, Holds, Scans
<1>15. CASE StampAndRun(w)
  <2> DEFINE r == self.req
  <2>1. r \in Requests
    BY <1>1, <1>15 DEF StampAndRun, TypeOK, LocalsOK, LocalsFit, Worker
  <2>2. self.pc = "stamp" /\ worker'[w].pc = "running" /\ worker'[w].req = r
    BY <1>1, <1>15 DEF StampAndRun, TypeOK, Worker
  <2>3. runs'[q] = IF q = r THEN runs[q] + 1 ELSE runs[q]
    BY <1>1, <1>15 DEF StampAndRun, TypeOK
  <2>4. CASE q # r
    BY <1>5, <1>15, <2>2, <2>3, <2>4
       DEF StampAndRun, Withdrawn, Holds, Scans
  <2>5. CASE q = r
    <3>1. Holds(w, q)
      BY <2>2, <2>5 DEF Holds
    <3>2. ~Untouched(q) /\ ~Unclaimed(q) /\ runs[q] = 0 /\ runs'[q] = 1
      BY <2>2, <2>3, <2>5, <3>1
         DEF Lifecycle, BeforeClaim, OneHolder, Untouched
    <3>3. ~Unclaimed(q)'
      BY <1>2, <1>15, <3>2 DEF StampAndRun, Unclaimed, Withdrawn
    <3>4. BeforeClaim(q)'
      BY <3>3 DEF BeforeClaim, Unclaimed
    <3>5. \A v \in Workers : Holds(v, q)' => v = w
      BY <1>4, <3>1 DEF Lifecycle, OneHolder
    <3>6. OneHolder(q)'
      BY <2>2, <3>2, <3>5 DEF OneHolder
    <3>7. ~Refused(q)
      BY <2>2, <3>1 DEF Lifecycle, Definite
    <3>8. ~Refused(q)'
      BY <1>2, <1>15, <3>7 DEF StampAndRun, Refused
    <3>9. Definite(q)'
      BY <3>2, <3>8 DEF Definite
    <3>10. QED
      BY <3>4, <3>6, <3>9 DEF Lifecycle
  <2>6. QED
    BY <2>4, <2>5
<1>16. ASSUME NEW status \in HandlerStatus, NEW quit \in BOOLEAN,
              HandlerReturns(w, status, quit)
       PROVE  Lifecycle(q)'
  <2>1. /\ self.pc = "running" /\ worker'[w].pc = "respond"
        /\ worker'[w].req = self.req
    BY <1>1, <1>16 DEF HandlerReturns, TypeOK, Worker
  <2>2. QED
    BY <1>5, <1>16, <2>1 DEF HandlerReturns, Withdrawn, Holds, Scans, RunPc
<1>17. CASE CompleteRespond(w)
  <2> DEFINE r == self.req
  <2>1. r \in Requests /\ self.status \in HandlerStatus
    BY <1>1, <1>17 DEF CompleteRespond, TypeOK, LocalsOK, LocalsFit, Worker
  <2>2. worker'[w].pc = "archive" /\ worker'[w].req = r /\ self.pc = "respond"
    BY <1>1, <1>17 DEF CompleteRespond, TypeOK, Worker
  <2>3. \/ responses' = responses
        \/ responses' = [responses EXCEPT ![r] =
                            [status |-> self.status, at |-> clock]]
    BY <1>1, <1>17, <2>1, ResponseType DEF CompleteRespond
  <2>4. CASE responses'[q] = responses[q]
    BY <1>5, <1>17, <2>2, <2>4
       DEF CompleteRespond, Withdrawn, Holds, Scans, RunPc
  <2>5. CASE q = r
    <3>1. Holds(w, q)
      BY <2>2, <2>5 DEF Holds
    <3>2. ~Untouched(q) /\ ~Unclaimed(q) /\ runs[q] = 1
      BY <2>2, <3>1 DEF Lifecycle, BeforeClaim, OneHolder, Untouched
    <3>3. ~Unclaimed(q)'
      BY <1>2, <1>17, <3>2 DEF CompleteRespond, Unclaimed, Withdrawn
    <3>4. BeforeClaim(q)'
      BY <3>3 DEF BeforeClaim, Unclaimed
    <3>5. \A v \in Workers : Holds(v, q)' => v = w
      BY <1>4, <3>1 DEF Lifecycle, OneHolder
    <3>6. OneHolder(q)'
      BY <1>17, <2>2, <3>2, <3>5 DEF OneHolder, CompleteRespond
    <3>7. ~Refused(q)
      BY <3>2 DEF Lifecycle, Definite
    <3>8. ~Refused(q)'
      BY <1>1, <1>2, <2>1, <2>3, <3>7 DEF Refused, TypeOK
    <3>9. Definite(q)'
      BY <1>17, <3>2, <3>8 DEF Definite, CompleteRespond
    <3>10. QED
      BY <3>4, <3>6, <3>9 DEF Lifecycle
  <2>6. QED
    BY <1>1, <2>1, <2>3, <2>4, <2>5 DEF TypeOK
<1>18. CASE CompleteMove(w)
  <2>1. worker'[w].pc \in {"exited", "top"}
    BY <1>1, <1>18 DEF CompleteMove, TypeOK, IdleWorker
  <2>2. claims' \subseteq claims
    BY <1>18 DEF CompleteMove
  <2>3. QED
    BY <1>5, <1>18, <2>1, <2>2 DEF CompleteMove, Withdrawn, Holds, Scans
<1>19. QED
  BY <1>7, <1>8, <1>9, <1>10, <1>11, <1>12, <1>13, <1>14, <1>15, <1>16,
     <1>17, <1>18 DEF WorkerNext, WorkerStep

LEMMA InitLifecycle == Init => RequestLifecycle
<1> SUFFICES ASSUME Init, NEW r \in Requests PROVE Lifecycle(r)
  BY DEF RequestLifecycle
<1>1. \A w \in Workers : ~Holds(w, r) /\ ~Scans(w, r)
  BY DEF Init, IdleWorker, Holds, Scans
<1>2. Untouched(r) /\ ~Withdrawn(r) /\ result[r] = None /\ responses[r] = None
  BY <1>1 DEF Init, Untouched, Withdrawn
<1>3. QED
  BY <1>1, <1>2, NoneAssumption
     DEF Init, Lifecycle, BeforeClaim, OneHolder, Definite, Refused, Answered

LEMMA NextLifecycle ==
  TypeInv /\ RequestLifecycle /\ [Next]_vars => RequestLifecycle'
<1> SUFFICES ASSUME TypeInv, RequestLifecycle, [Next]_vars,
                    NEW q \in Requests
             PROVE  Lifecycle(q)'
  BY DEF RequestLifecycle
<1>1. Lifecycle(q)
  BY DEF RequestLifecycle
<1>2. CASE Tick \/ UNCHANGED vars
  <2>1. UNCHANGED <<callerVars, dirVars, worker, runs>>
    BY <1>2 DEF Tick, vars
  <2>2. QED
    BY <1>1, <2>1 DEF callerVars, dirVars, Lifecycle, BeforeClaim, OneHolder,
       Definite, Unclaimed, Untouched, Withdrawn, Refused, Answered, Holds,
       Scans
<1>3. QED
  BY <1>1, <1>2, CallerLifecycle, WorkerLifecycle DEF Next

\* The inductive invariant of the exchange: a request no worker has renamed
\* is untouched, a renamed one has at most one holder, and what was published
\* about it agrees with whether its handler ran.
THEOREM LifecycleCorrect == Spec => []RequestLifecycle
<1>1. Init => TypeInv /\ RequestLifecycle
  BY InitType, InitLifecycle
<1>2. TypeInv /\ RequestLifecycle /\ [Next]_vars => (TypeInv /\ RequestLifecycle)'
  BY NextType, NextLifecycle
<1>3. QED
  BY <1>1, <1>2, PTL DEF Spec

\* The handler runs at most once per request, for any number of workers and
\* callers, any timeouts, crashes, failing writes and stale scans.
THEOREM RunOnce == Spec => []AtMostOneRun
<1>1. RequestLifecycle => AtMostOneRun
  BY DEF RequestLifecycle, Lifecycle, Definite, AtMostOneRun
<1>2. QED
  BY <1>1, LifecycleCorrect, PTL

\* A request that its caller withdrew on timeout never runs.
THEOREM WithdrawalFinal == Spec => []WithdrawnNeverRuns
<1>1. RequestLifecycle => WithdrawnNeverRuns
  BY DEF RequestLifecycle, Lifecycle, BeforeClaim, Unclaimed,
         WithdrawnNeverRuns
<1>2. QED
  BY <1>1, LifecycleCorrect, PTL

\* A caller that is told of a refusal may retry: its request did not run.
THEOREM RefusalDefinite == Spec => []RefusedNeverRuns
<1>1. RequestLifecycle => RefusedNeverRuns
  BY DEF RequestLifecycle, Lifecycle, BeforeClaim, Definite, Refused,
         Unclaimed, Untouched, RefusedNeverRuns
<1>2. QED
  BY <1>1, LifecycleCorrect, PTL

\* A caller that receives an answer of the handler knows that it ran.
THEOREM AnswerGenuine == Spec => []AnswerImpliesRun
<1>1. RequestLifecycle => AnswerImpliesRun
  BY DEF RequestLifecycle, Lifecycle, Definite, Answered, AnswerImpliesRun
<1>2. QED
  BY <1>1, LifecycleCorrect, PTL

\* The first published response stays until the caller takes it.
THEOREM FirstResponseStays == Spec => FirstResponseWins
<1> DEFINE Kept ==
      \A r \in Requests :
        responses[r] # None /\ responses'[r] # responses[r] =>
          responses'[r] = None /\ caller[r] = "consuming"
<1>1. ASSUME TypeInv, Next PROVE Kept
  <2>1. CASE Tick
    BY <2>1 DEF Tick, dirVars
  <2>2. ASSUME NEW r \in Requests, CallerNext(r) PROVE Kept
    BY <1>1, <2>2 DEF CallerNext, CallerStep, SendRejected, Send, SendFailed,
       Poll, ReadResponse, ReadFails, Consume, TimeOut, Withdraw,
       CallerCrash, Moves, dirVars
  <2>3. ASSUME NEW w \in Workers, WorkerNext(w) PROVE Kept
    <3>1. CASE UNCHANGED responses
      BY <3>1
    <3>2. ASSUME NEW r \in Requests, NEW status \in ResponseStatus,
                 write_response(r, status)
          PROVE  Kept
      BY <1>1, <3>2, ResponseType DEF TypeInv, TypeOK
    <3>3. CASE RespondStale(w)
      <4>1. worker[w].stale.id \in Requests
        BY <1>1, <3>3 DEF TypeInv, TypeOK, LocalsOK, LocalsFit, RespondStale,
           Worker, Claim
      <4>2. QED
        BY <3>2, <3>3, <4>1 DEF RespondStale
    <3>4. CASE FailRespond(w)
      <4>1. worker[w].req \in Requests /\ worker[w].status \in ResponseStatus
        BY <1>1, <3>4 DEF TypeInv, TypeOK, LocalsOK, LocalsFit, FailRespond,
           Worker
      <4>2. QED
        BY <3>2, <3>4, <4>1 DEF FailRespond
    <3>5. CASE CompleteRespond(w)
      <4>1. worker[w].req \in Requests /\ worker[w].status \in ResponseStatus
        BY <1>1, <3>5 DEF TypeInv, TypeOK, LocalsOK, LocalsFit,
           CompleteRespond, Worker
      <4>2. QED
        BY <3>2, <3>5, <4>1 DEF CompleteRespond
    <3>6. QED
      BY <2>3, <3>1, <3>3, <3>4, <3>5 DEF WorkerNext, WorkerStep, Start,
         IdleExit, Heartbeat, ScanDone, FindStale, MoveStale, ClaimOne,
         NothingToClaim, Validate, FailMove, StampAndRun, HandlerReturns,
         CompleteMove, WorkerCrash, dirVars
  <2>4. QED
    BY <1>1, <2>1, <2>2, <2>3 DEF Next
<1>2. TypeInv /\ [Next]_vars => [Kept]_vars
  BY <1>1
<1>3. QED
  BY <1>2, InitType, NextType, PTL DEF Spec, FirstResponseWins

-----------------------------------------------------------------------------
(***************************************************************************)
(* No published request is lost.  file_exchange_gc drops a file of done/   *)
(* or failed/ for the age of the file, NeverLost speaks of the age of the  *)
(* request: the two agree because a rename keeps the modification time and *)
(* the only later one, the stamp of the claim, is taken after the request  *)
(* was created.  So the dates of all files of a request are part of the    *)
(* inductive invariant, also while they are in the locals of a worker.     *)
(***************************************************************************)
Dated(r) ==
  /\ created[r] <= clock
  /\ \A c \in claims : c.id = r => created[r] <= c.stamp
  /\ \A f \in done \union failed :
       f.id = r => caller[r] # "new" /\ (f.tag # "response" => created[r] <= f.mtime)
  /\ \A w \in Workers :
       worker[w].pc = "stamp" /\ worker[w].req = r => created[r] <= worker[w].stamp
  /\ result[r] = "write_failed" => caller[r] = "returned"

\* The file of r itself, wherever it was archived.
Kept(r) == \E f \in done \union failed : f.id = r /\ f.tag # "response"
Claimed(r) == \E c \in claims : c.id = r
Aged(r) == HistoryTtl # 0 /\ clock - created[r] > HistoryTtl

Accounted(r) ==
  \/ caller[r] = "new"
  \/ result[r] \in {"request_too_large", "write_failed"}
  \/ r \in requests \/ Claimed(r) \/ Kept(r) \/ Aged(r)

TraceInv == \A r \in Requests : Dated(r) /\ Accounted(r)

LEMMA AccountedIsNeverLost == TraceInv => NeverLost
BY DEF TraceInv, Accounted, Claimed, Kept, Aged, NeverLost

\* file_exchange_gc keeps the file of a request that is not old enough.
LEMMA GcKeeps ==
  ASSUME TypeOK, NEW q \in Requests, Dated(q),
         done' = Fresh(done), failed' = Fresh(failed), UNCHANGED clock
  PROVE  /\ done' \union failed' \subseteq done \union failed
         /\ Kept(q) => Kept(q)' \/ Aged(q)
<1>1. done' \union failed' \subseteq done \union failed
  BY DEF Fresh
<1>2. ASSUME NEW f \in done \union failed, f.id = q, f.tag # "response",
             f \notin done' \union failed'
      PROVE  Aged(q)
  <2>1. f.mtime \in 0 .. MaxTime /\ clock \in 0 .. MaxTime /\ created[q] \in 0 .. MaxTime
    BY DEF TypeOK, Archived
  <2>2. HistoryTtl # 0 /\ ~(clock - f.mtime <= HistoryTtl)
    BY <1>2 DEF Fresh
  <2>3. created[q] <= f.mtime
    BY <1>2 DEF Dated
  <2> QED
    BY <2>1, <2>2, <2>3, FileExchangeAssumption DEF Aged
<1> QED
  BY <1>1, <1>2 DEF Kept

\* A call that is not q's leaves q where it is.
LEMMA OtherCaller ==
  ASSUME TypeOK, NEW q \in Requests, Dated(q), Accounted(q),
         UNCHANGED <<clock, claims, worker>>,
         caller'[q] = caller[q], created'[q] = created[q], result'[q] = result[q],
         q \in requests => q \in requests',
         \A f \in done' \union failed' : f.id = q => f \in done \union failed,
         Kept(q) => Kept(q)' \/ Aged(q)
  PROVE  Dated(q)' /\ Accounted(q)'
<1>1. Dated(q)'
  BY DEF Dated
<1>2. (Claimed(q)' <=> Claimed(q)) /\ (Aged(q)' <=> Aged(q))
  BY DEF Claimed, Aged
<1> QED
  BY <1>1, <1>2 DEF Accounted

LEMMA CallerTrace ==
  ASSUME TypeInv, NEW r \in Requests, CallerNext(r), NEW q \in Requests,
         Lifecycle(q), Dated(q), Accounted(q)
  PROVE  Dated(q)' /\ Accounted(q)'
<1> USE DEF callerVars, dirVars
<1>0. TypeOK /\ LocalsOK
  BY DEF TypeInv
<1>1. UNCHANGED <<clock, claims, worker>>
  BY DEF CallerNext, CallerStep, SendRejected, Send, SendFailed, Poll,
         ReadResponse, ReadFails, Consume, TimeOut, Withdraw, CallerCrash
<1>2. Claimed(q)' <=> Claimed(q)
  BY <1>1 DEF Claimed
\* An action of q itself, after it was sent.
<1>3. ASSUME UNCHANGED created,
             caller[q] \notin {"new", "returned"}, caller'[q] # "new",
             result'[q] # "write_failed",
             q \in requests => q \in requests' \/ Kept(q)',
             \A f \in done' \union failed' : f.id = q =>
               f \in done \union failed \/ f.tag = "response" \/ created[q] <= f.mtime,
             Kept(q) => Kept(q)'
      PROVE  Dated(q)' /\ Accounted(q)'
  <2>1. Dated(q)'
    BY <1>1, <1>3 DEF Dated
  <2>2. result[q] \notin {"request_too_large", "write_failed"}
    BY <1>3 DEF Dated, Lifecycle, BeforeClaim
  <2>3. Aged(q)' <=> Aged(q)
    BY <1>1, <1>3 DEF Aged
  <2> QED
    BY <1>2, <1>3, <2>1, <2>2, <2>3 DEF Accounted
<1>4. ASSUME done \subseteq done', failed \subseteq failed' PROVE Kept(q) => Kept(q)'
  BY <1>4 DEF Kept
<1>5. CASE SendRejected(r)
  <2>1. CASE q = r
    <3>1. caller[q] = "new" /\ caller'[q] = "returned" /\ result'[q] = "request_too_large"
      BY <1>0, <1>5, <2>1 DEF SendRejected, TypeOK
    <3>2. Dated(q)'
      BY <1>5, <3>1 DEF SendRejected, Dated
    <3> QED
      BY <3>1, <3>2 DEF Accounted
  <2>2. CASE q # r
    BY <1>0, <1>4, <1>5, <2>2, OtherCaller DEF SendRejected, TypeOK
  <2> QED
    BY <2>1, <2>2
\* A call that has not been sent has no file anywhere.
<1>6. ASSUME caller[q] = "new"
      PROVE  /\ \A f \in done \union failed : f.id # q
             /\ \A c \in claims : c.id # q
             /\ \A w \in Workers : ~(worker[w].pc = "stamp" /\ worker[w].req = q)
             /\ result[q] = None
  BY <1>6 DEF Dated, Lifecycle, BeforeClaim, Unclaimed, Untouched, Holds
<1>7. ASSUME q = r, caller[q] = "new", created' = [created EXCEPT ![r] = clock],
             done' = Fresh(done), failed' = Fresh(failed),
             result'[q] = "write_failed" => caller'[q] = "returned"
      PROVE  Dated(q)'
  <2>1. done' \union failed' \subseteq done \union failed
    BY <1>7 DEF Fresh
  <2>2. created'[q] = clock /\ clock \in Nat
    BY <1>0, <1>7 DEF TypeOK
  <2> QED
    BY <1>1, <1>6, <1>7, <2>1, <2>2 DEF Dated
<1>8. ASSUME NEW v \in BOOLEAN, Send(r, v) PROVE Dated(q)' /\ Accounted(q)'
  <2>1. CASE q = r
    <3>1. caller[q] = "new" /\ result'[q] = None /\ q \in requests'
      BY <1>6, <1>8, <2>1 DEF Send
    <3>2. Dated(q)'
      BY <1>7, <1>8, <2>1, <3>1, NoneAssumption DEF Send
    <3> QED
      BY <3>1, <3>2 DEF Accounted
  <2>2. CASE q # r
    BY <1>0, <1>8, <2>2, OtherCaller, GcKeeps DEF Send, TypeOK
  <2> QED
    BY <2>1, <2>2
<1>9. ASSUME NEW linked \in BOOLEAN, SendFailed(r, linked)
      PROVE  Dated(q)' /\ Accounted(q)'
  <2>1. CASE q = r
    <3>1. caller[q] = "new" /\ caller'[q] = "returned" /\ result'[q] = "write_failed"
      BY <1>0, <1>9, <2>1 DEF SendFailed, TypeOK
    <3>2. Dated(q)'
      BY <1>7, <1>9, <2>1, <3>1 DEF SendFailed
    <3> QED
      BY <3>1, <3>2 DEF Accounted
  <2>2. CASE q # r
    BY <1>0, <1>9, <2>2, OtherCaller, GcKeeps DEF SendFailed, TypeOK
  <2> QED
    BY <2>1, <2>2
<1>10. CASE Poll(r) \/ TimeOut(r) \/ CallerCrash(r)
  <2>1. CASE q = r
    <3>1. result[q] # "write_failed" \/ caller[q] = "returned"
      BY DEF Dated
    <3> QED
      BY <1>0, <1>3, <1>4, <1>10, <2>1, <3>1 DEF Poll, TimeOut, CallerCrash, TypeOK
  <2>2. CASE q # r
    BY <1>0, <1>4, <1>10, <2>2, OtherCaller DEF Poll, TimeOut, CallerCrash, TypeOK
  <2> QED
    BY <2>1, <2>2
<1>11. CASE ReadResponse(r)
  <2>1. CASE q = r
    <3>1. result'[q] # "write_failed"
      BY <1>0, <1>11, <2>1 DEF ReadResponse, TypeOK, LocalsOK, Response
    <3> QED
      BY <1>0, <1>3, <1>4, <1>11, <2>1, <3>1 DEF ReadResponse, TypeOK
  <2>2. CASE q # r
    BY <1>0, <1>4, <1>11, <2>2, OtherCaller DEF ReadResponse, TypeOK
  <2> QED
    BY <2>1, <2>2
<1>12. ASSUME NEW status \in {"response_too_large", "invalid_response"},
              ReadFails(r, status)
       PROVE  Dated(q)' /\ Accounted(q)'
  <2>1. CASE q = r
    BY <1>0, <1>3, <1>4, <1>12, <2>1 DEF ReadFails, TypeOK
  <2>2. CASE q # r
    BY <1>0, <1>4, <1>12, <2>2, OtherCaller DEF ReadFails, TypeOK
  <2> QED
    BY <2>1, <2>2
<1>13. CASE Consume(r)
  <2>1. /\ UNCHANGED <<created, result, requests, failed>> /\ done \subseteq done'
        /\ \A f \in done' : f \in done \/ (f.id = r /\ f.tag = "response")
        /\ caller[r] = "consuming" /\ caller' = [caller EXCEPT ![r] = "returned"]
    BY <1>13 DEF Consume, Archive, Moves
  <2>2. CASE q = r
    <3>1. result[q] # "write_failed"
      BY <2>1, <2>2 DEF Dated
    <3> QED
      BY <1>0, <1>3, <1>4, <2>1, <2>2, <3>1 DEF TypeOK
  <2>3. CASE q # r
    BY <1>0, <1>1, <1>4, <2>1, <2>3, OtherCaller DEF TypeOK
  <2> QED
    BY <2>2, <2>3
<1>14. CASE Withdraw(r)
  <2>1. /\ UNCHANGED <<created, result, done>> /\ failed \subseteq failed'
        /\ caller[r] = "withdrawing" /\ caller' = [caller EXCEPT ![r] = "returned"]
        /\ \A f \in failed' : f \in failed \/ (f.id = r /\ f.mtime = created[r])
        /\ requests' = requests \/ requests' = requests \ {r}
        /\ r \in requests => r \in requests' \/ Kept(r)'
    <3>1. PICK moved \in Moves(requests \intersect {r}) :
            /\ requests' = requests \ moved
            /\ failed' = failed \union
                           {Archive(x, "client_timeout", created[x]) : x \in moved}
      BY <1>14 DEF Withdraw
    <3>2. moved = requests \intersect {r} \/ moved = {}
      BY DEF Moves
    <3>3. r \in moved => Kept(r)'
      <4>1. SUFFICES ASSUME r \in moved PROVE Kept(r)'
        OBVIOUS
      <4> DEFINE a == Archive(r, "client_timeout", created[r])
      <4>2. a \in failed' /\ a.id = r /\ a.tag # "response"
        BY <3>1, <4>1 DEF Archive
      <4> QED
        BY <4>2 DEF Kept
    <3>4. \A f \in failed' : f \in failed \/ (f.id = r /\ f.mtime = created[r])
      BY <3>1, <3>2 DEF Archive
    <3> QED
      BY <1>14, <3>1, <3>2, <3>3, <3>4 DEF Withdraw
  <2>2. CASE q = r
    <3>1. result[q] # "write_failed"
      BY <2>1, <2>2 DEF Dated
    <3>2. created[q] <= created[q]
      BY <1>0 DEF TypeOK
    <3> QED
      BY <1>0, <1>3, <1>4, <2>1, <2>2, <3>1, <3>2 DEF TypeOK
  <2>3. CASE q # r
    BY <1>0, <1>1, <1>4, <2>1, <2>3, OtherCaller DEF TypeOK
  <2> QED
    BY <2>2, <2>3
<1> QED
  BY <1>5, <1>8, <1>9, <1>10, <1>11, <1>12, <1>13, <1>14 DEF CallerNext, CallerStep

\* A rename out of claims/ archives the file with its date.
LEMMA MovedClaims ==
  ASSUME TypeOK, NEW q \in Requests, Dated(q), Accounted(q),
         UNCHANGED <<clock, callerVars, requests>>,
         NEW r, NEW tag, tag # "response", NEW moved \in SUBSET claims,
         \A c \in moved : c.id = r,
         claims' = claims \ moved,
         done' \union failed' =
           done \union failed \union {Archive(r, tag, c.stamp) : c \in moved},
         \A w \in Workers : worker'[w].pc # "stamp" \/ worker'[w] = worker[w],
         caller[q] # "new" \/ ~Claimed(q)
  PROVE  Dated(q)' /\ Accounted(q)'
<1> USE DEF callerVars
<1>1. \A f \in done' \union failed' :
        \/ f \in done \union failed
        \/ \E c \in moved : f = Archive(r, tag, c.stamp)
  OBVIOUS
<1>2. \A c \in moved : /\ Archive(r, tag, c.stamp) \in done' \union failed'
                       /\ Archive(r, tag, c.stamp).id = r
                       /\ Archive(r, tag, c.stamp).tag = tag
                       /\ Archive(r, tag, c.stamp).mtime = c.stamp
  BY DEF Archive
<1>3. Dated(q)'
  <2>1. ASSUME NEW f \in done' \union failed', f.id = q
        PROVE  caller[q] # "new" /\ (f.tag # "response" => created[q] <= f.mtime)
    <3>1. CASE f \in done \union failed
      BY <2>1, <3>1 DEF Dated
    <3>2. ASSUME NEW c \in moved, f = Archive(r, tag, c.stamp)
          PROVE  caller[q] # "new" /\ created[q] <= f.mtime
      <4>1. r = q /\ f.mtime = c.stamp /\ c.id = q /\ c \in claims
        BY <1>2, <2>1, <3>2
      <4> QED
        BY <4>1 DEF Dated, Claimed
    <3> QED
      BY <1>1, <3>1, <3>2
  <2> QED
    BY <2>1 DEF Dated
<1>4. Claimed(q) => Claimed(q)' \/ Kept(q)'
  <2> SUFFICES ASSUME NEW c \in claims, c.id = q PROVE Claimed(q)' \/ Kept(q)'
    BY DEF Claimed
  <2>1. CASE c \in moved
    BY <1>2, <2>1 DEF Kept
  <2>2. CASE c \notin moved
    BY <2>2 DEF Claimed
  <2> QED
    BY <2>1, <2>2
<1>5. (Kept(q) => Kept(q)') /\ (Aged(q) => Aged(q)')
  BY DEF Kept, Aged
<1> QED
  BY <1>3, <1>4, <1>5 DEF Accounted

LEMMA WorkerTrace ==
  ASSUME TypeInv, NEW w \in Workers, WorkerNext(w), NEW q \in Requests,
         Lifecycle(q), Dated(q), Accounted(q)
  PROVE  Dated(q)' /\ Accounted(q)'
<1> USE DEF callerVars, dirVars
<1> DEFINE self == worker[w]
<1>0. TypeOK /\ LocalsOK
  BY DEF TypeInv
<1>1. UNCHANGED <<clock, callerVars>>
  BY DEF WorkerNext, WorkerStep, Start, IdleExit, Heartbeat, ScanDone,
         FindStale, RespondStale, MoveStale, ClaimOne, NothingToClaim,
         Validate, FailRespond, FailMove, StampAndRun, HandlerReturns,
         CompleteRespond, CompleteMove, WorkerCrash
<1>2. \A v \in Workers \ {w} : worker'[v] = worker[v]
  BY <1>0 DEF WorkerNext, WorkerStep, Start, IdleExit, Heartbeat, ScanDone,
         FindStale, RespondStale, MoveStale, ClaimOne, NothingToClaim,
         Validate, FailRespond, FailMove, StampAndRun, HandlerReturns,
         CompleteRespond, CompleteMove, WorkerCrash, TypeOK
<1>3. caller[q] = "new" => ~Claimed(q)
  BY DEF Claimed, Lifecycle, BeforeClaim, Unclaimed, Untouched
\* The files stay where they are.
<1>4. ASSUME UNCHANGED <<requests, claims, done, failed>>,
             worker'[w].pc = "stamp" => worker'[w].stamp = clock
      PROVE  Dated(q)' /\ Accounted(q)'
  <2>1. Dated(q)'
    BY <1>1, <1>2, <1>4 DEF Dated
  <2>2. (Claimed(q)' <=> Claimed(q)) /\ (Kept(q)' <=> Kept(q)) /\ (Aged(q)' <=> Aged(q))
    BY <1>1, <1>4 DEF Claimed, Kept, Aged
  <2> QED
    BY <1>1, <1>4, <2>1, <2>2 DEF Accounted
<1>5. CASE Start(w) \/ IdleExit(w) \/ Heartbeat(w) \/ ScanDone(w)
           \/ NothingToClaim(w) \/ WorkerCrash(w) \/ RespondStale(w)
           \/ FailRespond(w) \/ CompleteRespond(w)
  <2>1. worker'[w].pc # "stamp"
    BY <1>0, <1>5 DEF Start, IdleExit, Heartbeat, ScanDone, NothingToClaim,
       WorkerCrash, RespondStale, FailRespond, CompleteRespond, TypeOK, Worker,
       IdleWorker
  <2>2. UNCHANGED <<requests, claims, done, failed>>
    BY <1>5 DEF Start, IdleExit, Heartbeat, ScanDone, NothingToClaim,
       WorkerCrash, RespondStale, FailRespond, CompleteRespond
  <2> QED
    BY <1>4, <2>1, <2>2
<1>6. ASSUME NEW c \in claims, FindStale(w, c) PROVE Dated(q)' /\ Accounted(q)'
  <2>1. worker'[w].pc = "staleRespond"
    BY <1>0, <1>6 DEF FindStale, TypeOK, Worker
  <2> QED
    BY <1>4, <1>6, <2>1 DEF FindStale
<1>7. ASSUME NEW status \in HandlerStatus, NEW quit \in BOOLEAN,
             HandlerReturns(w, status, quit)
      PROVE  Dated(q)' /\ Accounted(q)'
  <2>1. worker'[w].pc = "respond"
    BY <1>0, <1>7 DEF HandlerReturns, TypeOK, Worker
  <2> QED
    BY <1>4, <1>7, <2>1 DEF HandlerReturns
<1>8. CASE Validate(w)
  <2>1. worker'[w].stamp = clock
    BY <1>0, <1>8 DEF Validate, TypeOK, Worker
  <2> QED
    BY <1>4, <1>8, <2>1 DEF Validate
<1>9. CASE MoveStale(w)
  <2> DEFINE c == self.stale
  <2>1. PICK moved \in Moves(ClaimsOf(c.id, c.agent)) :
          /\ claims' = claims \ moved
          /\ failed' = failed \union
                         {Archive(c.id, "stale_claim", f.stamp) : f \in moved}
    BY <1>9 DEF MoveStale
  <2>2. moved \in SUBSET claims /\ \A f \in moved : f.id = c.id
    BY DEF Moves, ClaimsOf
  <2>3. worker'[w].pc = "scan" /\ UNCHANGED <<requests, done>>
    BY <1>0, <1>9 DEF MoveStale, TypeOK, Worker
  <2> HIDE DEF c
  <2>4. done' \union failed' =
          done \union failed \union {Archive(c.id, "stale_claim", f.stamp) : f \in moved}
    BY <2>1, <2>3
  <2>5. \A v \in Workers : worker'[v].pc # "stamp" \/ worker'[v] = worker[v]
    BY <1>2, <2>3
  <2> QED
    BY <1>0, <1>1, <1>3, <2>1, <2>2, <2>3, <2>4, <2>5, MovedClaims
<1>10. CASE FailMove(w)
  <2> DEFINE r == self.req
             tag == self.status
  <2>1. PICK moved \in Moves(ClaimsOf(r, w)) :
          /\ claims' = claims \ moved
          /\ failed' = failed \union {Archive(r, tag, f.stamp) : f \in moved}
    BY <1>10 DEF FailMove
  <2>2. moved \in SUBSET claims /\ \A f \in moved : f.id = r
    BY DEF Moves, ClaimsOf
  <2>3. worker'[w].pc = "top" /\ UNCHANGED <<requests, done>> /\ tag # "response"
    BY <1>0, <1>10 DEF FailMove, TypeOK, LocalsOK, LocalsFit, IdleWorker
  <2> HIDE DEF r, tag
  <2>4. done' \union failed' =
          done \union failed \union {Archive(r, tag, f.stamp) : f \in moved}
    BY <2>1, <2>3
  <2>5. \A v \in Workers : worker'[v].pc # "stamp" \/ worker'[v] = worker[v]
    BY <1>2, <2>3
  <2> QED
    BY <1>0, <1>1, <1>3, <2>1, <2>2, <2>3, <2>4, <2>5, MovedClaims
<1>11. CASE CompleteMove(w)
  <2> DEFINE r == self.req
  <2>1. PICK moved \in Moves(ClaimsOf(r, w)) :
          /\ claims' = claims \ moved
          /\ done' = done \union {Archive(r, "claim", f.stamp) : f \in moved}
    BY <1>11 DEF CompleteMove
  <2>2. moved \in SUBSET claims /\ \A f \in moved : f.id = r
    BY DEF Moves, ClaimsOf
  <2>3. worker'[w].pc # "stamp" /\ UNCHANGED <<requests, failed>>
    BY <1>0, <1>11 DEF CompleteMove, TypeOK, IdleWorker
  <2> HIDE DEF r
  <2>4. done' \union failed' =
          done \union failed \union {Archive(r, "claim", f.stamp) : f \in moved}
    BY <2>1, <2>3
  <2>5. \A v \in Workers : worker'[v].pc # "stamp" \/ worker'[v] = worker[v]
    BY <1>2, <2>3
  <2> QED
    BY <1>0, <1>1, <1>3, <2>1, <2>2, <2>3, <2>4, <2>5, MovedClaims
\* A claim of r replaces the request or an earlier claim of r.
<1>12. ASSUME NEW r \in Requests, NEW a \in claims', a.id = r,
              r = q => created[q] <= a.stamp,
              \A c \in claims' : c \in claims \/ c = a,
              \A c \in claims : c \in claims' \/ c.id = r,
              \A x \in requests : x \in requests' \/ x = r,
              UNCHANGED <<done, failed>>, worker'[w].pc # "stamp"
       PROVE  Dated(q)' /\ Accounted(q)'
  <2>1. Dated(q)'
    BY <1>1, <1>2, <1>12 DEF Dated
  <2>2. Claimed(q) \/ q \in requests => Claimed(q)' \/ q \in requests'
    BY <1>12 DEF Claimed
  <2>3. (Kept(q)' <=> Kept(q)) /\ (Aged(q)' <=> Aged(q))
    BY <1>1, <1>12 DEF Kept, Aged
  <2> QED
    BY <1>1, <2>1, <2>2, <2>3 DEF Accounted
<1>13. ASSUME NEW r \in requests, ClaimOne(w, r) PROVE Dated(q)' /\ Accounted(q)'
  <2> DEFINE a == [id |-> r, agent |-> w, stamp |-> created[r]]
  <2>1. r \in Requests /\ created[r] <= created[r]
    BY <1>0 DEF TypeOK
  <2>2. /\ requests' = requests \ {r} /\ claims' = claims \union {a}
        /\ UNCHANGED <<done, failed>>
    BY <1>13 DEF ClaimOne
  <2>3. worker'[w].pc # "stamp"
    BY <1>0, <1>13 DEF ClaimOne, TypeOK, Worker
  <2>4. a.id = r /\ a.stamp = created[r]
    OBVIOUS
  <2> HIDE DEF a
  <2> QED
    BY <1>12, <2>1, <2>2, <2>3, <2>4
<1>14. CASE StampAndRun(w)
  <2> DEFINE r == self.req
             a == [id |-> r, agent |-> w, stamp |-> self.stamp]
  <2>1. r \in Requests /\ self.pc = "stamp"
    BY <1>0, <1>14 DEF StampAndRun, TypeOK, LocalsOK, LocalsFit, Worker
  <2>2. /\ \/ claims' = (claims \ ClaimsOf(r, w)) \union {a}
           \/ UNCHANGED claims
        /\ UNCHANGED <<requests, done, failed>>
    BY <1>14 DEF StampAndRun
  <2>3. worker'[w].pc # "stamp"
    BY <1>0, <1>14 DEF StampAndRun, TypeOK, Worker
  <2>4. a.id = r /\ a.stamp = self.stamp
    OBVIOUS
  <2>5. r = q => created[q] <= self.stamp
    BY <2>1 DEF Dated
  <2> HIDE DEF a, r
  <2>6. CASE UNCHANGED claims
    BY <1>4, <2>2, <2>3, <2>6
  <2>7. CASE claims' = (claims \ ClaimsOf(r, w)) \union {a}
    <3>1. /\ a \in claims' /\ \A c \in claims' : c \in claims \/ c = a
          /\ \A c \in claims : c \in claims' \/ c.id = r
      BY <2>7 DEF ClaimsOf
    <3> QED
      BY <1>12, <2>1, <2>2, <2>3, <2>4, <2>5, <3>1
  <2> QED
    BY <2>2, <2>6, <2>7
<1> QED
  BY <1>5, <1>6, <1>7, <1>8, <1>9, <1>10, <1>11, <1>13, <1>14
     DEF WorkerNext, WorkerStep

LEMMA InitTrace == Init => TraceInv
<1> SUFFICES ASSUME Init, NEW r \in Requests PROVE Dated(r) /\ Accounted(r)
  BY DEF TraceInv
<1>1. Dated(r)
  BY NoneAssumption DEF Init, Dated, IdleWorker
<1> QED
  BY <1>1 DEF Init, Accounted

LEMMA NextTrace ==
  TypeInv /\ RequestLifecycle /\ TraceInv /\ [Next]_vars => TraceInv'
<1> SUFFICES ASSUME TypeInv, RequestLifecycle, TraceInv, [Next]_vars,
                    NEW q \in Requests
             PROVE  Dated(q)' /\ Accounted(q)'
  BY DEF TraceInv
<1>1. Lifecycle(q) /\ Dated(q) /\ Accounted(q)
  BY DEF RequestLifecycle, TraceInv
<1>2. CASE Tick \/ UNCHANGED vars
  <2>1. /\ UNCHANGED <<callerVars, dirVars, worker>>
        /\ clock' \in {clock, clock + 1} /\ clock \in Nat /\ created[q] \in Nat
    BY <1>2 DEF Tick, vars, TypeInv, TypeOK
  <2>2. Dated(q)'
    BY <1>1, <2>1 DEF callerVars, dirVars, Dated
  <2>3. /\ Claimed(q)' <=> Claimed(q)
        /\ Kept(q)' <=> Kept(q)
    BY <2>1 DEF dirVars, Claimed, Kept
  <2>4. Aged(q) => Aged(q)'
    BY <2>1, FileExchangeAssumption DEF callerVars, Aged
  <2> QED
    BY <1>1, <2>1, <2>2, <2>3, <2>4 DEF callerVars, dirVars, Accounted
<1> QED
  BY <1>1, <1>2, CallerTrace, WorkerTrace DEF Next

\* A request that was published can always be found: it waits, is claimed, or
\* lies in done/ or failed/, until file_exchange_gc may drop it for its age,
\* whatever crashes, withdrawals, stale scans and failing renames happen.
THEOREM NoRequestLost == Spec => []NeverLost
<1>1. Init => TypeInv /\ RequestLifecycle /\ TraceInv
  BY InitType, InitLifecycle, InitTrace
<1>2. TypeInv /\ RequestLifecycle /\ TraceInv /\ [Next]_vars
        => (TypeInv /\ RequestLifecycle /\ TraceInv)'
  BY NextType, NextLifecycle, NextTrace
<1> QED
  BY <1>1, <1>2, AccountedIsNeverLost, PTL DEF Spec
=============================================================================
