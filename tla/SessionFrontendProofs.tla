---------------------- MODULE SessionFrontendProofs ----------------------
(***************************************************************************)
(* Proofs about SessionFrontend, for any number of front ends, names and   *)
(* input lines, any nesting of batches and any value of the bounds.        *)
(***************************************************************************)
EXTENDS SessionFrontend, TLAPS

OpenPc == {"open", "opening", "publish", "compensate"}
Resting == {"idle", "done"}

\* A record with exactly the fields of a loop; a sequence of something.
IsLoop(x) ==
  x = [pc |-> x.pc, seq |-> x.seq, id |-> x.id, req |-> x.req, todo |-> x.todo,
       seen |-> x.seen, tok |-> x.tok, res |-> x.res, batch |-> x.batch]
IsSeq(s) == s \in Seq({s[i] : i \in DOMAIN s})

\* The loop of a front end: it has an id exactly while it serves a line, and a
\* token from the moment session.open drew or took one until its reply.
LoopOK(x) ==
  /\ IsLoop(x) /\ IsSeq(x.batch) /\ x.seq \in Nat
  /\ x.id = None <=> x.pc \in Resting
  /\ x.pc \notin Resting => x.req \in Request
  /\ x.tok \in Nat \cup Token \cup {None}
  /\ x.pc \in OpenPc => x.tok # None
  /\ x.pc \notin OpenPc \cup {"reply"} => x.tok = None

TypeOK ==
  /\ reg \in [Name -> Record \cup {None}] /\ lease = [n \in Name |-> lease[n]]
  /\ clock \in Nat /\ file \in Nat /\ gens \in Nat /\ toks \in Nat
  /\ fe = [f \in FrontEnd |-> fe[f]]
  /\ \A f \in FrontEnd : LoopOK(fe[f])
  /\ out = [f \in FrontEnd |-> out[f]]
  /\ \A f \in FrontEnd : IsSeq(out[f])

\* What an update of the handler's own variables leaves alone.
SameRequest(x, y) ==
  /\ IsLoop(y)
  /\ y.seq = x.seq /\ y.id = x.id /\ y.req = x.req /\ y.tok = x.tok /\ y.batch = x.batch

\* A step of a handler between the start of a request and its reply: it moves
\* the program counter and the handler's own variables, or produces a reply.
HandlerStep(x, y) ==
  /\ SameRequest(x, y)
  /\ x.pc \notin Resting /\ y.pc \notin Resting
  /\ y.pc = "open" => x.pc = "open"
  /\ y.pc = "opening" => x.pc \in {"open", "opening"}
  /\ y.pc \in OpenPc =>
       x.pc \in OpenPc \/ (x.pc = "reply" /\ x.res = Ok /\ x.tok # None)
  /\ x.pc \in OpenPc => y.pc \in OpenPc \cup {"reply"}
  /\ x.pc = "reply" => y.pc = "compensate"
  /\ y.pc = "reply" => \E ok \in BOOLEAN : \E code : y.res = Outcome(ok, code)

\* Records disappear or change, but none appears and none changes its token;
\* nobody but the opener removes the record of a name it holds the lease of.
KeepsTokens ==
  /\ reg' \in [Name -> Record \cup {None}]
  /\ \A m \in Name : reg'[m] # None => reg[m] # None /\ reg'[m].tok = reg[m].tok
RegShrinks ==
  /\ KeepsTokens
  /\ \A m \in Name : reg[m] # None /\ lease[m] # None => reg'[m] # None

Handles(f) == \E y : HandlerStep(fe[f], y) /\ fe' = [fe EXCEPT ![f] = y]

\* A change of one field of one record keeps the types and the tokens.
LEMMA StateChange ==
  ASSUME NEW r \in Record, NEW s \in SessionState
  PROVE  \E q \in Record : q = [r EXCEPT !.state = s] /\ q.tok = r.tok
<1>1. [r EXCEPT !.state = s] \in Record /\ [r EXCEPT !.state = s].tok = r.tok
  BY DEF Record
<1> QED
  BY <1>1

LEMMA ActiveChange ==
  ASSUME NEW r \in Record, NEW s \in Nat
  PROVE  \E q \in Record : q = [r EXCEPT !.active = s] /\ q.tok = r.tok
<1>1. [r EXCEPT !.active = s] \in Record /\ [r EXCEPT !.active = s].tok = r.tok
  BY DEF Record
<1> QED
  BY <1>1

LEMMA StatePidChange ==
  ASSUME NEW r \in Record, NEW s \in SessionState, NEW b \in BOOLEAN
  PROVE  \E q \in Record : q = [r EXCEPT !.state = s, !.pid = b] /\ q.tok = r.tok
<1>1. [r EXCEPT !.state = s, !.pid = b] \in Record
  BY DEF Record
<1>2. [r EXCEPT !.state = s, !.pid = b].tok = r.tok
  BY DEF Record
<1> QED
  BY <1>1, <1>2

LEMMA RecordChanges ==
  ASSUME TypeOK, NEW n \in Name, reg[n] # None, NEW q \in Record, q.tok = reg[n].tok,
         reg' = [reg EXCEPT ![n] = q]
  PROVE  RegShrinks
BY NoneAssumption DEF TypeOK, RegShrinks, KeepsTokens

LEMMA CloseShrinks ==
  ASSUME TypeOK, NEW n, NEW tok, NEW retire, NEW result, BackClose(n, tok, retire, result)
  PROVE  RegShrinks
<1>1. CASE UNCHANGED reg
  BY <1>1 DEF TypeOK, RegShrinks, KeepsTokens
<1>2. CASE reg' = [reg EXCEPT ![n] = None]
  BY <1>2 DEF BackClose, TypeOK, RegShrinks, KeepsTokens
<1>3. CASE reg[n] # None /\ reg' = [reg EXCEPT ![n].state = "cleanup_failed"]
  <2>1. CASE n \notin Name
    BY <1>3, <2>1 DEF TypeOK, RegShrinks, KeepsTokens
  <2>2. CASE n \in Name
    <3>1. reg[n] \in Record
      BY <1>3, <2>2 DEF TypeOK
    <3>2. PICK q \in Record : q = [reg[n] EXCEPT !.state = "cleanup_failed"] /\ q.tok = reg[n].tok
      <4>1. \A r \in Record, s \in SessionState :
              \E q \in Record : q = [r EXCEPT !.state = s] /\ q.tok = r.tok
        BY StateChange
      <4>2. "cleanup_failed" \in SessionState
        BY DEF SessionState
      <4> QED
        BY <3>1, <4>1, <4>2, Zenon
    <3>3. reg' = [reg EXCEPT ![n] = q]
      BY <1>3, <3>2
    <3> QED
      BY <1>3, <2>2, <3>2, <3>3, RecordChanges
  <2> QED
    BY <2>1, <2>2
<1> QED
  BY <1>1, <1>2, <1>3 DEF BackClose

\* The updates of single fields.
SetPc(x, a) == [x EXCEPT !.pc = a]
SetTodo(x, a) == [x EXCEPT !.todo = a]
SetSeen(x, a) == [x EXCEPT !.seen = a]
SetRes(x, a) == [x EXCEPT !.res = a]

LEMMA FieldMoves ==
  ASSUME NEW x, IsLoop(x), NEW a
  PROVE  /\ SameRequest(x, SetPc(x, a)) /\ SetPc(x, a).pc = a
         /\ SameRequest(x, SetTodo(x, a)) /\ SetTodo(x, a).pc = x.pc
         /\ SameRequest(x, SetSeen(x, a)) /\ SetSeen(x, a).pc = x.pc
         /\ SameRequest(x, SetRes(x, a)) /\ SetRes(x, a).pc = x.pc /\ SetRes(x, a).res = a
<1>1. SameRequest(x, SetPc(x, a)) /\ SetPc(x, a).pc = a
  BY DEF IsLoop, SameRequest, SetPc
<1>2. SameRequest(x, SetTodo(x, a)) /\ SetTodo(x, a).pc = x.pc
  BY DEF IsLoop, SameRequest, SetTodo
<1>3. SameRequest(x, SetSeen(x, a)) /\ SetSeen(x, a).pc = x.pc
  BY DEF IsLoop, SameRequest, SetSeen
<1>4. SameRequest(x, SetRes(x, a)) /\ SetRes(x, a).pc = x.pc /\ SetRes(x, a).res = a
  BY DEF IsLoop, SameRequest, SetRes
<1> QED
  BY <1>1, <1>2, <1>3, <1>4

LEMMA SameTransitive ==
  ASSUME NEW x, NEW y, NEW z, SameRequest(x, y), SameRequest(y, z)
  PROVE  SameRequest(x, z)
BY DEF SameRequest

\* The front end goes to pc and keeps its request; other front ends stay.
Moves(f, pc) ==
  \E y : SameRequest(fe[f], y) /\ y.pc = pc /\ fe' = [fe EXCEPT ![f] = y]

LEMMA OneFieldMoves ==
  ASSUME TypeOK, NEW f \in FrontEnd, NEW a
  PROVE  /\ Goto(f, a) => Moves(f, a)
         /\ fe' = [fe EXCEPT ![f].todo = a] => Moves(f, fe[f].pc)
<1>1. IsLoop(fe[f])
  BY DEF TypeOK, LoopOK
<1>2. /\ Goto(f, a) => fe' = [fe EXCEPT ![f] = SetPc(fe[f], a)]
      /\ fe' = [fe EXCEPT ![f].todo = a] => fe' = [fe EXCEPT ![f] = SetTodo(fe[f], a)]
  BY DEF Goto, SetPc, SetTodo
<1> QED
  BY <1>1, <1>2, FieldMoves DEF Moves

LEMMA TwoFieldsMove ==
  ASSUME TypeOK, NEW f \in FrontEnd, NEW a, NEW b
  PROVE  /\ fe' = [fe EXCEPT ![f].pc = a, ![f].todo = b] => Moves(f, a)
         /\ fe' = [fe EXCEPT ![f].pc = a, ![f].seen = b] => Moves(f, a)
         /\ fe' = [fe EXCEPT ![f].seen = a, ![f].pc = b] => Moves(f, b)
         /\ fe' = [fe EXCEPT ![f].todo = a, ![f].seen = b] => Moves(f, fe[f].pc)
<1>1. IsLoop(fe[f])
  BY DEF TypeOK, LoopOK
<1>2. /\ SameRequest(fe[f], SetPc(fe[f], a)) /\ SetPc(fe[f], a).pc = a
      /\ SameRequest(fe[f], SetSeen(fe[f], a)) /\ SetSeen(fe[f], a).pc = fe[f].pc
      /\ SameRequest(fe[f], SetTodo(fe[f], a)) /\ SetTodo(fe[f], a).pc = fe[f].pc
  BY <1>1, FieldMoves
<1>3. ASSUME fe' = [fe EXCEPT ![f].pc = a, ![f].todo = b] PROVE Moves(f, a)
  <2> DEFINE y == SetTodo(SetPc(fe[f], a), b)
  <2>1. SameRequest(SetPc(fe[f], a), y) /\ y.pc = a
    BY <1>2, FieldMoves DEF SameRequest
  <2>2. fe' = [fe EXCEPT ![f] = y]
    BY <1>3 DEF SetPc, SetTodo
  <2> QED
    BY <1>2, <2>1, <2>2, SameTransitive DEF Moves
<1>4. ASSUME fe' = [fe EXCEPT ![f].pc = a, ![f].seen = b] PROVE Moves(f, a)
  <2> DEFINE y == SetSeen(SetPc(fe[f], a), b)
  <2>1. SameRequest(SetPc(fe[f], a), y) /\ y.pc = a
    BY <1>2, FieldMoves DEF SameRequest
  <2>2. fe' = [fe EXCEPT ![f] = y]
    BY <1>4 DEF SetPc, SetSeen
  <2> QED
    BY <1>2, <2>1, <2>2, SameTransitive DEF Moves
<1>5. ASSUME fe' = [fe EXCEPT ![f].seen = a, ![f].pc = b] PROVE Moves(f, b)
  <2> DEFINE y == SetPc(SetSeen(fe[f], a), b)
  <2>1. SameRequest(SetSeen(fe[f], a), y) /\ y.pc = b
    BY <1>2, FieldMoves DEF SameRequest
  <2>2. fe' = [fe EXCEPT ![f] = y]
    BY <1>5 DEF SetPc, SetSeen
  <2> QED
    BY <1>2, <2>1, <2>2, SameTransitive DEF Moves
<1>6. ASSUME fe' = [fe EXCEPT ![f].todo = a, ![f].seen = b] PROVE Moves(f, fe[f].pc)
  <2> DEFINE y == SetSeen(SetTodo(fe[f], a), b)
  <2>1. SameRequest(SetTodo(fe[f], a), y) /\ y.pc = fe[f].pc
    BY <1>2, FieldMoves DEF SameRequest
  <2>2. fe' = [fe EXCEPT ![f] = y]
    BY <1>6 DEF SetTodo, SetSeen
  <2> QED
    BY <1>2, <2>1, <2>2, SameTransitive DEF Moves
<1> QED
  BY <1>3, <1>4, <1>5, <1>6

LEMMA MoveHandles ==
  ASSUME NEW f \in FrontEnd, NEW pc, Moves(f, pc),
         fe[f].pc \notin Resting \cup {"reply"}, pc \notin Resting \cup {"reply"},
         pc = "open" => fe[f].pc = "open",
         pc = "opening" => fe[f].pc \in {"open", "opening"},
         pc \in OpenPc <=> fe[f].pc \in OpenPc
  PROVE  Handles(f)
<1>1. PICK y : SameRequest(fe[f], y) /\ y.pc = pc /\ fe' = [fe EXCEPT ![f] = y]
  BY DEF Moves
<1>2. HandlerStep(fe[f], y)
  BY <1>1 DEF HandlerStep, Resting
<1> QED
  BY <1>1, <1>2 DEF Handles

\* The front end has the reply r, and nothing else changed.
LEMMA FinishReplies ==
  ASSUME TypeOK, NEW f \in FrontEnd, NEW r, Finish(f, r)
  PROVE  \E y : /\ SameRequest(fe[f], y) /\ y.pc = "reply" /\ y.res = r
                /\ fe' = [fe EXCEPT ![f] = y]
<1> DEFINE x == SetPc(fe[f], "reply")
           y == SetRes(x, r)
<1>1. IsLoop(fe[f])
  BY DEF TypeOK, LoopOK
<1>2. SameRequest(fe[f], x) /\ x.pc = "reply"
  BY <1>1, FieldMoves
<1>3. SameRequest(x, y) /\ y.pc = "reply" /\ y.res = r
  BY <1>2, FieldMoves DEF SameRequest
<1>4. fe' = [fe EXCEPT ![f] = y]
  BY DEF Finish, SetPc, SetRes
<1> QED
  BY <1>2, <1>3, <1>4, SameTransitive

LEMMA FinishHandles ==
  ASSUME TypeOK, NEW f \in FrontEnd, NEW ok \in BOOLEAN, NEW code,
         Finish(f, Outcome(ok, code)), fe[f].pc \notin Resting \cup {"reply"}
  PROVE  Handles(f)
<1>1. PICK y : /\ SameRequest(fe[f], y) /\ y.pc = "reply" /\ y.res = Outcome(ok, code)
               /\ fe' = [fe EXCEPT ![f] = y]
  BY FinishReplies
<1>2. HandlerStep(fe[f], y)
  BY <1>1 DEF HandlerStep, Resting, OpenPc
<1> QED
  BY <1>1, <1>2 DEF Handles

---------------------------------------------------------------------------
(* The handlers, one lemma each. *)

Handled(f) ==
  /\ Handles(f) /\ RegShrinks /\ UNCHANGED <<lease, out, toks, clock, file, gens>>
  /\ fe[f].pc \notin {"open", "opening"}

LEMMA SameRegShrinks ==
  ASSUME TypeOK, UNCHANGED reg
  PROVE  RegShrinks
BY DEF TypeOK, RegShrinks, KeepsTokens

LEMMA DispatchHandled ==
  ASSUME TypeOK, NEW f \in FrontEnd, Dispatch(f), fe[f].req.action # "batch"
  PROVE  Handled(f)
<1>1. RegShrinks /\ UNCHANGED <<lease, out, toks, clock, file, gens>> /\ fe[f].pc = "dispatch"
  BY SameRegShrinks DEF Dispatch, world
<1>2. CASE \E ok \in BOOLEAN : \E code : Finish(f, Outcome(ok, code))
  BY <1>1, <1>2, FinishHandles DEF Handled, Resting
<1>3. CASE \E todo : fe' = [fe EXCEPT ![f].pc = "expire", ![f].todo = todo]
  <2>1. Moves(f, "expire")
    BY <1>3, TwoFieldsMove
  <2> QED
    BY <1>1, <2>1, MoveHandles DEF Handled, Resting, OpenPc
<1>4. CASE \E todo : fe' = [fe EXCEPT ![f].pc = "close_all", ![f].todo = todo]
  <2>1. Moves(f, "close_all")
    BY <1>4, TwoFieldsMove
  <2> QED
    BY <1>1, <2>1, MoveHandles DEF Handled, Resting, OpenPc
<1>5. CASE Goto(f, "lookup")
  <2>1. Moves(f, "lookup")
    BY <1>5, OneFieldMoves
  <2> QED
    BY <1>1, <2>1, MoveHandles DEF Handled, Resting, OpenPc
<1> QED
  BY <1>2, <1>3, <1>4, <1>5 DEF Dispatch, Err, Ok

LEMMA LookupHandled ==
  ASSUME TypeOK, NEW f \in FrontEnd, Lookup(f)
  PROVE  Handled(f)
<1>1. RegShrinks /\ UNCHANGED <<lease, out, toks, clock, file, gens>> /\ fe[f].pc = "lookup"
  BY SameRegShrinks DEF Lookup, world
<1>2. CASE \E code : Finish(f, Err(code))
  BY <1>1, <1>2, FinishHandles DEF Handled, Resting, Err
<1>3. CASE \E r : \E pc \in {"query", "doctor", "close", "query_expired"} :
             fe' = [fe EXCEPT ![f].seen = r, ![f].pc = pc]
  <2>1. PICK pc \in {"query", "doctor", "close", "query_expired"} : Moves(f, pc)
    BY <1>3, TwoFieldsMove
  <2> QED
    BY <1>1, <2>1, MoveHandles DEF Handled, Resting, OpenPc
<1> QED
  BY <1>2, <1>3 DEF Lookup

LEMMA QueryExpiredHandled ==
  ASSUME TypeOK, NEW f \in FrontEnd, QueryExpired(f)
  PROVE  Handled(f)
<1>1. RegShrinks
  BY CloseShrinks DEF QueryExpired, force_close_session_record
<1> QED
  BY <1>1, FinishHandles DEF QueryExpired, Handled, Resting, Err, world

LEMMA QueryHandled ==
  ASSUME TypeOK, NEW f \in FrontEnd, Query(f)
  PROVE  Handled(f)
<1> DEFINE n == fe[f].req.name
<1>1. UNCHANGED <<lease, out, toks, clock, file, gens>> /\ fe[f].pc = "query"
      /\ \E ok \in BOOLEAN : \E code : Finish(f, Outcome(ok, code))
  BY DEF Query, world, Ok, Err
<1>2. Handles(f)
  BY <1>1, FinishHandles DEF Resting
<1>3. PICK status \in send_request_capture(n) :
        \/ status \in {"ok", "server_error"} /\ reg' = [reg EXCEPT ![n].active = clock]
        \/ status = "transport_timeout" /\ reg' = [reg EXCEPT ![n].state = "terminated_on_timeout"]
        \/ status = "connect_failed" /\ UNCHANGED reg
  BY DEF Query
<1>4. CASE status = "connect_failed"
  BY <1>1, <1>2, <1>3, <1>4, SameRegShrinks DEF Handled
<1>5. CASE status # "connect_failed"
  <2>1. reg[n] # None
    BY <1>3, <1>5 DEF send_request_capture
  <2>2. fe[f].req \in Request
    BY <1>1 DEF TypeOK, LoopOK, Resting
  <2>3. n \in Name
    BY <2>2, RequestAssumption
  <2>4. reg[n] \in Record /\ clock \in Nat
    BY <2>1, <2>3 DEF TypeOK
  <2>5. \E q \in Record : q.tok = reg[n].tok /\ reg' = [reg EXCEPT ![n] = q]
    <3>1. CASE reg' = [reg EXCEPT ![n].active = clock]
      <4>1. PICK q \in Record : q = [reg[n] EXCEPT !.active = clock] /\ q.tok = reg[n].tok
        <5>1. \A r \in Record, s \in Nat :
                \E q \in Record : q = [r EXCEPT !.active = s] /\ q.tok = r.tok
          BY ActiveChange
        <5> QED
          BY <2>4, <5>1, Zenon
      <4>2. reg' = [reg EXCEPT ![n] = q]
        BY <3>1, <4>1
      <4> QED
        BY <4>1, <4>2
    <3>2. CASE reg' = [reg EXCEPT ![n].state = "terminated_on_timeout"]
      <4>1. PICK q \in Record : q = [reg[n] EXCEPT !.state = "terminated_on_timeout"]
                                /\ q.tok = reg[n].tok
        <5>1. \A r \in Record, s \in SessionState :
                \E q \in Record : q = [r EXCEPT !.state = s] /\ q.tok = r.tok
          BY StateChange
        <5>2. "terminated_on_timeout" \in SessionState
          BY DEF SessionState
        <5> QED
          BY <2>4, <5>1, <5>2, Zenon
      <4>2. reg' = [reg EXCEPT ![n] = q]
        BY <3>2, <4>1
      <4> QED
        BY <4>1, <4>2
    <3> QED
      BY <1>3, <1>5, <3>1, <3>2
  <2>6. RegShrinks
    BY <2>1, <2>3, <2>5, RecordChanges
  <2> QED
    BY <1>1, <1>2, <2>6 DEF Handled
<1> QED
  BY <1>4, <1>5

LEMMA DoctorHandled ==
  ASSUME TypeOK, NEW f \in FrontEnd, Doctor(f)
  PROVE  Handled(f)
<1>1. \E ok \in BOOLEAN : \E code : Finish(f, Outcome(ok, code))
  BY DEF Doctor, Ok, Err
<1> QED
  BY <1>1, SameRegShrinks, FinishHandles DEF Doctor, Handled, Resting, world

LEMMA CloseHandled ==
  ASSUME TypeOK, NEW f \in FrontEnd, Close(f)
  PROVE  Handled(f)
<1>1. RegShrinks
  BY CloseShrinks DEF Close
<1>2. \E ok \in BOOLEAN : \E code : Finish(f, Outcome(ok, code))
  BY DEF Close, Ok, Err
<1> QED
  BY <1>1, <1>2, FinishHandles DEF Close, Handled, Resting, world

LEMMA CloseAllHandled ==
  ASSUME TypeOK, NEW f \in FrontEnd, CloseAll(f)
  PROVE  Handled(f)
<1>1. UNCHANGED <<lease, out, toks, clock, file, gens>> /\ fe[f].pc = "close_all"
  BY DEF CloseAll, world
<1>2. CASE fe[f].todo = <<>>
  <2>1. UNCHANGED reg /\ \E ok \in BOOLEAN : \E code : Finish(f, Outcome(ok, code))
    BY <1>2 DEF CloseAll, Ok, Err
  <2> QED
    BY <1>1, <2>1, FinishHandles, SameRegShrinks DEF Handled, Resting
<1>3. CASE fe[f].todo # <<>>
  <2>1. RegShrinks
    BY <1>3, CloseShrinks DEF CloseAll
  <2>2. \E a, b : fe' = [fe EXCEPT ![f].todo = a, ![f].seen = b]
    BY <1>3 DEF CloseAll
  <2>3. Moves(f, "close_all")
    BY <1>1, <2>2, TwoFieldsMove
  <2> QED
    BY <1>1, <2>1, <2>3, MoveHandles DEF Handled, Resting, OpenPc
<1> QED
  BY <1>2, <1>3

LEMMA ExpireHandled ==
  ASSUME TypeOK, NEW f \in FrontEnd, Expire(f)
  PROVE  Handled(f)
<1>1. UNCHANGED <<lease, out, toks, clock, file, gens>> /\ fe[f].pc = "expire"
  BY DEF Expire, world
<1>2. RegShrinks
  BY CloseShrinks DEF Expire, force_close_session_record
<1>3. CASE \E code : Finish(f, Err(code))
  BY <1>1, <1>2, <1>3, FinishHandles DEF Handled, Resting, Err
<1>4. CASE \E todo : fe' = [fe EXCEPT ![f].todo = todo]
  <2>1. Moves(f, "expire")
    BY <1>1, <1>4, OneFieldMoves
  <2> QED
    BY <1>1, <1>2, <2>1, MoveHandles DEF Handled, Resting, OpenPc
<1> QED
  BY <1>3, <1>4 DEF Expire

LEMMA ExpiredHandled ==
  ASSUME TypeOK, NEW f \in FrontEnd, Expired(f), fe'[f].pc # "open"
  PROVE  Handled(f)
<1>1. UNCHANGED <<lease, out, clock, file, gens>> /\ RegShrinks /\ fe[f].pc = "expire"
  BY SameRegShrinks DEF Expired, world
<1>2. CASE \E todo : fe' = [fe EXCEPT ![f].pc = "gc", ![f].todo = todo] /\ UNCHANGED toks
  <2>1. Moves(f, "gc")
    BY <1>2, TwoFieldsMove
  <2> QED
    BY <1>1, <1>2, <2>1, MoveHandles DEF Handled, Resting, OpenPc
<1>3. CASE Goto(f, "probe") /\ UNCHANGED toks
  <2>1. Moves(f, "probe")
    BY <1>3, OneFieldMoves
  <2> QED
    BY <1>1, <1>3, <2>1, MoveHandles DEF Handled, Resting, OpenPc
<1>4. ASSUME NEW a, fe' = [fe EXCEPT ![f].pc = "open", ![f].tok = a] PROVE FALSE
  <2>1. IsLoop(fe[f])
    BY DEF TypeOK, LoopOK
  <2>2. [[fe[f] EXCEPT !.pc = "open"] EXCEPT !.tok = a].pc = "open"
    BY <2>1 DEF IsLoop
  <2>3. fe'[f] = [[fe[f] EXCEPT !.pc = "open"] EXCEPT !.tok = a]
    BY <1>4 DEF TypeOK
  <2> QED
    BY <2>2, <2>3
<1> QED
  BY <1>2, <1>3, <1>4 DEF Expired

LEMMA GcDoctorHandled ==
  ASSUME TypeOK, NEW f \in FrontEnd, GcDoctor(f)
  PROVE  Handled(f)
<1>1. UNCHANGED <<lease, out, toks, clock, file, gens>> /\ RegShrinks /\ fe[f].pc = "gc"
  BY SameRegShrinks DEF GcDoctor, world
<1>2. CASE Finish(f, Ok)
  BY <1>1, <1>2, FinishHandles DEF Handled, Resting, Ok
<1>3. CASE \E todo : fe' = [fe EXCEPT ![f].todo = todo]
  <2>1. Moves(f, "gc")
    BY <1>1, <1>3, OneFieldMoves
  <2> QED
    BY <1>1, <2>1, MoveHandles DEF Handled, Resting, OpenPc
<1>4. CASE \E seen : fe' = [fe EXCEPT ![f].pc = "gc_force", ![f].seen = seen]
  <2>1. Moves(f, "gc_force")
    BY <1>4, TwoFieldsMove
  <2> QED
    BY <1>1, <2>1, MoveHandles DEF Handled, Resting, OpenPc
<1> QED
  BY <1>2, <1>3, <1>4 DEF GcDoctor

LEMMA GcForceHandled ==
  ASSUME TypeOK, NEW f \in FrontEnd, GcForce(f)
  PROVE  Handled(f)
<1>1. UNCHANGED <<lease, out, toks, clock, file, gens>> /\ fe[f].pc = "gc_force"
  BY DEF GcForce, world
<1>2. RegShrinks
  BY CloseShrinks DEF GcForce, force_close_session_record
<1>3. CASE \E code : Finish(f, Err(code))
  BY <1>1, <1>2, <1>3, FinishHandles DEF Handled, Resting, Err
<1>4. CASE \E todo : fe' = [fe EXCEPT ![f].pc = "gc", ![f].todo = todo]
  <2>1. Moves(f, "gc")
    BY <1>4, TwoFieldsMove
  <2> QED
    BY <1>1, <1>2, <2>1, MoveHandles DEF Handled, Resting, OpenPc
<1> QED
  BY <1>3, <1>4 DEF GcForce

LEMMA ProbeHandled ==
  ASSUME TypeOK, NEW f \in FrontEnd, Probe(f)
  PROVE  Handled(f)
<1>1. \E ok \in BOOLEAN : \E code : Finish(f, Outcome(ok, code))
  BY DEF Probe, Err
<1> QED
  BY <1>1, SameRegShrinks, FinishHandles DEF Probe, Handled, Resting, world

LEMMA PublishHandled ==
  ASSUME TypeOK, NEW f \in FrontEnd, Publish(f)
  PROVE  Handled(f)
<1>1. UNCHANGED <<lease, out, toks, clock, file, gens>> /\ RegShrinks /\ fe[f].pc = "publish"
  BY SameRegShrinks DEF Publish, world
<1>2. CASE Finish(f, Ok)
  BY <1>1, <1>2, FinishHandles DEF Handled, Resting, Ok
<1>3. CASE Goto(f, "compensate")
  <2>1. Moves(f, "compensate")
    BY <1>3, OneFieldMoves
  <2> QED
    BY <1>1, <2>1, MoveHandles DEF Handled, Resting, OpenPc
<1> QED
  BY <1>2, <1>3 DEF Publish

LEMMA ReplyInvalidHandled ==
  ASSUME TypeOK, NEW f \in FrontEnd, ReplyInvalid(f)
  PROVE  Handled(f)
<1>1. /\ UNCHANGED <<lease, out, toks, clock, file, gens>> /\ RegShrinks
      /\ fe[f].pc = "reply" /\ fe[f].tok # None /\ fe[f].res = Ok
  BY SameRegShrinks DEF ReplyInvalid, world
<1>2. Moves(f, "compensate")
  BY OneFieldMoves DEF ReplyInvalid
<1>3. PICK y : SameRequest(fe[f], y) /\ y.pc = "compensate" /\ fe' = [fe EXCEPT ![f] = y]
  BY <1>2 DEF Moves
<1>4. HandlerStep(fe[f], y)
  BY <1>1, <1>3 DEF HandlerStep, Resting, OpenPc
<1> QED
  BY <1>1, <1>3, <1>4 DEF Handled, Handles

\* What a helper that opens a session does to the record of its name.
OpenPreserves(f) ==
  LET n == fe[f].req.name IN
  /\ reg' \in [Name -> Record \cup {None}]
  /\ \A m \in Name \ {n} : reg'[m] = reg[m] /\ lease'[m] = lease[m]
  /\ lease' = [m \in Name |-> lease'[m]]
  /\ UNCHANGED <<out, toks, clock, file>> /\ gens' \in Nat

LEMMA OpenReserveHandles ==
  ASSUME TypeOK, NEW f \in FrontEnd, OpenReserve(f)
  PROVE  LET n == fe[f].req.name IN
         /\ Handles(f) /\ OpenPreserves(f) /\ n \in Name /\ lease[n] = None /\ fe[f].pc = "open"
         /\ \/ fe'[f].pc = "opening" /\ lease'[n] = f /\ reg'[n] # None
               /\ reg[n] = None /\ reg'[n].tok = fe[f].tok
            \/ fe'[f].pc \notin {"open", "opening"} /\ lease'[n] = lease[n] /\ reg'[n] = reg[n]
<1> DEFINE n == fe[f].req.name
<1>1. fe[f].pc = "open" /\ lease[n] = None /\ UNCHANGED <<out, toks, clock, file>>
  BY DEF OpenReserve, world
<1>2. n \in Name /\ fe[f].tok \in Nat \cup Token
  <2>1. fe[f].req \in Request
    BY <1>1 DEF TypeOK, LoopOK, Resting
  <2> QED
    BY <1>1, <2>1, RequestAssumption DEF TypeOK, LoopOK, OpenPc
<1>3. ASSUME NEW code, Finish(f, Err(code)), UNCHANGED <<reg, lease, gens>>
      PROVE  Handles(f) /\ OpenPreserves(f) /\ fe'[f].pc \notin {"open", "opening"}
  <2>1. Handles(f)
    BY <1>1, <1>3, FinishHandles DEF Resting, Err
  <2>2. PICK y : y.pc = "reply" /\ fe' = [fe EXCEPT ![f] = y]
    BY <1>3, FinishReplies
  <2>3. fe'[f].pc = "reply"
    BY <2>2 DEF TypeOK
  <2> QED
    BY <1>1, <1>3, <2>1, <2>3 DEF OpenPreserves, TypeOK
<1>4. ASSUME Goto(f, "compensate"), UNCHANGED <<reg, lease, gens>>
      PROVE  Handles(f) /\ OpenPreserves(f) /\ fe'[f].pc \notin {"open", "opening"}
  <2>1. Moves(f, "compensate")
    BY <1>4, OneFieldMoves
  <2>2. Handles(f)
    BY <1>1, <2>1, MoveHandles DEF Resting, OpenPc
  <2>3. fe'[f].pc = "compensate"
    BY <2>1 DEF Moves, TypeOK
  <2> QED
    BY <1>1, <1>4, <2>2, <2>3 DEF OpenPreserves, TypeOK
<1>5. ASSUME reg[n] = None, reg' = [reg EXCEPT ![n] = NewRecord(f)],
             lease' = [lease EXCEPT ![n] = f], gens' = gens + 1, Goto(f, "opening")
      PROVE  /\ Handles(f) /\ OpenPreserves(f) /\ fe'[f].pc = "opening"
             /\ lease'[n] = f /\ reg'[n] # None /\ reg'[n].tok = fe[f].tok
  <2>1. Moves(f, "opening")
    BY <1>5, OneFieldMoves
  <2>2. Handles(f)
    BY <1>1, <2>1, MoveHandles DEF Resting, OpenPc
  <2>3. fe'[f].pc = "opening"
    BY <2>1 DEF Moves, TypeOK
  <2>4. NewRecord(f) \in Record /\ NewRecord(f).tok = fe[f].tok
    BY <1>2 DEF NewRecord, Record, TypeOK, SessionState
  <2>5. OpenPreserves(f) /\ lease'[n] = f /\ reg'[n] = NewRecord(f)
    BY <1>1, <1>2, <1>5, <2>4 DEF OpenPreserves, TypeOK
  <2> QED
    BY <2>2, <2>3, <2>4, <2>5, NoneAssumption
<1> QED
  BY <1>1, <1>2, <1>3, <1>4, <1>5 DEF OpenReserve

LEMMA OpenEndHandles ==
  ASSUME TypeOK, NEW f \in FrontEnd, OpenEnd(f), reg[fe[f].req.name] # None
  PROVE  LET n == fe[f].req.name IN
         /\ Handles(f) /\ OpenPreserves(f) /\ n \in Name /\ fe[f].pc = "opening"
         /\ lease'[n] = None /\ fe'[f].pc \notin {"open", "opening"}
         /\ reg'[n] # None => reg'[n].tok = reg[n].tok
<1> DEFINE n == fe[f].req.name
<1>1. /\ fe[f].pc = "opening" /\ lease' = [lease EXCEPT ![n] = None]
      /\ UNCHANGED <<out, toks, clock, file, gens>>
  BY DEF OpenEnd, world
<1>2. n \in Name /\ reg[n] \in Record
  <2>1. fe[f].req \in Request
    BY <1>1 DEF TypeOK, LoopOK, Resting
  <2> QED
    BY <2>1, RequestAssumption DEF TypeOK
<1>3. Handles(f) /\ fe'[f].pc \notin {"open", "opening"}
  <2>1. CASE \E code : Finish(f, Err(code))
    <3>1. Handles(f)
      BY <1>1, <2>1, FinishHandles DEF Resting, Err
    <3>2. PICK y : y.pc = "reply" /\ fe' = [fe EXCEPT ![f] = y]
      BY <2>1, FinishReplies
    <3> QED
      BY <3>1, <3>2 DEF TypeOK
  <2>2. CASE \E pc \in {"publish", "compensate"} : Goto(f, pc)
    <3>1. PICK pc \in {"publish", "compensate"} : Moves(f, pc)
      BY <2>2, OneFieldMoves
    <3>2. fe'[f].pc = pc
      BY <3>1 DEF Moves, TypeOK
    <3> QED
      BY <1>1, <3>1, <3>2, MoveHandles DEF Resting, OpenPc
  <2> QED
    BY <2>1, <2>2 DEF OpenEnd
<1>4. \E q \in Record \cup {None} :
        (q # None => q.tok = reg[n].tok) /\ reg' = [reg EXCEPT ![n] = q]
  <2>1. CASE reg' = [reg EXCEPT ![n] = None]
    BY <2>1
  <2>2. ASSUME NEW s \in SessionState, NEW b \in BOOLEAN,
               reg' = [reg EXCEPT ![n].state = s, ![n].pid = b]
        PROVE  \E q \in Record : q.tok = reg[n].tok /\ reg' = [reg EXCEPT ![n] = q]
    <3>1. PICK q \in Record : q = [reg[n] EXCEPT !.state = s, !.pid = b] /\ q.tok = reg[n].tok
      <4>1. \A r \in Record, ss \in SessionState, bb \in BOOLEAN :
              \E q \in Record : q = [r EXCEPT !.state = ss, !.pid = bb] /\ q.tok = r.tok
        BY StatePidChange
      <4> QED
        BY <1>2, <2>2, <4>1, Zenon
    <3>2. reg' = [reg EXCEPT ![n] = q]
      BY <2>2, <3>1
    <3> QED
      BY <3>1, <3>2
  <2>3. \/ reg' = [reg EXCEPT ![n] = None]
        \/ \E s \in SessionState, b \in BOOLEAN :
             reg' = [reg EXCEPT ![n].state = s, ![n].pid = b]
    BY DEF OpenEnd, SessionState
  <2> QED
    BY <2>1, <2>2, <2>3
<1>5. PICK q \in Record \cup {None} :
        (q # None => q.tok = reg[n].tok) /\ reg' = [reg EXCEPT ![n] = q]
  BY <1>4
<1>6. OpenPreserves(f) /\ lease'[n] = None /\ reg'[n] = q
  BY <1>1, <1>2, <1>5 DEF OpenPreserves, TypeOK
<1> QED
  BY <1>1, <1>2, <1>3, <1>5, <1>6

---------------------------------------------------------------------------
(* Batches and replies. *)

LEMMA EmptyIsSeq == IsSeq(<<>>)
BY DEF IsSeq

LEMMA SeqParts ==
  ASSUME NEW s, IsSeq(s)
  PROVE  Len(s) \in Nat /\ DOMAIN s = 1..Len(s) /\ (s = <<>> <=> Len(s) = 0)
<1>1. PICK S : s \in Seq(S)
  BY DEF IsSeq
<1> QED
  BY <1>1

LEMMA AppendIsSeq ==
  ASSUME NEW s, IsSeq(s), NEW e
  PROVE  LET u == Append(s, e) IN
         /\ IsSeq(u) /\ Len(u) = Len(s) + 1 /\ DOMAIN u = 1..Len(s) + 1
         /\ \A i \in 1..Len(s) : u[i] = s[i]
         /\ u[Len(s) + 1] = e
<1> DEFINE S == {s[i] : i \in DOMAIN s}
           u == Append(s, e)
           U == {u[i] : i \in DOMAIN u}
<1>1. s \in Seq(S) /\ s \in Seq(S \cup {e})
  BY DEF IsSeq
<1> HIDE DEF S
<1>2. /\ u \in Seq(S \cup {e}) /\ Len(u) = Len(s) + 1 /\ DOMAIN u = 1..Len(s) + 1
      /\ (\A i \in 1..Len(s) : u[i] = s[i]) /\ u[Len(s) + 1] = e
  BY <1>1
<1>3. \A i \in 1..Len(u) : u[i] \in U
  BY <1>2
<1> HIDE DEF U, u
<1>4. u \in Seq(U)
  BY <1>2, <1>3
<1> QED
  BY <1>2, <1>4 DEF IsSeq, U, u

LEMMA FrontIsSeq ==
  ASSUME NEW s, IsSeq(s), s # <<>>
  PROVE  LET u == Front(s) IN
         /\ IsSeq(u) /\ Len(u) = Len(s) - 1 /\ DOMAIN u = 1..Len(s) - 1
         /\ \A i \in 1..Len(s) - 1 : u[i] = s[i]
         /\ Last(s) = s[Len(s)] /\ Len(s) \in DOMAIN s
<1> DEFINE u == Front(s)
           U == {u[i] : i \in DOMAIN u}
<1>1. PICK S : s \in Seq(S)
  BY DEF IsSeq
<1>2. Len(s) \in Nat /\ Len(s) # 0 /\ DOMAIN s = 1..Len(s)
  BY <1>1
<1>3. /\ u \in Seq(S) /\ Len(u) = Len(s) - 1 /\ DOMAIN u = 1..Len(s) - 1
      /\ \A i \in 1..Len(s) - 1 : u[i] = s[i]
  BY <1>1, <1>2 DEF Front
<1>4. \A i \in 1..Len(u) : u[i] \in U
  BY <1>3
<1> HIDE DEF U, u
<1>5. u \in Seq(U)
  BY <1>3, <1>4
<1> QED
  BY <1>2, <1>3, <1>5 DEF IsSeq, U, u, Last

\* BatchHonest for one reply, as a predicate.
Honest(b) ==
  b.asked # None =>
    LET count == Len(b.results) IN
    /\ b.failed = {i \in 1..count : ~b.results[i].ok}
    /\ b.asked.stop => b.failed \subseteq {count}
    /\ count < b.asked.kids =>
         \/ b.asked.stop /\ count \in b.failed
         \/ b.asked.timed /\ b.results[count].code = "BATCH_TIMEOUT"

\* A reply that is honest and claims only the clean-up of tokens in dead.
Sound(r, dead) == Honest(r) /\ (r.cleaned /\ r.tok \in Nat => r.tok \in dead)
ReplyGood(r, dead) ==
  Sound(r, dead) /\ \A i \in DOMAIN r.results : Sound(r.results[i], dead)

\* A batch whose results so far are recorded as they are, failed exactly when
\* they failed, and which stop_on_error has not stopped.
Recorded(b, dead) ==
  /\ b = [kids |-> b.kids, stop |-> b.stop, timed |-> b.timed, results |-> b.results,
          failed |-> b.failed]
  /\ b.kids \in Seq(Request) /\ b.stop \in BOOLEAN /\ b.timed \in BOOLEAN
  /\ IsSeq(b.results) /\ Len(b.results) <= Len(b.kids)
  /\ b.failed = {i \in 1..Len(b.results) : ~b.results[i].ok}
  /\ \A i \in DOMAIN b.results : Sound(b.results[i], dead)
FrameGood(b, dead) ==
  Recorded(b, dead) /\ Len(b.results) < Len(b.kids) /\ (b.stop => b.failed = {})

FrontGood(x, o, dead) ==
  /\ x.pc = "reply" => ReplyGood(x.res, dead)
  /\ \A k \in DOMAIN x.batch : FrameGood(x.batch[k], dead)
  /\ \A j \in DOMAIN o : ReplyGood(o[j].body, dead)

LEMMA MoreDead ==
  ASSUME NEW x, NEW o, NEW D, NEW E, D \subseteq E, FrontGood(x, o, D)
  PROVE  FrontGood(x, o, E)
<1>1. \A r : Sound(r, D) => Sound(r, E)
  BY DEF Sound
<1> QED
  BY <1>1 DEF FrontGood, ReplyGood, FrameGood, Recorded

LEMMA PlainGood ==
  ASSUME NEW ok \in BOOLEAN, NEW code, NEW D
  PROVE  ReplyGood(Outcome(ok, code), D)
<1>1. Outcome(ok, code).asked = None /\ Outcome(ok, code).cleaned = FALSE
      /\ DOMAIN Outcome(ok, code).results = {}
  BY DEF Outcome
<1> QED
  BY <1>1 DEF ReplyGood, Sound, Honest

LEMMA AddGood ==
  ASSUME NEW D, NEW b, FrameGood(b, D), NEW r, Sound(r, D)
  PROVE  LET c == batch_add(b, r) IN
         /\ Recorded(c, D) /\ c.stop = b.stop /\ c.timed = b.timed /\ c.kids = b.kids
         /\ Len(c.results) = Len(b.results) + 1 /\ c.results[Len(c.results)] = r
         /\ c.stop => c.failed \subseteq {Len(c.results)}
         /\ r.ok /\ c.stop => c.failed = {}
         /\ ~r.ok => Len(c.results) \in c.failed
<1> DEFINE u == Append(b.results, r)
           F == IF r.ok THEN b.failed ELSE b.failed \cup {Len(b.results) + 1}
           c == [kids |-> b.kids, stop |-> b.stop, timed |-> b.timed, results |-> u, failed |-> F]
<1>1. batch_add(b, r) = c
  <2>1. b = [kids |-> b.kids, stop |-> b.stop, timed |-> b.timed, results |-> b.results,
             failed |-> b.failed]
    BY DEF FrameGood, Recorded
  <2> DEFINE v == [b EXCEPT !.results = u]
  <2>2. v = [kids |-> b.kids, stop |-> b.stop, timed |-> b.timed, results |-> u,
             failed |-> b.failed]
    BY <2>1
  <2> HIDE DEF u, v, F
  <2>3. [v EXCEPT !.failed = F] = c
    BY <2>2
  <2>4. batch_add(b, r) = [v EXCEPT !.failed = F]
    BY <2>1, <2>2 DEF batch_add, u, v, F
  <2> QED
    BY <2>3, <2>4
<1>2. IsSeq(b.results)
  BY DEF FrameGood, Recorded
<1>3. Len(b.results) \in Nat /\ DOMAIN b.results = 1..Len(b.results)
  BY <1>2, SeqParts
<1>4. /\ IsSeq(u) /\ Len(u) = Len(b.results) + 1 /\ DOMAIN u = 1..Len(b.results) + 1
      /\ \A i \in 1..Len(b.results) : u[i] = b.results[i]
      /\ u[Len(b.results) + 1] = r
  BY <1>2, AppendIsSeq
<1> HIDE DEF u
<1>5. F = {i \in 1..Len(u) : ~u[i].ok}
  <2>1. b.failed = {i \in 1..Len(b.results) : ~b.results[i].ok}
    BY DEF FrameGood, Recorded
  <2>2. ASSUME NEW i PROVE i \in F <=> i \in 1..Len(u) /\ ~u[i].ok
    <3>1. CASE i \in 1..Len(b.results)
      BY <1>3, <1>4, <2>1, <3>1
    <3>2. CASE i = Len(b.results) + 1
      BY <1>3, <1>4, <2>1, <3>2
    <3>3. CASE i \notin 1..Len(b.results) /\ i # Len(b.results) + 1
      BY <1>3, <1>4, <2>1, <3>3
    <3> QED
      BY <3>1, <3>2, <3>3
  <2> QED
    BY <2>2
<1>6. /\ b.stop => F \subseteq {Len(u)}
      /\ r.ok /\ b.stop => F = {}
      /\ ~r.ok => Len(u) \in F
  BY <1>4 DEF FrameGood
<1>7. \A i \in DOMAIN u : Sound(u[i], D)
  <2>1. \A i \in 1..Len(b.results) : Sound(b.results[i], D)
    BY <1>3 DEF FrameGood, Recorded
  <2> QED
    BY <1>3, <1>4, <2>1
<1>8. Len(b.kids) \in Nat /\ Len(u) <= Len(b.kids) /\ b.kids \in Seq(Request)
      /\ b.stop \in BOOLEAN /\ b.timed \in BOOLEAN
  BY <1>3, <1>4 DEF FrameGood, Recorded
<1> HIDE DEF F
<1>9. Recorded(c, D)
  BY <1>4, <1>5, <1>7, <1>8 DEF Recorded
<1> QED
  BY <1>1, <1>4, <1>6, <1>9

\* A record with exactly the fields of a reply, and the updates of its fields.
IsReply(x) ==
  x = [ok |-> x.ok, code |-> x.code, tok |-> x.tok, cleaned |-> x.cleaned,
       results |-> x.results, failed |-> x.failed, asked |-> x.asked]
SetTok(x, a) == [x EXCEPT !.tok = a]
SetCleaned(x, a) == [x EXCEPT !.cleaned = a]
SetResults(x, a) == [x EXCEPT !.results = a]
SetFailed(x, a) == [x EXCEPT !.failed = a]
SetAsked(x, a) == [x EXCEPT !.asked = a]

LEMMA ReplyUpdates ==
  ASSUME NEW x, IsReply(x), NEW a
  PROVE  /\ IsReply(SetTok(x, a)) /\ SetTok(x, a).tok = a
         /\ SetTok(x, a).ok = x.ok /\ SetTok(x, a).code = x.code
         /\ SetTok(x, a).cleaned = x.cleaned /\ SetTok(x, a).results = x.results
         /\ SetTok(x, a).failed = x.failed /\ SetTok(x, a).asked = x.asked
         /\ IsReply(SetCleaned(x, a)) /\ SetCleaned(x, a).cleaned = a
         /\ SetCleaned(x, a).ok = x.ok /\ SetCleaned(x, a).code = x.code
         /\ SetCleaned(x, a).tok = x.tok /\ SetCleaned(x, a).results = x.results
         /\ SetCleaned(x, a).failed = x.failed /\ SetCleaned(x, a).asked = x.asked
         /\ IsReply(SetResults(x, a)) /\ SetResults(x, a).results = a
         /\ SetResults(x, a).ok = x.ok /\ SetResults(x, a).code = x.code
         /\ SetResults(x, a).tok = x.tok /\ SetResults(x, a).cleaned = x.cleaned
         /\ SetResults(x, a).failed = x.failed /\ SetResults(x, a).asked = x.asked
         /\ IsReply(SetFailed(x, a)) /\ SetFailed(x, a).failed = a
         /\ SetFailed(x, a).ok = x.ok /\ SetFailed(x, a).code = x.code
         /\ SetFailed(x, a).tok = x.tok /\ SetFailed(x, a).cleaned = x.cleaned
         /\ SetFailed(x, a).results = x.results /\ SetFailed(x, a).asked = x.asked
         /\ IsReply(SetAsked(x, a)) /\ SetAsked(x, a).asked = a
         /\ SetAsked(x, a).ok = x.ok /\ SetAsked(x, a).code = x.code
         /\ SetAsked(x, a).tok = x.tok /\ SetAsked(x, a).cleaned = x.cleaned
         /\ SetAsked(x, a).results = x.results /\ SetAsked(x, a).failed = x.failed
<1>1. /\ IsReply(SetTok(x, a)) /\ SetTok(x, a).tok = a
      /\ SetTok(x, a).ok = x.ok /\ SetTok(x, a).code = x.code
      /\ SetTok(x, a).cleaned = x.cleaned /\ SetTok(x, a).results = x.results
      /\ SetTok(x, a).failed = x.failed /\ SetTok(x, a).asked = x.asked
  BY DEF IsReply, SetTok
<1>2. /\ IsReply(SetCleaned(x, a)) /\ SetCleaned(x, a).cleaned = a
      /\ SetCleaned(x, a).ok = x.ok /\ SetCleaned(x, a).code = x.code
      /\ SetCleaned(x, a).tok = x.tok /\ SetCleaned(x, a).results = x.results
      /\ SetCleaned(x, a).failed = x.failed /\ SetCleaned(x, a).asked = x.asked
  BY DEF IsReply, SetCleaned
<1>3. /\ IsReply(SetResults(x, a)) /\ SetResults(x, a).results = a
      /\ SetResults(x, a).ok = x.ok /\ SetResults(x, a).code = x.code
      /\ SetResults(x, a).tok = x.tok /\ SetResults(x, a).cleaned = x.cleaned
      /\ SetResults(x, a).failed = x.failed /\ SetResults(x, a).asked = x.asked
  BY DEF IsReply, SetResults
<1>4. /\ IsReply(SetFailed(x, a)) /\ SetFailed(x, a).failed = a
      /\ SetFailed(x, a).ok = x.ok /\ SetFailed(x, a).code = x.code
      /\ SetFailed(x, a).tok = x.tok /\ SetFailed(x, a).cleaned = x.cleaned
      /\ SetFailed(x, a).results = x.results /\ SetFailed(x, a).asked = x.asked
  BY DEF IsReply, SetFailed
<1>5. /\ IsReply(SetAsked(x, a)) /\ SetAsked(x, a).asked = a
      /\ SetAsked(x, a).ok = x.ok /\ SetAsked(x, a).code = x.code
      /\ SetAsked(x, a).tok = x.tok /\ SetAsked(x, a).cleaned = x.cleaned
      /\ SetAsked(x, a).results = x.results /\ SetAsked(x, a).failed = x.failed
  BY DEF IsReply, SetAsked
<1> QED
  BY <1>1, <1>2, <1>3, <1>4, <1>5

LEMMA SummaryGood ==
  ASSUME NEW D, NEW b, Recorded(b, D),
         b.stop => b.failed \subseteq {Len(b.results)},
         \/ Len(b.results) = Len(b.kids)
         \/ b.stop /\ Len(b.results) \in b.failed
         \/ b.timed /\ b.results[Len(b.results)].code = "BATCH_TIMEOUT"
  PROVE  ReplyGood(batch_summary(b), D) /\ batch_summary(b) # Ok
<1> DEFINE a == [kids |-> Len(b.kids), stop |-> b.stop, timed |-> b.timed]
           o == Outcome(TRUE, "OK")
           w == SetResults(o, b.results)
           z == SetFailed(w, b.failed)
           r == SetAsked(z, a)
<1>0. IsReply(o) /\ o.cleaned = FALSE
  BY DEF Outcome, IsReply
<1> HIDE DEF o, a
<1>w. IsReply(w) /\ w.results = b.results /\ w.cleaned = FALSE
  BY <1>0, ReplyUpdates
<1> HIDE DEF w
<1>z. IsReply(z) /\ z.results = b.results /\ z.failed = b.failed /\ z.cleaned = FALSE
  BY <1>w, ReplyUpdates
<1> HIDE DEF z
<1>r. /\ IsReply(r) /\ r.results = b.results /\ r.failed = b.failed /\ r.cleaned = FALSE
      /\ r.asked = a
  BY <1>z, ReplyUpdates
<1> HIDE DEF r
<1>1. batch_summary(b) = r
  BY DEF batch_summary, o, w, z, a, r, SetResults, SetFailed, SetAsked
<1>2. a # None
  <2>1. a \in Asked
    BY DEF Recorded, Asked, a
  <2> QED
    BY <2>1, NoneAssumption
<1>3. Honest(r)
  <2>1. a.kids = Len(b.kids) /\ a.stop = b.stop /\ a.timed = b.timed
    BY DEF a
  <2> QED
    BY <1>r, <2>1 DEF Honest, Recorded
<1>4. Sound(r, D)
  BY <1>3, <1>r DEF Sound
<1>5. \A i \in DOMAIN r.results : Sound(r.results[i], D)
  BY <1>r DEF Recorded
<1>6. r # Ok
  BY <1>2, <1>r DEF Ok, Outcome
<1> QED
  BY <1>1, <1>4, <1>5, <1>6 DEF ReplyGood

---------------------------------------------------------------------------
(* The other steps of a front end. *)

SetSeq(x, a) == [x EXCEPT !.seq = a]
SetId(x, a) == [x EXCEPT !.id = a]
SetReq(x, a) == [x EXCEPT !.req = a]
SetBatch(x, a) == [x EXCEPT !.batch = a]

LEMMA LoopUpdates ==
  ASSUME NEW x, IsLoop(x), NEW a
  PROVE  /\ IsLoop(SetPc(x, a)) /\ SetPc(x, a).pc = a
         /\ SetPc(x, a).seq = x.seq /\ SetPc(x, a).id = x.id
         /\ SetPc(x, a).req = x.req /\ SetPc(x, a).tok = x.tok
         /\ SetPc(x, a).res = x.res /\ SetPc(x, a).batch = x.batch
         /\ IsLoop(SetSeq(x, a)) /\ SetSeq(x, a).seq = a
         /\ SetSeq(x, a).pc = x.pc /\ SetSeq(x, a).id = x.id
         /\ SetSeq(x, a).req = x.req /\ SetSeq(x, a).tok = x.tok
         /\ SetSeq(x, a).res = x.res /\ SetSeq(x, a).batch = x.batch
         /\ IsLoop(SetId(x, a)) /\ SetId(x, a).id = a
         /\ SetId(x, a).pc = x.pc /\ SetId(x, a).seq = x.seq
         /\ SetId(x, a).req = x.req /\ SetId(x, a).tok = x.tok
         /\ SetId(x, a).res = x.res /\ SetId(x, a).batch = x.batch
         /\ IsLoop(SetReq(x, a)) /\ SetReq(x, a).req = a
         /\ SetReq(x, a).pc = x.pc /\ SetReq(x, a).seq = x.seq
         /\ SetReq(x, a).id = x.id /\ SetReq(x, a).tok = x.tok
         /\ SetReq(x, a).res = x.res /\ SetReq(x, a).batch = x.batch
         /\ IsLoop(SetTok(x, a)) /\ SetTok(x, a).tok = a
         /\ SetTok(x, a).pc = x.pc /\ SetTok(x, a).seq = x.seq
         /\ SetTok(x, a).id = x.id /\ SetTok(x, a).req = x.req
         /\ SetTok(x, a).res = x.res /\ SetTok(x, a).batch = x.batch
         /\ IsLoop(SetRes(x, a)) /\ SetRes(x, a).res = a
         /\ SetRes(x, a).pc = x.pc /\ SetRes(x, a).seq = x.seq
         /\ SetRes(x, a).id = x.id /\ SetRes(x, a).req = x.req
         /\ SetRes(x, a).tok = x.tok /\ SetRes(x, a).batch = x.batch
         /\ IsLoop(SetBatch(x, a)) /\ SetBatch(x, a).batch = a
         /\ SetBatch(x, a).pc = x.pc /\ SetBatch(x, a).seq = x.seq
         /\ SetBatch(x, a).id = x.id /\ SetBatch(x, a).req = x.req
         /\ SetBatch(x, a).tok = x.tok /\ SetBatch(x, a).res = x.res
<1>1. /\ IsLoop(SetPc(x, a)) /\ SetPc(x, a).pc = a
      /\ SetPc(x, a).seq = x.seq /\ SetPc(x, a).id = x.id
      /\ SetPc(x, a).req = x.req /\ SetPc(x, a).tok = x.tok
      /\ SetPc(x, a).res = x.res /\ SetPc(x, a).batch = x.batch
  BY DEF IsLoop, SetPc
<1>2. /\ IsLoop(SetSeq(x, a)) /\ SetSeq(x, a).seq = a
      /\ SetSeq(x, a).pc = x.pc /\ SetSeq(x, a).id = x.id
      /\ SetSeq(x, a).req = x.req /\ SetSeq(x, a).tok = x.tok
      /\ SetSeq(x, a).res = x.res /\ SetSeq(x, a).batch = x.batch
  BY DEF IsLoop, SetSeq
<1>3. /\ IsLoop(SetId(x, a)) /\ SetId(x, a).id = a
      /\ SetId(x, a).pc = x.pc /\ SetId(x, a).seq = x.seq
      /\ SetId(x, a).req = x.req /\ SetId(x, a).tok = x.tok
      /\ SetId(x, a).res = x.res /\ SetId(x, a).batch = x.batch
  BY DEF IsLoop, SetId
<1>4. /\ IsLoop(SetReq(x, a)) /\ SetReq(x, a).req = a
      /\ SetReq(x, a).pc = x.pc /\ SetReq(x, a).seq = x.seq
      /\ SetReq(x, a).id = x.id /\ SetReq(x, a).tok = x.tok
      /\ SetReq(x, a).res = x.res /\ SetReq(x, a).batch = x.batch
  BY DEF IsLoop, SetReq
<1>5. /\ IsLoop(SetTok(x, a)) /\ SetTok(x, a).tok = a
      /\ SetTok(x, a).pc = x.pc /\ SetTok(x, a).seq = x.seq
      /\ SetTok(x, a).id = x.id /\ SetTok(x, a).req = x.req
      /\ SetTok(x, a).res = x.res /\ SetTok(x, a).batch = x.batch
  BY DEF IsLoop, SetTok
<1>6. /\ IsLoop(SetRes(x, a)) /\ SetRes(x, a).res = a
      /\ SetRes(x, a).pc = x.pc /\ SetRes(x, a).seq = x.seq
      /\ SetRes(x, a).id = x.id /\ SetRes(x, a).req = x.req
      /\ SetRes(x, a).tok = x.tok /\ SetRes(x, a).batch = x.batch
  BY DEF IsLoop, SetRes
<1>7. /\ IsLoop(SetBatch(x, a)) /\ SetBatch(x, a).batch = a
      /\ SetBatch(x, a).pc = x.pc /\ SetBatch(x, a).seq = x.seq
      /\ SetBatch(x, a).id = x.id /\ SetBatch(x, a).req = x.req
      /\ SetBatch(x, a).tok = x.tok /\ SetBatch(x, a).res = x.res
  BY DEF IsLoop, SetBatch
<1> QED
  BY <1>1, <1>2, <1>3, <1>4, <1>5, <1>6, <1>7

LEMMA IdleLoop ==
  ASSUME NEW s
  PROVE  /\ IsLoop(Idle(s)) /\ Idle(s).pc = "idle" /\ Idle(s).seq = s /\ Idle(s).id = None
         /\ Idle(s).tok = None /\ Idle(s).batch = <<>>
BY DEF IsLoop, Idle

\* A front end that starts on a request, of a line or of a batch.
Started(s, i, q) == [Idle(s) EXCEPT !.pc = "dispatch", !.id = i, !.req = q]
StartedIn(s, i, q, stack) ==
  [Idle(s) EXCEPT !.pc = "dispatch", !.id = i, !.req = q, !.batch = stack]

LEMMA StartedLoop ==
  ASSUME NEW s, NEW i, NEW q
  PROVE  LET y == Started(s, i, q) IN
         /\ IsLoop(y) /\ y.pc = "dispatch" /\ y.seq = s /\ y.id = i /\ y.req = q
         /\ y.tok = None /\ y.batch = <<>>
<1> DEFINE x0 == Idle(s)
           x1 == SetPc(x0, "dispatch")
           x2 == SetId(x1, i)
           x3 == SetReq(x2, q)
<1>0. IsLoop(x0) /\ x0.seq = s /\ x0.tok = None /\ x0.batch = <<>>
  BY IdleLoop
<1> HIDE DEF x0
<1>1. IsLoop(x1) /\ x1.pc = "dispatch" /\ x1.seq = s /\ x1.tok = None /\ x1.batch = <<>>
  BY <1>0, LoopUpdates
<1> HIDE DEF x1
<1>2. /\ IsLoop(x2) /\ x2.pc = "dispatch" /\ x2.seq = s /\ x2.tok = None /\ x2.batch = <<>>
      /\ x2.id = i
  BY <1>1, LoopUpdates
<1> HIDE DEF x2
<1>3. /\ IsLoop(x3) /\ x3.pc = "dispatch" /\ x3.seq = s /\ x3.tok = None /\ x3.batch = <<>>
      /\ x3.id = i /\ x3.req = q
  BY <1>2, LoopUpdates
<1> HIDE DEF x3
<1>4. x3 = Started(s, i, q)
  BY DEF Started, x0, x1, x2, x3, SetPc, SetId, SetReq
<1> QED
  BY <1>3, <1>4

LEMMA StartedChild ==
  ASSUME NEW s, NEW i, NEW q, NEW stack
  PROVE  LET y == StartedIn(s, i, q, stack) IN
         /\ IsLoop(y) /\ y.pc = "dispatch" /\ y.seq = s /\ y.id = i /\ y.req = q
         /\ y.tok = None /\ y.batch = stack
<1> DEFINE x == Started(s, i, q)
           y == SetBatch(x, stack)
<1>1. /\ IsLoop(x) /\ x.pc = "dispatch" /\ x.seq = s /\ x.id = i /\ x.req = q
      /\ x.tok = None
  BY StartedLoop
<1> HIDE DEF x
<1>2. /\ IsLoop(y) /\ y.pc = "dispatch" /\ y.seq = s /\ y.id = i /\ y.req = q
      /\ y.tok = None /\ y.batch = stack
  BY <1>1, LoopUpdates
<1> HIDE DEF y
<1>3. y = StartedIn(s, i, q, stack)
  BY DEF StartedIn, Started, x, y, SetBatch
<1> QED
  BY <1>2, <1>3

\* The front end becomes y, a loop in good order; the others stay.
Becomes(f, y) == LoopOK(y) /\ fe' = [fe EXCEPT ![f] = y]

\* The steps of a batch: the next child starts, or its summary is the reply.
LEMMA BatchOverEffect ==
  ASSUME TypeOK, NEW f \in FrontEnd, NEW D, FrontGood(fe[f], out[f], D),
         fe[f].pc \in {"dispatch", "reply"}, NEW b, NEW around, BatchOver(f, b, around),
         Recorded(b, D), b.stop => b.failed \subseteq {Len(b.results)},
         \/ Len(b.results) = Len(b.kids)
         \/ b.stop /\ Len(b.results) \in b.failed
         \/ b.timed /\ b.results[Len(b.results)].code = "BATCH_TIMEOUT",
         IsSeq(around), \A k \in DOMAIN around : FrameGood(around[k], D)
  PROVE  \E y : /\ Becomes(f, y) /\ FrontGood(y, out[f], D) /\ y.id = fe[f].id
                /\ y.pc = "reply" /\ y.res # Ok /\ y.tok \in {None, fe[f].tok}
<1> DEFINE x0 == fe[f]
           x1 == SetPc(x0, "reply")
           x2 == SetRes(x1, batch_summary(b))
           y == SetBatch(x2, around)
<1>0. LoopOK(x0)
  BY DEF TypeOK
<1>1. /\ IsLoop(x1) /\ x1.pc = "reply" /\ x1.seq = x0.seq /\ x1.id = x0.id /\ x1.req = x0.req
      /\ x1.tok = x0.tok
  BY <1>0, LoopUpdates DEF LoopOK
<1> HIDE DEF x0, x1
<1>2. /\ IsLoop(x2) /\ x2.pc = "reply" /\ x2.seq = x0.seq /\ x2.id = x0.id /\ x2.req = x0.req
      /\ x2.tok = x0.tok /\ x2.res = batch_summary(b)
  BY <1>1, LoopUpdates
<1> HIDE DEF x2
<1>3. /\ IsLoop(y) /\ y.pc = "reply" /\ y.seq = x0.seq /\ y.id = x0.id /\ y.req = x0.req
      /\ y.tok = x0.tok /\ y.res = batch_summary(b) /\ y.batch = around
  BY <1>2, LoopUpdates
<1> HIDE DEF y
<1>4. fe' = [fe EXCEPT ![f] = y]
  BY DEF BatchOver, x0, x1, x2, y, SetPc, SetRes, SetBatch
<1>5. x0.id # None /\ x0.req \in Request
  BY <1>0 DEF LoopOK, Resting, x0
<1>6. LoopOK(y)
  BY <1>0, <1>3, <1>5 DEF LoopOK, Resting, OpenPc
<1>7. ReplyGood(batch_summary(b), D) /\ batch_summary(b) # Ok
  BY SummaryGood
<1>8. FrontGood(y, out[f], D)
  BY <1>3, <1>7 DEF FrontGood
<1> QED
  BY <1>3, <1>4, <1>6, <1>7, <1>8 DEF Becomes, x0

LEMMA BatchNextEffect ==
  ASSUME TypeOK, NEW f \in FrontEnd, NEW D, FrontGood(fe[f], out[f], D),
         fe[f].pc \in {"dispatch", "reply"}, NEW b, NEW around, BatchNext(f, b, around),
         Recorded(b, D), b.stop => b.failed = {},
         IsSeq(around), \A k \in DOMAIN around : FrameGood(around[k], D)
  PROVE  \E y : /\ Becomes(f, y) /\ FrontGood(y, out[f], D) /\ y.id = fe[f].id
                /\ y.pc = "dispatch" \/ (y.pc = "reply" /\ y.res # Ok)
                /\ y.tok \in {None, fe[f].tok}
<1>1. CASE Len(b.results) = Len(b.kids)
  BY <1>1, BatchOverEffect DEF BatchNext
<1>2. CASE Len(b.results) # Len(b.kids)
  <2> DEFINE q == b.kids[Len(b.results) + 1]
             stack == Append(around, b)
             y == StartedIn(fe[f].seq, fe[f].id, q, stack)
  <2>1. fe' = [fe EXCEPT ![f] = y]
    BY <1>2 DEF BatchNext, StartedIn
  <2>2. Len(b.results) \in Nat /\ b.kids \in Seq(Request) /\ Len(b.results) < Len(b.kids)
    BY <1>2, SeqParts DEF Recorded
  <2>3. q \in Request
    BY <2>2
  <2>4. /\ IsSeq(stack) /\ DOMAIN stack = 1..Len(around) + 1 /\ stack[Len(around) + 1] = b
        /\ \A k \in 1..Len(around) : stack[k] = around[k]
    BY AppendIsSeq
  <2> HIDE DEF q, stack
  <2>5. /\ IsLoop(y) /\ y.pc = "dispatch" /\ y.seq = fe[f].seq /\ y.id = fe[f].id
        /\ y.req = q /\ y.tok = None /\ y.batch = stack
    BY StartedChild
  <2> HIDE DEF y
  <2>6. LoopOK(fe[f]) /\ fe[f].id # None
    BY DEF TypeOK, LoopOK, Resting
  <2>7. LoopOK(y)
    BY <2>3, <2>4, <2>5, <2>6 DEF LoopOK, Resting, OpenPc
  <2>8. \A k \in DOMAIN stack : FrameGood(stack[k], D)
    <3>1. DOMAIN around = 1..Len(around) /\ Len(around) \in Nat
      BY SeqParts
    <3>2. FrameGood(b, D)
      BY <2>2 DEF FrameGood
    <3> QED
      BY <2>4, <3>1, <3>2
  <2>9. FrontGood(y, out[f], D)
    BY <2>5, <2>8 DEF FrontGood
  <2> QED
    BY <2>1, <2>5, <2>7, <2>9 DEF Becomes
<1> QED
  BY <1>1, <1>2

BatchStep(f) ==
  (Dispatch(f) /\ fe[f].req.action = "batch") \/ ChildDone(f) \/ BatchDeadline(f)

LEMMA BatchEffect ==
  ASSUME TypeOK, NEW f \in FrontEnd, NEW D, FrontGood(fe[f], out[f], D), BatchStep(f)
  PROVE  \E y : /\ Becomes(f, y) /\ FrontGood(y, out[f], D) /\ y.id = fe[f].id
                /\ y.pc = "dispatch" \/ (y.pc = "reply" /\ y.res # Ok)
                /\ y.tok \in {None, fe[f].tok}
<1> DEFINE stack == fe[f].batch
<1>1. IsSeq(stack) /\ \A k \in DOMAIN stack : FrameGood(stack[k], D)
  BY DEF TypeOK, LoopOK, FrontGood
<1>2. CASE Dispatch(f) /\ fe[f].req.action = "batch"
  <2> DEFINE q == fe[f].req
             b == new_batch(q, stack)
  <2>1. fe[f].pc = "dispatch" /\ BatchNext(f, b, stack)
    BY <1>2 DEF Dispatch
  <2>2. q \in Request
    BY <2>1 DEF TypeOK, LoopOK, Resting
  <2>3. q.kids \in Seq(Request) /\ q.stop \in BOOLEAN /\ q.timed \in BOOLEAN
    BY <2>2, RequestAssumption
  <2>4. stack # <<>> => Last(stack).timed \in BOOLEAN
    <3>1. SUFFICES ASSUME stack # <<>> PROVE Last(stack).timed \in BOOLEAN
      OBVIOUS
    <3>2. Last(stack) = stack[Len(stack)] /\ Len(stack) \in DOMAIN stack
      BY <1>1, <3>1, FrontIsSeq
    <3> QED
      BY <1>1, <3>2 DEF FrameGood, Recorded
  <2>5. Recorded(b, D) /\ (b.stop => b.failed = {})
    <3>1. PICK timed \in BOOLEAN :
            b = [kids |-> q.kids, stop |-> q.stop, timed |-> timed, results |-> <<>>,
                 failed |-> {}]
      BY <2>3, <2>4 DEF new_batch
    <3> QED
      BY <2>3, <3>1, EmptyIsSeq DEF Recorded
  <2> QED
    BY <1>1, <2>1, <2>5, BatchNextEffect
<1>3. ASSUME stack # <<>>, NEW r, Sound(r, D), NEW c, c = batch_add(Last(stack), r)
      PROVE  /\ IsSeq(Front(stack)) /\ \A k \in DOMAIN Front(stack) : FrameGood(Front(stack)[k], D)
             /\ Recorded(c, D) /\ c.timed = Last(stack).timed /\ c.results[Len(c.results)] = r
             /\ c.stop => c.failed \subseteq {Len(c.results)}
             /\ r.ok /\ c.stop => c.failed = {}
             /\ ~r.ok => Len(c.results) \in c.failed
  <2>1. /\ IsSeq(Front(stack)) /\ DOMAIN Front(stack) = 1..Len(stack) - 1
        /\ \A k \in 1..Len(stack) - 1 : Front(stack)[k] = stack[k]
        /\ Last(stack) = stack[Len(stack)] /\ Len(stack) \in DOMAIN stack
    BY <1>1, <1>3, FrontIsSeq
  <2>2. Len(stack) \in Nat /\ DOMAIN stack = 1..Len(stack)
    BY <1>1, SeqParts
  <2>3. \A k \in DOMAIN Front(stack) : FrameGood(Front(stack)[k], D)
    BY <1>1, <2>1, <2>2
  <2>4. FrameGood(Last(stack), D)
    BY <1>1, <2>1
  <2> QED
    BY <1>3, <2>1, <2>3, <2>4, AddGood
<1>4. CASE ChildDone(f)
  <2> DEFINE r == fe[f].res
             c == batch_add(Last(stack), r)
  <2>1. /\ fe[f].pc = "reply" /\ stack # <<>>
        /\ IF ~r.ok /\ c.stop THEN BatchOver(f, c, Front(stack))
                              ELSE BatchNext(f, c, Front(stack))
    BY <1>4 DEF ChildDone
  <2>2. Sound(r, D)
    BY <2>1 DEF FrontGood, ReplyGood
  <2>3. /\ IsSeq(Front(stack)) /\ \A k \in DOMAIN Front(stack) : FrameGood(Front(stack)[k], D)
        /\ Recorded(c, D) /\ (c.stop => c.failed \subseteq {Len(c.results)})
        /\ (r.ok /\ c.stop => c.failed = {}) /\ (~r.ok => Len(c.results) \in c.failed)
    BY <1>3, <2>1, <2>2
  <2> HIDE DEF c
  <2>4. CASE ~r.ok /\ c.stop
    BY <2>1, <2>3, <2>4, BatchOverEffect
  <2>5. CASE ~(~r.ok /\ c.stop)
    BY <2>1, <2>3, <2>5, BatchNextEffect
  <2> QED
    BY <2>4, <2>5
<1>5. CASE BatchDeadline(f)
  <2> DEFINE r == Err("BATCH_TIMEOUT")
             c == batch_add(Last(stack), r)
  <2>1. /\ fe[f].pc = "dispatch" /\ stack # <<>> /\ Last(stack).timed
        /\ BatchOver(f, c, Front(stack))
    BY <1>5 DEF BatchDeadline
  <2>2. Sound(r, D) /\ r.code = "BATCH_TIMEOUT"
    BY PlainGood DEF Err, ReplyGood, Outcome
  <2>3. /\ IsSeq(Front(stack)) /\ \A k \in DOMAIN Front(stack) : FrameGood(Front(stack)[k], D)
        /\ Recorded(c, D) /\ c.timed /\ c.results[Len(c.results)] = r
        /\ c.stop => c.failed \subseteq {Len(c.results)}
    BY <1>3, <2>1, <2>2
  <2> HIDE DEF c
  <2> QED
    BY <2>1, <2>2, <2>3, BatchOverEffect
<1> QED
  BY <1>2, <1>4, <1>5 DEF BatchStep

\* The ids a loop gives its replies.
LoopIds ==
  (UNION {DOMAIN Line[f] : f \in FrontEnd}) \cup {line.id : line \in AnyLine} \cup {None}

\* A new line: nothing, an answer at once, or a request to serve.
LEMMA ReadLineEffect ==
  ASSUME TypeOK, NEW f \in FrontEnd, NEW line \in AnyLine, ReadLine(f, line)
  PROVE  \E y, id :
           /\ Becomes(f, y) /\ fe[f].id = None /\ id \in LoopIds
           /\ y.pc \in {"idle", "done", "dispatch"} /\ y.batch \in {<<>>, fe[f].batch}
           /\ \/ y.id = None /\ UNCHANGED out
              \/ y.id = None /\ \E ok \in BOOLEAN : \E code :
                   out' = [out EXCEPT ![f] = Append(@, [id |-> id, body |-> Outcome(ok, code)])]
              \/ y.id = id /\ UNCHANGED out
<1> DEFINE seq == fe[f].seq + 1
           id == loop_id(line, seq)
           x == SetSeq(fe[f], seq)
<1>1. fe[f].pc = "idle" /\ seq \in DOMAIN Line[f] /\ line \in Line[f][seq]
  BY DEF ReadLine
<1>2. LoopOK(fe[f]) /\ fe[f].seq \in Nat /\ seq \in Nat
  BY DEF TypeOK, LoopOK
<1>3. id \in LoopIds /\ id # None /\ fe[f].id = None
  <2>1. seq # None
    BY <1>2, NoneAssumption
  <2>2. fe[f].id = None
    BY <1>1, <1>2 DEF LoopOK, Resting
  <2>3. seq \in LoopIds
    <3>1. PICK i : i = seq
      OBVIOUS
    <3>2. i \in DOMAIN Line[f]
      BY <1>1, <3>1
    <3>3. i \in LoopIds
      BY <3>2 DEF LoopIds
    <3> QED
      BY <3>1, <3>3
  <2>4. line.id \in LoopIds
    BY DEF LoopIds
  <2> QED
    BY <2>1, <2>2, <2>3, <2>4 DEF loop_id
<1>4. /\ IsLoop(x) /\ x.pc = "idle" /\ x.seq = seq /\ x.id = None /\ x.tok = None
      /\ x.batch = fe[f].batch /\ LoopOK(x)
  <2>1. /\ IsLoop(x) /\ x.pc = fe[f].pc /\ x.seq = seq /\ x.id = fe[f].id /\ x.tok = fe[f].tok
        /\ x.batch = fe[f].batch /\ x.req = fe[f].req
    BY <1>2, LoopUpdates DEF LoopOK
  <2> HIDE DEF x
  <2> QED
    BY <1>1, <1>2, <2>1 DEF LoopOK, Resting, OpenPc
<1>5. CASE line.kind = "empty" /\ fe' = [fe EXCEPT ![f].seq = seq] /\ UNCHANGED out
  <2>1. fe' = [fe EXCEPT ![f] = x]
    BY <1>5 DEF SetSeq
  <2> HIDE DEF x, id, seq
  <2> QED
    BY <1>3, <1>4, <1>5, <2>1 DEF Becomes
<1>6. CASE /\ fe' = [fe EXCEPT ![f].seq = seq]
           /\ \E ok \in BOOLEAN : \E code :
                out' = [out EXCEPT ![f] = Append(@, [id |-> id, body |-> Outcome(ok, code)])]
  <2>1. fe' = [fe EXCEPT ![f] = x]
    BY <1>6 DEF SetSeq
  <2> HIDE DEF x, id, seq
  <2> QED
    BY <1>3, <1>4, <1>6, <2>1 DEF Becomes
<1>7. CASE /\ fe' = [fe EXCEPT ![f].seq = seq, ![f].pc = "done"]
           /\ \E ok \in BOOLEAN : \E code :
                out' = [out EXCEPT ![f] = Append(@, [id |-> id, body |-> Outcome(ok, code)])]
  <2> DEFINE y == SetPc(x, "done")
  <2>1. fe' = [fe EXCEPT ![f] = y]
    BY <1>7 DEF SetSeq, SetPc
  <2> HIDE DEF x
  <2>2. /\ IsLoop(y) /\ y.pc = "done" /\ y.seq = seq /\ y.id = None /\ y.tok = None
        /\ y.batch = fe[f].batch
    BY <1>4, LoopUpdates
  <2> HIDE DEF y, id, seq
  <2>3. LoopOK(y)
    BY <1>2, <2>2 DEF LoopOK, Resting, OpenPc
  <2> QED
    BY <1>3, <1>7, <2>1, <2>2, <2>3 DEF Becomes
<1>8. CASE /\ line.kind = "request" /\ UNCHANGED out
           /\ fe' = [fe EXCEPT ![f] = Started(seq, id, line.req)]
  <2> DEFINE y == Started(seq, id, line.req)
  <2>1. /\ IsLoop(y) /\ y.pc = "dispatch" /\ y.seq = seq /\ y.id = id /\ y.req = line.req
        /\ y.tok = None /\ y.batch = <<>>
    BY StartedLoop
  <2>2. line.req \in Request
    BY <1>8, RequestAssumption
  <2>3. fe' = [fe EXCEPT ![f] = y]
    BY <1>8
  <2> HIDE DEF y, id, seq
  <2>4. LoopOK(y)
    BY <1>2, <1>3, <2>1, <2>2, EmptyIsSeq DEF LoopOK, Resting, OpenPc
  <2> QED
    BY <1>3, <1>8, <2>1, <2>3, <2>4 DEF Becomes
<1> QED
  BY <1>5, <1>6, <1>7, <1>8 DEF ReadLine, Started

LEMMA EofEffect ==
  ASSUME TypeOK, NEW f \in FrontEnd, Eof(f)
  PROVE  \E y : Becomes(f, y) /\ y.pc = "done" /\ y.id = None /\ fe[f].id = None
                /\ y.batch = fe[f].batch
<1> DEFINE y == SetPc(fe[f], "done")
<1>1. fe[f].pc = "idle" /\ fe' = [fe EXCEPT ![f] = y] /\ LoopOK(fe[f])
  BY DEF Eof, Goto, SetPc, TypeOK
<1>2. /\ IsLoop(y) /\ y.pc = "done" /\ y.seq = fe[f].seq /\ y.id = fe[f].id
      /\ y.tok = fe[f].tok /\ y.batch = fe[f].batch
  BY <1>1, LoopUpdates DEF LoopOK
<1> HIDE DEF y
<1>3. LoopOK(y) /\ fe[f].id = None
  BY <1>1, <1>2 DEF LoopOK, Resting, OpenPc
<1> QED
  BY <1>1, <1>2, <1>3 DEF Becomes

LEMMA WriteReplyEffect ==
  ASSUME TypeOK, NEW f \in FrontEnd, WriteReply(f)
  PROVE  /\ Becomes(f, Idle(fe[f].seq)) /\ fe[f].pc = "reply" /\ fe[f].id # None
         /\ out' = [out EXCEPT ![f] = Append(@, [id |-> fe[f].id, body |-> fe[f].res])]
<1>1. /\ fe[f].pc = "reply" /\ LoopOK(fe[f]) /\ fe' = [fe EXCEPT ![f] = Idle(fe[f].seq)]
      /\ out' = [out EXCEPT ![f] = Append(@, [id |-> fe[f].id, body |-> fe[f].res])]
  BY DEF WriteReply, TypeOK
<1>2. fe[f].seq \in Nat /\ fe[f].id # None
  BY <1>1 DEF LoopOK, Resting
<1>3. LoopOK(Idle(fe[f].seq))
  BY <1>2, IdleLoop, EmptyIsSeq DEF LoopOK, Resting, OpenPc
<1> QED
  BY <1>1, <1>2, <1>3 DEF Becomes

\* session.open draws its token, a fresh one unless the client gave its own.
LEMMA DrawEffect ==
  ASSUME TypeOK, NEW f \in FrontEnd, Expired(f), fe'[f].pc = "open"
  PROVE  \E y : /\ Becomes(f, y) /\ y.pc = "open" /\ y.id = fe[f].id
                /\ y.batch = fe[f].batch
                /\ \/ y.tok \in Token /\ UNCHANGED toks
                   \/ y.tok = toks + 1 /\ toks' = toks + 1
<1> DEFINE tok == IF fe[f].req.tok # None THEN fe[f].req.tok ELSE toks + 1
           x == SetPc(fe[f], "open")
           y == SetTok(x, tok)
<1>1. /\ fe[f].pc = "expire" /\ fe' = [fe EXCEPT ![f] = y]
      /\ toks' = IF fe[f].req.tok # None THEN toks ELSE toks + 1
  <2>1. CASE fe' = [fe EXCEPT ![f].pc = "gc", ![f].todo = list(records)]
    <3>1. Moves(f, "gc")
      BY <2>1, TwoFieldsMove
    <3>2. fe'[f].pc = "gc"
      BY <3>1 DEF Moves, TypeOK
    <3> QED
      BY <3>2
  <2>2. CASE Goto(f, "probe")
    <3>1. Moves(f, "probe")
      BY <2>2, OneFieldMoves
    <3>2. fe'[f].pc = "probe"
      BY <3>1 DEF Moves, TypeOK
    <3> QED
      BY <3>2
  <2>3. CASE /\ fe' = [fe EXCEPT ![f].pc = "open", ![f].tok = tok]
             /\ toks' = IF fe[f].req.tok # None THEN toks ELSE toks + 1
    BY <2>3 DEF Expired, SetPc, SetTok
  <2> QED
    BY <2>1, <2>2, <2>3 DEF Expired
<1>2. LoopOK(fe[f]) /\ fe[f].req \in Request /\ toks \in Nat
  BY <1>1 DEF TypeOK, LoopOK, Resting
<1>3. fe[f].req.tok \in Token \cup {None}
  BY <1>2, RequestAssumption
<1>4. IsLoop(x) /\ x.pc = "open" /\ x.seq = fe[f].seq /\ x.id = fe[f].id /\ x.req = fe[f].req
      /\ x.batch = fe[f].batch
  BY <1>2, LoopUpdates DEF LoopOK
<1> HIDE DEF x
<1>5. IsLoop(y) /\ y.pc = "open" /\ y.seq = fe[f].seq /\ y.id = fe[f].id /\ y.req = fe[f].req
      /\ y.batch = fe[f].batch /\ y.tok = tok
  BY <1>4, LoopUpdates
<1> HIDE DEF y
<1>6. tok \in Nat \cup Token /\ tok # None
  BY <1>2, <1>3, NoneAssumption
<1>7. \/ tok \in Token /\ UNCHANGED toks
      \/ tok = toks + 1 /\ toks' = toks + 1
  BY <1>1, <1>3
<1> HIDE DEF tok
<1>8. LoopOK(y)
  BY <1>1, <1>2, <1>5, <1>6 DEF LoopOK, Resting, OpenPc
<1> QED
  BY <1>1, <1>5, <1>7, <1>8 DEF Becomes

\* The undo of an open: what it claims, and what it leaves.
LEMMA CompensateEffect ==
  ASSUME TypeOK, NEW f \in FrontEnd, Compensate(f)
  PROVE  LET n == fe[f].req.name IN
         /\ fe[f].pc = "compensate" /\ n \in Name /\ RegShrinks
         /\ UNCHANGED <<lease, out, toks, clock, file, gens>>
         /\ \E y : /\ Becomes(f, y) /\ y.pc = "reply" /\ y.id = fe[f].id /\ y.res # Ok
                   /\ y.batch = fe[f].batch
                   /\ y.res.asked = None /\ y.res.tok = fe[f].tok /\ y.res.results = <<>>
                   /\ y.res.cleaned => reg'[n] = None
<1> DEFINE n == fe[f].req.name
<1>1. PICK result \in Results :
        /\ BackClose(n, fe[f].tok, FALSE, result)
        /\ Finish(f, [Err("INTERNAL_ERROR") EXCEPT !.tok = fe[f].tok,
                        !.cleaned = backend_cleanup_ok(result)])
  BY DEF Compensate, compensation_token
<1>2. RegShrinks
  BY <1>1, CloseShrinks
<1>3. UNCHANGED <<lease, out, toks, clock, file, gens>> /\ fe[f].pc = "compensate"
  BY DEF Compensate, world
<1>4. LoopOK(fe[f]) /\ fe[f].req \in Request /\ n \in Name
  <2>1. LoopOK(fe[f]) /\ fe[f].req \in Request
    BY <1>3 DEF TypeOK, LoopOK, Resting
  <2> QED
    BY <2>1, RequestAssumption
<1>5. backend_cleanup_ok(result) => reg'[n] = None
  BY <1>1, <1>4 DEF BackClose, backend_cleanup_ok, TypeOK
<1> DEFINE o == Err("INTERNAL_ERROR")
           w == SetTok(o, fe[f].tok)
           r == SetCleaned(w, backend_cleanup_ok(result))
<1>6. IsReply(o) /\ o.ok = FALSE /\ o.results = <<>> /\ o.asked = None
  BY DEF Err, Outcome, IsReply
<1> HIDE DEF o
<1>7. IsReply(w) /\ w.ok = FALSE /\ w.tok = fe[f].tok /\ w.results = <<>> /\ w.asked = None
  BY <1>6, ReplyUpdates
<1> HIDE DEF w
<1>8. /\ IsReply(r) /\ r.ok = FALSE /\ r.tok = fe[f].tok /\ r.results = <<>> /\ r.asked = None
      /\ r.cleaned = backend_cleanup_ok(result)
  BY <1>7, ReplyUpdates
<1> HIDE DEF r
<1>9. Finish(f, r)
  BY <1>1 DEF r, w, o, SetTok, SetCleaned
<1>10. PICK y : /\ SameRequest(fe[f], y) /\ y.pc = "reply" /\ y.res = r
                /\ fe' = [fe EXCEPT ![f] = y]
  BY <1>9, FinishReplies
<1>11. LoopOK(y)
  BY <1>3, <1>4, <1>10 DEF LoopOK, SameRequest, Resting, OpenPc
<1>12. r # Ok
  BY <1>8 DEF Ok, Outcome
<1> QED
  BY <1>2, <1>3, <1>4, <1>5, <1>8, <1>10, <1>11, <1>12 DEF Becomes, SameRequest

---------------------------------------------------------------------------
(* The inductive invariant. *)

\* A helper that is opening a session holds the lease of its name and has its
\* record: nobody may remove the record meanwhile.
Held ==
  \A f \in FrontEnd : fe[f].pc = "opening" =>
    lease[fe[f].req.name] = f /\ reg[fe[f].req.name] # None

\* The front end is between drawing its own token and the end of its open.
Holds(x) ==
  x.tok \in Nat /\ (x.pc \in OpenPc \/ (x.pc = "reply" /\ x.res = Ok))

\* Drawn tokens are never drawn again, have one holder at a time and mark
\* records of the holder's name only.
TokInv ==
  /\ \A f \in FrontEnd : fe[f].tok \in Nat => fe[f].tok \in 1..toks
  /\ \A m \in Name : reg[m] # None /\ reg[m].tok \in Nat => reg[m].tok \in 1..toks
  /\ \A f, g \in FrontEnd : Holds(fe[f]) /\ Holds(fe[g]) /\ fe[f].tok = fe[g].tok => f = g
  /\ \A f \in FrontEnd, m \in Name :
       Holds(fe[f]) /\ reg[m] # None /\ reg[m].tok = fe[f].tok => m = fe[f].req.name

\* The drawn tokens that no record carries and no open will ever use again.
Dead ==
  {t \in 1..toks : /\ \A m \in Name : reg[m] # None => reg[m].tok # t
                   /\ \A g \in FrontEnd : fe[g].pc = "open" => fe[g].tok # t}

RepliesInv == \A f \in FrontEnd : FrontGood(fe[f], out[f], Dead)

FrontInv == TypeOK /\ Held /\ TokInv /\ RepliesInv

LEMMA InitInv == Init => FrontInv
<1>1. SUFFICES ASSUME Init PROVE FrontInv
  OBVIOUS
<1>2. \A f \in FrontEnd : fe[f] = Idle(0) /\ out[f] = <<>>
  BY <1>1 DEF Init
<1>3. /\ IsLoop(Idle(0)) /\ Idle(0).pc = "idle" /\ Idle(0).seq = 0 /\ Idle(0).id = None
      /\ Idle(0).tok = None /\ Idle(0).batch = <<>>
  BY IdleLoop
<1>4. LoopOK(Idle(0))
  BY <1>3, EmptyIsSeq DEF LoopOK, Resting, OpenPc
<1>5. TypeOK
  BY <1>1, <1>2, <1>4, EmptyIsSeq DEF Init, TypeOK
<1>6. Held /\ TokInv
  BY <1>1, <1>2, <1>3, NoneAssumption DEF Init, Held, TokInv, Holds, OpenPc
<1>7. RepliesInv
  BY <1>2, <1>3 DEF RepliesInv, FrontGood
<1> QED
  BY <1>5, <1>6, <1>7 DEF FrontInv

LEMMA TypeStep ==
  ASSUME TypeOK, NEW f \in FrontEnd, NEW y, Becomes(f, y),
         reg' \in [Name -> Record \cup {None}], lease' = [n \in Name |-> lease'[n]],
         clock' \in Nat, file' \in Nat, gens' \in Nat, toks' \in Nat,
         out' = [g \in FrontEnd |-> out'[g]], \A g \in FrontEnd : IsSeq(out'[g])
  PROVE  /\ TypeOK' /\ fe'[f] = y /\ \A g \in FrontEnd \ {f} : fe'[g] = fe[g]
<1>1. /\ fe' = [g \in FrontEnd |-> fe'[g]]
      /\ fe'[f] = y /\ \A g \in FrontEnd \ {f} : fe'[g] = fe[g]
  BY DEF TypeOK, Becomes
<1>2. \A g \in FrontEnd : LoopOK(fe'[g])
  BY <1>1 DEF TypeOK, Becomes
<1>3. TypeOK'
  BY <1>1, <1>2 DEF TypeOK
<1> QED
  BY <1>1, <1>3

LEMMA TokStep ==
  ASSUME TypeOK, TokInv, NEW f \in FrontEnd, NEW y,
         fe'[f] = y, \A g \in FrontEnd \ {f} : fe'[g] = fe[g],
         KeepsTokens, UNCHANGED toks, y.tok \in {None, fe[f].tok},
         Holds(y) => Holds(fe[f]) /\ y.tok = fe[f].tok /\ y.req = fe[f].req
  PROVE  TokInv'
<1>1. \A g \in FrontEnd : Holds(fe'[g]) =>
        Holds(fe[g]) /\ fe'[g].tok = fe[g].tok /\ fe'[g].req = fe[g].req
  OBVIOUS
<1>2. \A g \in FrontEnd : fe'[g].tok \in Nat => fe'[g].tok \in 1..toks'
  BY NoneAssumption DEF TokInv
<1>3. \A m \in Name : reg'[m] # None /\ reg'[m].tok \in Nat => reg'[m].tok \in 1..toks'
  BY DEF TokInv, KeepsTokens
<1>4. \A g, h \in FrontEnd : Holds(fe'[g]) /\ Holds(fe'[h]) /\ fe'[g].tok = fe'[h].tok => g = h
  BY <1>1 DEF TokInv
<1>5. \A g \in FrontEnd, m \in Name :
        Holds(fe'[g]) /\ reg'[m] # None /\ reg'[m].tok = fe'[g].tok => m = fe'[g].req.name
  BY <1>1 DEF TokInv, KeepsTokens
<1> QED
  BY <1>2, <1>3, <1>4, <1>5 DEF TokInv, Holds

LEMMA DeadStep ==
  ASSUME TypeOK, NEW f \in FrontEnd, NEW y,
         fe'[f] = y, \A g \in FrontEnd \ {f} : fe'[g] = fe[g],
         KeepsTokens, UNCHANGED toks, y.pc = "open" => fe[f].pc = "open" /\ y.tok = fe[f].tok
  PROVE  Dead \subseteq Dead'
BY DEF Dead, KeepsTokens

LEMMA RepliesStep ==
  ASSUME TypeOK, RepliesInv, NEW f \in FrontEnd,
         \A g \in FrontEnd \ {f} : fe'[g] = fe[g] /\ out'[g] = out[g],
         Dead \subseteq Dead', FrontGood(fe'[f], out'[f], Dead')
  PROVE  RepliesInv'
<1>1. SUFFICES ASSUME NEW g \in FrontEnd PROVE FrontGood(fe'[g], out'[g], Dead')
  BY DEF RepliesInv, FrontGood, ReplyGood, FrameGood, Recorded, Sound, Honest, IsSeq
<1>2. CASE g = f
  BY <1>2
<1>3. CASE g # f
  <2>1. FrontGood(fe[g], out[g], Dead)
    BY DEF RepliesInv
  <2> QED
    BY <1>3, <2>1, MoreDead
<1> QED
  BY <1>2, <1>3

\* A step that opens nothing keeps the invariant, if what it puts into replies
\* is good.
LEMMA QuietKeeps ==
  ASSUME FrontInv, NEW f \in FrontEnd, NEW y, Becomes(f, y), RegShrinks,
         UNCHANGED <<lease, toks, clock, file, gens>>,
         y.pc # "opening", y.pc = "open" => fe[f].pc = "open" /\ y.tok = fe[f].tok,
         y.tok \in {None, fe[f].tok},
         Holds(y) => Holds(fe[f]) /\ y.tok = fe[f].tok /\ y.req = fe[f].req,
         out' = [g \in FrontEnd |-> out'[g]], IsSeq(out'[f]),
         \A g \in FrontEnd \ {f} : out'[g] = out[g],
         fe'[f] = y /\ Dead \subseteq Dead' => FrontGood(y, out'[f], Dead')
  PROVE  FrontInv'
<1>1. TypeOK /\ Held /\ TokInv /\ RepliesInv /\ KeepsTokens
  BY DEF FrontInv, RegShrinks
<1>2. \A g \in FrontEnd : IsSeq(out'[g])
  BY <1>1 DEF TypeOK
<1>3. TypeOK' /\ fe'[f] = y /\ \A g \in FrontEnd \ {f} : fe'[g] = fe[g]
  <2>1. /\ reg' \in [Name -> Record \cup {None}] /\ lease' = [n \in Name |-> lease'[n]]
        /\ clock' \in Nat /\ file' \in Nat /\ gens' \in Nat /\ toks' \in Nat
    BY <1>1 DEF TypeOK, KeepsTokens
  <2> QED
    BY <1>1, <1>2, <2>1, TypeStep
<1>4. TokInv'
  BY <1>1, <1>3, TokStep
<1>5. Dead \subseteq Dead'
  BY <1>1, <1>3, DeadStep
<1>6. RepliesInv'
  BY <1>1, <1>3, <1>5, RepliesStep
<1>7. Held'
  <2>1. SUFFICES ASSUME NEW g \in FrontEnd, fe'[g].pc = "opening"
                 PROVE  lease'[fe'[g].req.name] = g /\ reg'[fe'[g].req.name] # None
    BY DEF Held
  <2>2. g # f /\ fe'[g] = fe[g]
    BY <1>3, <2>1
  <2>3. lease[fe[g].req.name] = g /\ reg[fe[g].req.name] # None
    BY <1>1, <2>1, <2>2 DEF Held
  <2>4. fe[g].req \in Request
    BY <1>1, <2>1, <2>2 DEF TypeOK, LoopOK, Resting
  <2>5. fe[g].req.name \in Name /\ g # None
    BY <2>4, RequestAssumption, NoneAssumption
  <2> QED
    BY <2>2, <2>3, <2>5 DEF RegShrinks
<1> QED
  BY <1>3, <1>4, <1>6, <1>7 DEF FrontInv

\* What a handler's step leaves in order.
LEMMA HandlerFacts ==
  ASSUME NEW x, NEW y, NEW o, NEW D, LoopOK(x), HandlerStep(x, y), FrontGood(x, o, D)
  PROVE  /\ LoopOK(y) /\ FrontGood(y, o, D)
         /\ Holds(y) => Holds(x) /\ y.tok = x.tok /\ y.req = x.req
<1>1. LoopOK(y)
  BY DEF LoopOK, HandlerStep, SameRequest, Resting, OpenPc
<1>2. FrontGood(y, o, D)
  BY PlainGood DEF FrontGood, HandlerStep, SameRequest
<1>3. Holds(y) => Holds(x) /\ y.tok = x.tok /\ y.req = x.req
  BY NoneAssumption DEF LoopOK, HandlerStep, SameRequest, Holds
<1> QED
  BY <1>1, <1>2, <1>3

LEMMA HandledKeeps ==
  ASSUME FrontInv, NEW f \in FrontEnd, Handled(f)
  PROVE  FrontInv'
<1>1. PICK y : HandlerStep(fe[f], y) /\ fe' = [fe EXCEPT ![f] = y]
  BY DEF Handled, Handles
<1>2. LoopOK(fe[f]) /\ FrontGood(fe[f], out[f], Dead)
  BY DEF FrontInv, TypeOK, RepliesInv
<1>3. /\ LoopOK(y) /\ FrontGood(y, out[f], Dead)
      /\ Holds(y) => Holds(fe[f]) /\ y.tok = fe[f].tok /\ y.req = fe[f].req
  BY <1>1, <1>2, HandlerFacts
<1>4. Becomes(f, y)
  BY <1>1, <1>3 DEF Becomes
<1>5. /\ RegShrinks /\ UNCHANGED <<lease, toks, clock, file, gens>> /\ UNCHANGED out
      /\ y.pc \notin {"open", "opening"} /\ y.tok = fe[f].tok
  BY <1>1 DEF Handled, HandlerStep, SameRequest
<1>6. /\ out' = [g \in FrontEnd |-> out'[g]] /\ IsSeq(out'[f])
      /\ \A g \in FrontEnd \ {f} : out'[g] = out[g]
  BY <1>5 DEF FrontInv, TypeOK
<1>7. Dead \subseteq Dead' => FrontGood(y, out'[f], Dead')
  BY <1>3, <1>5, MoreDead
<1> QED
  BY <1>3, <1>4, <1>5, <1>6, <1>7, QuietKeeps

LEMMA BatchKeeps ==
  ASSUME FrontInv, NEW f \in FrontEnd, BatchStep(f)
  PROVE  FrontInv'
<1>1. TypeOK /\ FrontGood(fe[f], out[f], Dead)
  BY DEF FrontInv, RepliesInv
<1>2. UNCHANGED <<reg, lease, toks, clock, file, gens>> /\ UNCHANGED out
  BY DEF BatchStep, Dispatch, ChildDone, BatchDeadline, world
<1>3. PICK y : /\ Becomes(f, y) /\ FrontGood(y, out[f], Dead) /\ y.id = fe[f].id
               /\ y.pc = "dispatch" \/ (y.pc = "reply" /\ y.res # Ok)
               /\ y.tok \in {None, fe[f].tok}
  BY <1>1, BatchEffect
<1>4. ~Holds(y) /\ y.pc \notin {"open", "opening"}
  BY <1>3 DEF Holds, OpenPc
<1>5. /\ out' = [g \in FrontEnd |-> out'[g]] /\ IsSeq(out'[f])
      /\ \A g \in FrontEnd \ {f} : out'[g] = out[g]
  BY <1>1, <1>2 DEF TypeOK
<1>6. Dead \subseteq Dead' => FrontGood(y, out'[f], Dead')
  BY <1>2, <1>3, MoreDead
<1>7. RegShrinks
  BY <1>1, <1>2, SameRegShrinks
<1> QED
  BY <1>2, <1>3, <1>4, <1>5, <1>6, <1>7, QuietKeeps

\* One more good reply on stdout.
LEMMA WrittenGood ==
  ASSUME NEW x, NEW y, NEW o, NEW D, NEW r, NEW id, FrontGood(x, o, D), IsSeq(o),
         ReplyGood(r, D), y.pc # "reply", y.batch \in {<<>>, x.batch}
  PROVE  LET u == Append(o, [id |-> id, body |-> r]) IN
         FrontGood(y, o, D) /\ FrontGood(y, u, D) /\ IsSeq(u)
<1> DEFINE e == [id |-> id, body |-> r]
           u == Append(o, e)
<1>1. /\ IsSeq(u) /\ DOMAIN u = 1..Len(o) + 1 /\ u[Len(o) + 1] = e
      /\ \A i \in 1..Len(o) : u[i] = o[i]
  BY AppendIsSeq
<1>2. Len(o) \in Nat /\ DOMAIN o = 1..Len(o) /\ e.body = r
  BY SeqParts
<1> HIDE DEF e, u
<1>3. \A j \in DOMAIN u : ReplyGood(u[j].body, D)
  BY <1>1, <1>2 DEF FrontGood
<1>4. \A k \in DOMAIN y.batch : FrameGood(y.batch[k], D)
  BY DEF FrontGood
<1>5. FrontGood(y, u, D)
  BY <1>3, <1>4 DEF FrontGood
<1>6. FrontGood(y, o, D)
  BY <1>4 DEF FrontGood
<1> QED
  BY <1>1, <1>5, <1>6 DEF e, u

LEMMA ReadLineKeeps ==
  ASSUME FrontInv, NEW f \in FrontEnd, NEW line \in AnyLine, ReadLine(f, line)
  PROVE  FrontInv'
<1>1. TypeOK /\ FrontGood(fe[f], out[f], Dead) /\ IsSeq(out[f])
  BY DEF FrontInv, RepliesInv, TypeOK
<1>2. UNCHANGED <<reg, lease, toks, clock, file, gens>>
  BY DEF ReadLine, world
<1>3. PICK y, id :
        /\ Becomes(f, y)
        /\ y.pc \in {"idle", "done", "dispatch"} /\ y.batch \in {<<>>, fe[f].batch}
        /\ \/ UNCHANGED out
           \/ \E ok \in BOOLEAN : \E code :
                out' = [out EXCEPT ![f] = Append(@, [id |-> id, body |-> Outcome(ok, code)])]
  BY <1>1, ReadLineEffect
<1>4. /\ ~Holds(y) /\ y.pc \notin {"open", "opening"} /\ y.tok = None /\ y.pc # "reply"
  BY <1>3 DEF Holds, OpenPc, Becomes, LoopOK
<1>5. RegShrinks
  BY <1>1, <1>2, SameRegShrinks
<1>6. /\ out' = [g \in FrontEnd |-> out'[g]] /\ IsSeq(out'[f])
      /\ \A g \in FrontEnd \ {f} : out'[g] = out[g]
      /\ FrontGood(y, out'[f], Dead)
  <2>1. CASE UNCHANGED out
    <3>1. FrontGood(y, out[f], Dead)
      BY <1>1, <1>3, <1>4 DEF FrontGood
    <3> QED
      BY <1>1, <2>1, <3>1 DEF TypeOK
  <2>2. ASSUME NEW ok \in BOOLEAN, NEW code,
               out' = [out EXCEPT ![f] = Append(@, [id |-> id, body |-> Outcome(ok, code)])]
        PROVE  /\ out' = [g \in FrontEnd |-> out'[g]] /\ IsSeq(out'[f])
               /\ \A g \in FrontEnd \ {f} : out'[g] = out[g]
               /\ FrontGood(y, out'[f], Dead)
    <3> DEFINE r == Outcome(ok, code)
    <3>1. ReplyGood(r, Dead)
      BY PlainGood
    <3> HIDE DEF r
    <3>2. /\ FrontGood(y, Append(out[f], [id |-> id, body |-> r]), Dead)
          /\ IsSeq(Append(out[f], [id |-> id, body |-> r]))
      BY <1>1, <1>3, <1>4, <3>1, WrittenGood
    <3>3. /\ out' = [g \in FrontEnd |-> out'[g]]
          /\ out'[f] = Append(out[f], [id |-> id, body |-> r])
          /\ \A g \in FrontEnd \ {f} : out'[g] = out[g]
      BY <1>1, <2>2 DEF TypeOK, r
    <3> QED
      BY <3>2, <3>3
  <2> QED
    BY <1>3, <2>1, <2>2
<1>7. Dead \subseteq Dead' => FrontGood(y, out'[f], Dead')
  BY <1>6, MoreDead
<1> QED
  BY <1>2, <1>3, <1>4, <1>5, <1>6, <1>7, QuietKeeps

LEMMA EofKeeps ==
  ASSUME FrontInv, NEW f \in FrontEnd, Eof(f)
  PROVE  FrontInv'
<1>1. TypeOK /\ FrontGood(fe[f], out[f], Dead) /\ IsSeq(out[f])
  BY DEF FrontInv, RepliesInv, TypeOK
<1>2. UNCHANGED <<reg, lease, toks, clock, file, gens>> /\ UNCHANGED out
  BY DEF Eof, world
<1>3. PICK y : Becomes(f, y) /\ y.pc = "done" /\ y.batch = fe[f].batch
  BY <1>1, EofEffect
<1>4. ~Holds(y) /\ y.tok = None
  BY <1>3 DEF Holds, OpenPc, Becomes, LoopOK
<1>5. RegShrinks
  BY <1>1, <1>2, SameRegShrinks
<1>6. /\ out' = [g \in FrontEnd |-> out'[g]] /\ IsSeq(out'[f])
      /\ \A g \in FrontEnd \ {f} : out'[g] = out[g]
      /\ FrontGood(y, out'[f], Dead)
  BY <1>1, <1>2, <1>3 DEF TypeOK, FrontGood
<1>7. Dead \subseteq Dead' => FrontGood(y, out'[f], Dead')
  BY <1>6, MoreDead
<1> QED
  BY <1>2, <1>3, <1>4, <1>5, <1>6, <1>7, QuietKeeps

LEMMA WriteReplyKeeps ==
  ASSUME FrontInv, NEW f \in FrontEnd, WriteReply(f)
  PROVE  FrontInv'
<1> DEFINE y == Idle(fe[f].seq)
           r == fe[f].res
           id == fe[f].id
<1>1. TypeOK /\ FrontGood(fe[f], out[f], Dead) /\ IsSeq(out[f])
  BY DEF FrontInv, RepliesInv, TypeOK
<1>2. UNCHANGED <<reg, lease, toks, clock, file, gens>>
  BY DEF WriteReply, world
<1>3. /\ Becomes(f, y) /\ fe[f].pc = "reply"
      /\ out' = [out EXCEPT ![f] = Append(@, [id |-> id, body |-> r])]
  BY <1>1, WriteReplyEffect
<1>4. y.pc = "idle" /\ y.tok = None /\ y.batch = <<>>
  BY IdleLoop
<1> HIDE DEF y
<1>5. ~Holds(y)
  BY <1>4 DEF Holds, OpenPc
<1>6. RegShrinks
  BY <1>1, <1>2, SameRegShrinks
<1>7. ReplyGood(r, Dead)
  BY <1>1, <1>3 DEF FrontGood
<1> HIDE DEF r, id
<1>8. /\ FrontGood(y, Append(out[f], [id |-> id, body |-> r]), Dead)
      /\ IsSeq(Append(out[f], [id |-> id, body |-> r]))
  BY <1>1, <1>4, <1>7, WrittenGood
<1>9. /\ out' = [g \in FrontEnd |-> out'[g]]
      /\ out'[f] = Append(out[f], [id |-> id, body |-> r])
      /\ \A g \in FrontEnd \ {f} : out'[g] = out[g]
  BY <1>1, <1>3 DEF TypeOK
<1>10. Dead \subseteq Dead' => FrontGood(y, out'[f], Dead')
  BY <1>8, <1>9, MoreDead
<1> QED
  BY <1>2, <1>3, <1>4, <1>5, <1>6, <1>8, <1>9, <1>10, QuietKeeps

LEMMA CompensateKeeps ==
  ASSUME FrontInv, NEW f \in FrontEnd, Compensate(f)
  PROVE  FrontInv'
<1> DEFINE n == fe[f].req.name
<1>1. TypeOK /\ TokInv /\ FrontGood(fe[f], out[f], Dead)
  BY DEF FrontInv, RepliesInv
<1>2. /\ fe[f].pc = "compensate" /\ n \in Name /\ RegShrinks
      /\ UNCHANGED <<lease, toks, clock, file, gens>> /\ UNCHANGED out
  BY <1>1, CompensateEffect
<1>3. PICK y : /\ Becomes(f, y) /\ y.pc = "reply" /\ y.id = fe[f].id /\ y.res # Ok
               /\ y.batch = fe[f].batch
               /\ y.res.asked = None /\ y.res.tok = fe[f].tok /\ y.res.results = <<>>
               /\ y.res.cleaned => reg'[n] = None
  BY <1>1, CompensateEffect
<1>4. ~Holds(y) /\ y.tok = fe[f].tok
  <2>1. SameRequest(fe[f], y)
    <3>1. PICK r, z : SameRequest(fe[f], z) /\ fe' = [fe EXCEPT ![f] = z]
      BY <1>1, FinishReplies DEF Compensate
    <3>2. z = fe'[f] /\ y = fe'[f]
      BY <1>1, <1>3, <3>1 DEF Becomes, TypeOK
    <3> QED
      BY <3>1, <3>2
  <2> QED
    BY <1>3, <2>1 DEF Holds, OpenPc, SameRequest
<1>5. /\ out' = [g \in FrontEnd |-> out'[g]] /\ IsSeq(out'[f])
      /\ \A g \in FrontEnd \ {f} : out'[g] = out[g]
  BY <1>1, <1>2 DEF TypeOK
<1>6. ASSUME fe'[f] = y, Dead \subseteq Dead' PROVE FrontGood(y, out'[f], Dead')
  <2>1. ASSUME y.res.cleaned, y.res.tok \in Nat PROVE y.res.tok \in Dead'
    <3> DEFINE t == y.res.tok
    <3>1. t = fe[f].tok /\ Holds(fe[f]) /\ t \in 1..toks'
      BY <1>1, <1>2, <1>3, <2>1 DEF Holds, OpenPc, TokInv
    <3>2. \A m \in Name : reg'[m] # None => reg'[m].tok # t
      <4>1. SUFFICES ASSUME NEW m \in Name, reg'[m] # None, reg'[m].tok = t PROVE FALSE
        OBVIOUS
      <4>2. reg[m] # None /\ reg[m].tok = t
        BY <1>2, <4>1 DEF RegShrinks, KeepsTokens
      <4>3. m = n
        BY <1>1, <3>1, <4>2 DEF TokInv
      <4> QED
        BY <1>3, <2>1, <4>1, <4>3
    <3>3. \A g \in FrontEnd : fe'[g].pc = "open" => fe'[g].tok # t
      <4>1. SUFFICES ASSUME NEW g \in FrontEnd, fe'[g].pc = "open", fe'[g].tok = t PROVE FALSE
        OBVIOUS
      <4>2. g # f
        BY <1>3, <1>6, <4>1
      <4>3. fe'[g] = fe[g]
        BY <1>1, <1>3, <4>2 DEF Becomes, TypeOK
      <4>4. Holds(fe[g])
        BY <2>1, <4>1, <4>3 DEF Holds, OpenPc
      <4> QED
        BY <1>1, <3>1, <4>1, <4>2, <4>3, <4>4 DEF TokInv
    <3> QED
      BY <3>1, <3>2, <3>3 DEF Dead
  <2>2. ReplyGood(y.res, Dead')
    BY <1>3, <2>1 DEF ReplyGood, Sound, Honest
  <2>3. FrontGood(fe[f], out[f], Dead')
    BY <1>1, <1>6, MoreDead
  <2> QED
    BY <1>2, <1>3, <2>2, <2>3 DEF FrontGood
<1> QED
  BY <1>2, <1>3, <1>4, <1>5, <1>6, QuietKeeps

\* The parts of the invariant when a step changes a lease or draws a token.
LEMMA DrawKeeps ==
  ASSUME FrontInv, NEW f \in FrontEnd, Expired(f), fe'[f].pc = "open"
  PROVE  FrontInv'
<1>1. TypeOK /\ Held /\ TokInv /\ RepliesInv
  BY DEF FrontInv
<1>2. UNCHANGED <<reg, lease, clock, file, gens, out>>
  BY DEF Expired, world
<1>3. PICK y : /\ Becomes(f, y) /\ y.pc = "open" /\ y.id = fe[f].id
               /\ y.batch = fe[f].batch
               /\ \/ y.tok \in Token /\ UNCHANGED toks
                  \/ y.tok = toks + 1 /\ toks' = toks + 1
  BY <1>1, DrawEffect
<1>4. toks \in Nat /\ toks' \in Nat /\ toks <= toks'
  BY <1>1, <1>3 DEF TypeOK
<1>5. TypeOK' /\ fe'[f] = y /\ \A g \in FrontEnd \ {f} : fe'[g] = fe[g]
  <2>1. /\ reg' \in [Name -> Record \cup {None}] /\ lease' = [n \in Name |-> lease'[n]]
        /\ clock' \in Nat /\ file' \in Nat /\ gens' \in Nat
        /\ out' = [g \in FrontEnd |-> out'[g]] /\ \A g \in FrontEnd : IsSeq(out'[g])
    BY <1>1, <1>2 DEF TypeOK
  <2> QED
    BY <1>1, <1>3, <1>4, <2>1, TypeStep
<1>6. y.tok \notin 1..toks /\ (y.tok \in Nat => y.tok = toks' /\ toks' = toks + 1)
  BY <1>3, <1>4, TokenAssumption
<1>7. TokInv'
  <2>1. \A g \in FrontEnd : fe'[g].tok \in Nat => fe'[g].tok \in 1..toks'
    BY <1>1, <1>4, <1>5, <1>6 DEF TokInv
  <2>2. \A m \in Name : reg'[m] # None /\ reg'[m].tok \in Nat => reg'[m].tok \in 1..toks'
    BY <1>1, <1>2, <1>4 DEF TokInv
  <2>3. \A g, h \in FrontEnd : Holds(fe'[g]) /\ Holds(fe'[h]) /\ fe'[g].tok = fe'[h].tok => g = h
    <3>1. SUFFICES ASSUME NEW g \in FrontEnd, NEW h \in FrontEnd, Holds(fe'[g]), Holds(fe'[h]),
                          fe'[g].tok = fe'[h].tok, g # h
                   PROVE  FALSE
      OBVIOUS
    <3>2. CASE g # f /\ h # f
      BY <1>1, <1>5, <3>1, <3>2 DEF TokInv
    <3>3. CASE g = f
      BY <1>1, <1>5, <1>6, <3>1, <3>3 DEF TokInv, Holds
    <3>4. CASE h = f
      BY <1>1, <1>5, <1>6, <3>1, <3>4 DEF TokInv, Holds
    <3> QED
      BY <3>2, <3>3, <3>4
  <2>4. \A g \in FrontEnd, m \in Name :
          Holds(fe'[g]) /\ reg'[m] # None /\ reg'[m].tok = fe'[g].tok => m = fe'[g].req.name
    <3>1. SUFFICES ASSUME NEW g \in FrontEnd, NEW m \in Name, Holds(fe'[g]), reg'[m] # None,
                          reg'[m].tok = fe'[g].tok
                   PROVE  m = fe'[g].req.name
      OBVIOUS
    <3>2. CASE g # f
      BY <1>1, <1>2, <1>5, <3>1, <3>2 DEF TokInv
    <3>3. CASE g = f
      BY <1>1, <1>2, <1>5, <1>6, <3>1, <3>3 DEF TokInv, Holds
    <3> QED
      BY <3>2, <3>3
  <2> QED
    BY <2>1, <2>2, <2>3, <2>4 DEF TokInv, Holds
<1>8. Dead \subseteq Dead'
  BY <1>2, <1>4, <1>5, <1>6 DEF Dead
<1>9. RepliesInv'
  <2>1. FrontGood(fe[f], out[f], Dead')
    BY <1>1, <1>8, MoreDead DEF RepliesInv
  <2>2. FrontGood(fe'[f], out'[f], Dead')
    BY <1>2, <1>3, <1>5, <2>1 DEF FrontGood
  <2> QED
    BY <1>1, <1>2, <1>5, <1>8, <2>2, RepliesStep
<1>10. Held'
  BY <1>1, <1>2, <1>3, <1>5 DEF Held
<1> QED
  BY <1>5, <1>7, <1>9, <1>10 DEF FrontInv

LEMMA OpenReserveKeeps ==
  ASSUME FrontInv, NEW f \in FrontEnd, OpenReserve(f)
  PROVE  FrontInv'
<1> DEFINE n == fe[f].req.name
<1>1. TypeOK /\ Held /\ TokInv /\ RepliesInv
  BY DEF FrontInv
<1>2. /\ Handles(f) /\ OpenPreserves(f) /\ n \in Name /\ lease[n] = None /\ fe[f].pc = "open"
      /\ \/ fe'[f].pc = "opening" /\ lease'[n] = f /\ reg'[n] # None
            /\ reg[n] = None /\ reg'[n].tok = fe[f].tok
         \/ fe'[f].pc \notin {"open", "opening"} /\ lease'[n] = lease[n] /\ reg'[n] = reg[n]
  BY <1>1, OpenReserveHandles
<1>3. PICK y : HandlerStep(fe[f], y) /\ fe' = [fe EXCEPT ![f] = y]
  BY <1>2 DEF Handles
<1>4. LoopOK(fe[f]) /\ FrontGood(fe[f], out[f], Dead)
  BY <1>1 DEF TypeOK, RepliesInv
<1>5. /\ LoopOK(y) /\ FrontGood(y, out[f], Dead)
      /\ Holds(y) => Holds(fe[f]) /\ y.tok = fe[f].tok /\ y.req = fe[f].req
  BY <1>3, <1>4, HandlerFacts
<1>6. /\ reg' \in [Name -> Record \cup {None}]
      /\ \A m \in Name \ {n} : reg'[m] = reg[m] /\ lease'[m] = lease[m]
      /\ lease' = [m \in Name |-> lease'[m]]
      /\ UNCHANGED <<out, toks, clock, file>> /\ gens' \in Nat
  BY <1>2 DEF OpenPreserves
<1>7. TypeOK' /\ fe'[f] = y /\ \A g \in FrontEnd \ {f} : fe'[g] = fe[g]
  <2>1. /\ clock' \in Nat /\ file' \in Nat /\ toks' \in Nat
        /\ out' = [g \in FrontEnd |-> out'[g]] /\ \A g \in FrontEnd : IsSeq(out'[g])
    BY <1>1, <1>6 DEF TypeOK
  <2>2. Becomes(f, y)
    BY <1>3, <1>5 DEF Becomes
  <2> QED
    BY <1>1, <1>6, <2>1, <2>2, TypeStep
<1>8. y.tok = fe[f].tok /\ y.req = fe[f].req
  BY <1>3 DEF HandlerStep, SameRequest
<1>9. \A g \in FrontEnd : Holds(fe'[g]) =>
        Holds(fe[g]) /\ fe'[g].tok = fe[g].tok /\ fe'[g].req = fe[g].req
  BY <1>5, <1>7
<1>10. \A m \in Name : reg'[m] # None =>
          (reg'[m].tok = fe[f].tok /\ m = n) \/ (reg[m] # None /\ reg'[m].tok = reg[m].tok)
  <2>1. SUFFICES ASSUME NEW m \in Name, reg'[m] # None
                 PROVE  \/ reg'[m].tok = fe[f].tok /\ m = n
                        \/ reg[m] # None /\ reg'[m].tok = reg[m].tok
    OBVIOUS
  <2>2. CASE m = n
    BY <1>2, <2>1, <2>2
  <2>3. CASE m # n
    BY <1>6, <2>1, <2>3
  <2> QED
    BY <2>2, <2>3
<1>11. TokInv'
  <2>1. \A g \in FrontEnd : fe'[g].tok \in Nat => fe'[g].tok \in 1..toks'
    BY <1>1, <1>6, <1>7, <1>8 DEF TokInv
  <2>2. \A m \in Name : reg'[m] # None /\ reg'[m].tok \in Nat => reg'[m].tok \in 1..toks'
    BY <1>1, <1>6, <1>10 DEF TokInv
  <2>3. \A g, h \in FrontEnd : Holds(fe'[g]) /\ Holds(fe'[h]) /\ fe'[g].tok = fe'[h].tok => g = h
    BY <1>1, <1>9 DEF TokInv
  <2>4. \A g \in FrontEnd, m \in Name :
          Holds(fe'[g]) /\ reg'[m] # None /\ reg'[m].tok = fe'[g].tok => m = fe'[g].req.name
    <3>1. SUFFICES ASSUME NEW g \in FrontEnd, NEW m \in Name, Holds(fe'[g]), reg'[m] # None,
                          reg'[m].tok = fe'[g].tok
                   PROVE  m = fe[g].req.name
      BY <1>9
    <3>2. Holds(fe[g]) /\ fe'[g].tok = fe[g].tok
      BY <1>9, <3>1
    <3>3. CASE reg'[m].tok = fe[f].tok /\ m = n
      <4>1. Holds(fe[f])
        BY <1>2, <3>1, <3>2, <3>3 DEF Holds, OpenPc
      <4>2. g = f
        BY <1>1, <3>1, <3>2, <3>3, <4>1 DEF TokInv
      <4> QED
        BY <3>3, <4>2
    <3>4. CASE reg[m] # None /\ reg'[m].tok = reg[m].tok
      BY <1>1, <3>1, <3>2, <3>4 DEF TokInv
    <3> QED
      BY <1>10, <3>1, <3>3, <3>4
  <2> QED
    BY <2>1, <2>2, <2>3, <2>4 DEF TokInv, Holds
<1>12. Dead \subseteq Dead'
  <2>1. SUFFICES ASSUME NEW t \in Dead PROVE t \in Dead'
    OBVIOUS
  <2>2. /\ t \in 1..toks' /\ t # fe[f].tok
        /\ \A m \in Name : reg[m] # None => reg[m].tok # t
        /\ \A g \in FrontEnd : fe[g].pc = "open" => fe[g].tok # t
    BY <1>2, <1>6 DEF Dead
  <2>3. \A g \in FrontEnd : fe'[g].pc = "open" => fe'[g].tok # t
    BY <1>2, <1>7, <2>2
  <2> QED
    BY <1>10, <2>2, <2>3 DEF Dead
<1>13. RepliesInv'
  <2>1. FrontGood(fe'[f], out'[f], Dead')
    BY <1>5, <1>6, <1>7, <1>12, MoreDead
  <2> QED
    BY <1>1, <1>6, <1>7, <1>12, <2>1, RepliesStep
<1>14. Held'
  <2>1. SUFFICES ASSUME NEW g \in FrontEnd, fe'[g].pc = "opening"
                 PROVE  lease'[fe'[g].req.name] = g /\ reg'[fe'[g].req.name] # None
    BY DEF Held
  <2>2. CASE g = f
    BY <1>2, <1>7, <1>8, <2>1, <2>2
  <2>3. CASE g # f
    <3>1. fe'[g] = fe[g] /\ lease[fe[g].req.name] = g /\ reg[fe[g].req.name] # None
      BY <1>1, <1>7, <2>1, <2>3 DEF Held
    <3>2. fe[g].req \in Request
      BY <1>1, <2>1, <3>1 DEF TypeOK, LoopOK, Resting
    <3>3. fe[g].req.name \in Name \ {n}
      BY <1>2, <3>1, <3>2, RequestAssumption, NoneAssumption
    <3> QED
      BY <1>6, <3>1, <3>3
  <2> QED
    BY <2>2, <2>3
<1> QED
  BY <1>7, <1>11, <1>13, <1>14 DEF FrontInv

LEMMA OpenEndKeeps ==
  ASSUME FrontInv, NEW f \in FrontEnd, OpenEnd(f)
  PROVE  FrontInv'
<1> DEFINE n == fe[f].req.name
<1>1. TypeOK /\ Held /\ TokInv /\ RepliesInv
  BY DEF FrontInv
<1>2. lease[n] = f /\ reg[n] # None
  BY <1>1 DEF Held, OpenEnd
<1>3. /\ Handles(f) /\ OpenPreserves(f) /\ n \in Name /\ fe[f].pc = "opening"
      /\ lease'[n] = None /\ fe'[f].pc \notin {"open", "opening"}
      /\ reg'[n] # None => reg'[n].tok = reg[n].tok
  BY <1>1, <1>2, OpenEndHandles
<1>4. PICK y : HandlerStep(fe[f], y) /\ fe' = [fe EXCEPT ![f] = y]
  BY <1>3 DEF Handles
<1>5. LoopOK(fe[f]) /\ FrontGood(fe[f], out[f], Dead)
  BY <1>1 DEF TypeOK, RepliesInv
<1>6. /\ LoopOK(y) /\ FrontGood(y, out[f], Dead)
      /\ Holds(y) => Holds(fe[f]) /\ y.tok = fe[f].tok /\ y.req = fe[f].req
  BY <1>4, <1>5, HandlerFacts
<1>7. /\ reg' \in [Name -> Record \cup {None}]
      /\ \A m \in Name \ {n} : reg'[m] = reg[m] /\ lease'[m] = lease[m]
      /\ lease' = [m \in Name |-> lease'[m]]
      /\ UNCHANGED <<out, toks, clock, file>> /\ gens' \in Nat
  BY <1>3 DEF OpenPreserves
<1>8. TypeOK' /\ fe'[f] = y /\ \A g \in FrontEnd \ {f} : fe'[g] = fe[g]
  <2>1. /\ clock' \in Nat /\ file' \in Nat /\ toks' \in Nat
        /\ out' = [g \in FrontEnd |-> out'[g]] /\ \A g \in FrontEnd : IsSeq(out'[g])
    BY <1>1, <1>7 DEF TypeOK
  <2>2. Becomes(f, y)
    BY <1>4, <1>6 DEF Becomes
  <2> QED
    BY <1>1, <1>7, <2>1, <2>2, TypeStep
<1>9. KeepsTokens
  BY <1>2, <1>3, <1>7 DEF KeepsTokens
<1>10. TokInv'
  <2>1. y.tok = fe[f].tok
    BY <1>4 DEF HandlerStep, SameRequest
  <2> QED
    BY <1>1, <1>6, <1>7, <1>8, <1>9, <2>1, TokStep
<1>11. Dead \subseteq Dead'
  BY <1>1, <1>3, <1>7, <1>8, <1>9, DeadStep
<1>12. RepliesInv'
  <2>1. FrontGood(fe'[f], out'[f], Dead')
    BY <1>6, <1>7, <1>8, <1>11, MoreDead
  <2> QED
    BY <1>1, <1>7, <1>8, <1>11, <2>1, RepliesStep
<1>13. Held'
  <2>1. SUFFICES ASSUME NEW g \in FrontEnd, fe'[g].pc = "opening"
                 PROVE  lease'[fe'[g].req.name] = g /\ reg'[fe'[g].req.name] # None
    BY DEF Held
  <2>2. g # f
    BY <1>3, <2>1
  <2>3. fe'[g] = fe[g] /\ lease[fe[g].req.name] = g /\ reg[fe[g].req.name] # None
    BY <1>1, <1>8, <2>1, <2>2 DEF Held
  <2>4. fe[g].req \in Request
    BY <1>1, <2>1, <2>3 DEF TypeOK, LoopOK, Resting
  <2>5. fe[g].req.name \in Name \ {n}
    BY <1>2, <2>2, <2>3, <2>4, RequestAssumption
  <2> QED
    BY <1>7, <2>3, <2>5
<1> QED
  BY <1>8, <1>10, <1>12, <1>13 DEF FrontInv

LEMMA WorldKeeps ==
  ASSUME FrontInv, EngineDies \/ Tick \/ FileChanges \/ UNCHANGED vars
  PROVE  FrontInv'
<1>1. /\ UNCHANGED <<reg, lease, gens, toks, fe, out>>
      /\ clock' \in Nat /\ file' \in Nat
  BY DEF EngineDies, Tick, FileChanges, vars, FrontInv, TypeOK
<1>2. TypeOK' /\ Held' /\ TokInv'
  BY <1>1 DEF FrontInv, TypeOK, Held, TokInv, Holds
<1>3. Dead' = Dead
  BY <1>1 DEF Dead
<1>4. RepliesInv'
  <2>1. SUFFICES ASSUME NEW g \in FrontEnd PROVE FrontGood(fe'[g], out'[g], Dead')
    BY DEF RepliesInv, FrontGood, ReplyGood, FrameGood, Recorded, Sound, Honest, IsSeq
  <2> QED
    BY <1>1, <1>3 DEF FrontInv, RepliesInv
<1> QED
  BY <1>2, <1>4 DEF FrontInv

LEMMA FrontStep == FrontInv /\ [Next]_vars => FrontInv'
<1>1. SUFFICES ASSUME FrontInv, [Next]_vars PROVE FrontInv'
  OBVIOUS
<1>2. TypeOK
  BY <1>1 DEF FrontInv
<1>3. CASE EngineDies \/ Tick \/ FileChanges \/ UNCHANGED vars
  BY <1>1, <1>3, WorldKeeps
<1>4. ASSUME NEW f \in FrontEnd, Step(f) \/ ReplyInvalid(f) \/ BatchDeadline(f) \/ Eof(f)
      PROVE  FrontInv'
  <2>1. CASE Dispatch(f) /\ fe[f].req.action # "batch"
    BY <1>1, <1>2, <2>1, DispatchHandled, HandledKeeps
  <2>2. CASE BatchStep(f)
    BY <1>1, <2>2, BatchKeeps
  <2>3. CASE Lookup(f)
    BY <1>1, <1>2, <2>3, LookupHandled, HandledKeeps
  <2>4. CASE QueryExpired(f)
    BY <1>1, <1>2, <2>4, QueryExpiredHandled, HandledKeeps
  <2>5. CASE Query(f)
    BY <1>1, <1>2, <2>5, QueryHandled, HandledKeeps
  <2>6. CASE Doctor(f)
    BY <1>1, <1>2, <2>6, DoctorHandled, HandledKeeps
  <2>7. CASE Close(f)
    BY <1>1, <1>2, <2>7, CloseHandled, HandledKeeps
  <2>8. CASE CloseAll(f)
    BY <1>1, <1>2, <2>8, CloseAllHandled, HandledKeeps
  <2>9. CASE Expire(f)
    BY <1>1, <1>2, <2>9, ExpireHandled, HandledKeeps
  <2>10. CASE Expired(f) /\ fe'[f].pc # "open"
    BY <1>1, <1>2, <2>10, ExpiredHandled, HandledKeeps
  <2>11. CASE Expired(f) /\ fe'[f].pc = "open"
    BY <1>1, <2>11, DrawKeeps
  <2>12. CASE GcDoctor(f)
    BY <1>1, <1>2, <2>12, GcDoctorHandled, HandledKeeps
  <2>13. CASE GcForce(f)
    BY <1>1, <1>2, <2>13, GcForceHandled, HandledKeeps
  <2>14. CASE Probe(f)
    BY <1>1, <1>2, <2>14, ProbeHandled, HandledKeeps
  <2>15. CASE OpenReserve(f)
    BY <1>1, <2>15, OpenReserveKeeps
  <2>16. CASE OpenEnd(f)
    BY <1>1, <2>16, OpenEndKeeps
  <2>17. CASE Publish(f)
    BY <1>1, <1>2, <2>17, PublishHandled, HandledKeeps
  <2>18. CASE ReplyInvalid(f)
    BY <1>1, <1>2, <2>18, ReplyInvalidHandled, HandledKeeps
  <2>19. CASE Compensate(f)
    BY <1>1, <2>19, CompensateKeeps
  <2>20. CASE WriteReply(f)
    BY <1>1, <2>20, WriteReplyKeeps
  <2>21. CASE Eof(f)
    BY <1>1, <2>21, EofKeeps
  <2> QED
    BY <1>4, <2>1, <2>2, <2>3, <2>4, <2>5, <2>6, <2>7, <2>8, <2>9, <2>10, <2>11, <2>12,
       <2>13, <2>14, <2>15, <2>16, <2>17, <2>18, <2>19, <2>20, <2>21 DEF Step, BatchStep
<1>5. ASSUME NEW f \in FrontEnd, NEW line \in AnyLine, ReadLine(f, line) PROVE FrontInv'
  BY <1>1, <1>5, ReadLineKeeps
<1> QED
  BY <1>1, <1>3, <1>4, <1>5 DEF Next

---------------------------------------------------------------------------
(* Theorems. *)

\* The loops, leases, tokens and replies of all front ends stay in order,
\* whatever their clients send and whichever helpers and engines die.
THEOREM FrontendInvariant == Spec => []FrontInv
<1> QED
  BY InitInv, FrontStep, PTL DEF Spec

\* A reply of handle_batch, top level or nested in another batch, reports
\* exactly the children that failed, and leaves children out only after the
\* failure stop_on_error asks for or after the deadline.
THEOREM BatchIsHonest == Spec => []BatchHonest
<1>1. FrontInv => BatchHonest
  <2>1. SUFFICES ASSUME FrontInv, NEW f \in FrontEnd, NEW b \in bodies(f) PROVE Honest(b)
    BY DEF BatchHonest, Honest
  <2>2. \A j \in DOMAIN out[f] : ReplyGood(out[f][j].body, Dead)
    BY <2>1 DEF FrontInv, RepliesInv, FrontGood
  <2> QED
    BY <2>1, <2>2 DEF bodies, ReplyGood, Sound
<1> QED
  BY <1>1, FrontendInvariant, PTL

\* A client told that the undo of its failed session.open succeeded
\* (compensate_failed_session_open) never meets a record of that open again,
\* whatever the helper it gave up on had done and whoever uses the name since.
THEOREM CleanedIsGone == Spec => []CleanedMeansGone
<1>1. FrontInv => CleanedMeansGone
  <2>1. SUFFICES ASSUME FrontInv, NEW f \in FrontEnd, NEW b \in bodies(f), b.cleaned,
                        b.tok \in 1..toks, NEW r \in records, r.tok = b.tok
                 PROVE  FALSE
    BY DEF CleanedMeansGone
  <2>2. \A j \in DOMAIN out[f] : ReplyGood(out[f][j].body, Dead)
    BY <2>1 DEF FrontInv, RepliesInv, FrontGood
  <2>3. Sound(b, Dead)
    BY <2>1, <2>2 DEF bodies, ReplyGood
  <2>4. b.tok \in Nat
    BY <2>1 DEF FrontInv, TypeOK
  <2>5. b.tok \in Dead
    BY <2>1, <2>3, <2>4 DEF Sound
  <2>6. PICK m \in Name : reg[m] # None /\ r = reg[m]
    BY <2>1 DEF records
  <2> QED
    BY <2>1, <2>5, <2>6 DEF Dead
<1> QED
  BY <1>1, FrontendInvariant, PTL

\* The undo of a failed session.open, which closes by name, only ever removes
\* the record that carries the token of that open.
THEOREM CompensationIsOwn == Spec => []CompensationOwn
<1>1. Init => CompensationOwn
  BY DEF Init, CompensationOwn
<1>2. FrontInv /\ CompensationOwn /\ [Next]_vars => CompensationOwn'
  <2>1. SUFFICES ASSUME FrontInv, CompensationOwn, [Next]_vars PROVE CompensationOwn'
    OBVIOUS
  <2>2. CASE UNCHANGED reclaims
    BY <2>1, <2>2 DEF CompensationOwn
  <2>3. ASSUME NEW f \in FrontEnd, NEW lane, lane # "compensate", NEW judged, NEW tok,
               Removed(lane, f, judged, tok)
        PROVE  CompensationOwn'
    BY <2>1, <2>3 DEF CompensationOwn, Removed
  <2>4. ASSUME NEW f \in FrontEnd, Compensate(f) PROVE CompensationOwn'
    <3> DEFINE n == fe[f].req.name
    <3>1. fe[f].pc = "compensate" /\ fe[f].tok # None
      BY <2>1, <2>4 DEF Compensate, FrontInv, TypeOK, LoopOK, OpenPc
    <3>2. PICK result \in Results : BackClose(n, fe[f].tok, FALSE, result)
      BY <2>4 DEF Compensate, compensation_token
    <3>3. reg[n] # None /\ reg'[n] = None => reg[n].tok = fe[f].tok
      BY <3>1, <3>2 DEF BackClose, owns
    <3>4. Removed("compensate", f, [name |-> n, gen |-> 0, state |-> "any"], fe[f].tok)
      BY <2>4 DEF Compensate
    <3> QED
      BY <2>1, <3>3, <3>4 DEF CompensationOwn, Removed
  <2>5. ASSUME NEW f \in FrontEnd, QueryExpired(f) \/ Expire(f) \/ GcForce(f)
        PROVE  CompensationOwn'
    <3>1. CASE QueryExpired(f)
      BY <2>3, <3>1 DEF QueryExpired
    <3>2. CASE Expire(f)
      BY <2>3, <3>2 DEF Expire
    <3>3. CASE GcForce(f)
      BY <2>3, <3>3 DEF GcForce
    <3> QED
      BY <2>5, <3>1, <3>2, <3>3
  <2>6. ASSUME NEW f \in FrontEnd,
               \/ Dispatch(f) \/ Lookup(f) \/ Query(f) \/ Doctor(f) \/ Close(f) \/ CloseAll(f)
               \/ Expired(f) \/ GcDoctor(f) \/ Probe(f) \/ OpenReserve(f) \/ OpenEnd(f)
               \/ Publish(f) \/ WriteReply(f) \/ ChildDone(f) \/ ReplyInvalid(f)
               \/ BatchDeadline(f) \/ Eof(f) \/ \E line \in AnyLine : ReadLine(f, line)
        PROVE  CompensationOwn'
    <3>1. UNCHANGED reclaims
      BY <2>6 DEF Dispatch, Lookup, Query, Doctor, Close, CloseAll, Expired, GcDoctor, Probe,
         OpenReserve, OpenEnd, Publish, WriteReply, ChildDone, ReplyInvalid, BatchDeadline, Eof,
         ReadLine
    <3> QED
      BY <2>2, <3>1
  <2>7. CASE EngineDies \/ Tick \/ FileChanges \/ UNCHANGED vars
    <3>1. UNCHANGED reclaims
      BY <2>7 DEF EngineDies, Tick, FileChanges, vars
    <3> QED
      BY <2>2, <3>1
  <2> QED
    BY <2>1, <2>4, <2>5, <2>6, <2>7 DEF Next, Step
<1> QED
  BY <1>1, <1>2, FrontendInvariant, PTL DEF Spec

---------------------------------------------------------------------------
(* The refinement of SerialServer. *)

Pending == [f \in FrontEnd |-> IF fe[f].id = None THEN <<>> ELSE <<fe[f].id>>]
IdsOf(o) == [i \in DOMAIN o |-> o[i].id]
Replied == [f \in FrontEnd |-> IdsOf(out[f])]

LEMMA IdsOfAppend ==
  ASSUME NEW o, IsSeq(o), NEW e
  PROVE  IdsOf(Append(o, e)) = Append(IdsOf(o), e.id)
<1> DEFINE u == Append(o, e)
           v == IdsOf(o)
           x == e.id
<1>1. /\ IsSeq(u) /\ DOMAIN u = 1..Len(o) + 1 /\ u[Len(o) + 1] = e
      /\ \A i \in 1..Len(o) : u[i] = o[i]
  BY AppendIsSeq
<1>2. Len(o) \in Nat /\ DOMAIN o = 1..Len(o)
  BY SeqParts
<1>3. v = [i \in 1..Len(o) |-> o[i].id] /\ v \in Seq({o[i].id : i \in 1..Len(o)}) /\ Len(v) = Len(o)
  BY <1>2 DEF IdsOf
<1> HIDE DEF u
<1>4. IdsOf(u) = [i \in 1..Len(o) + 1 |-> IF i = Len(o) + 1 THEN x ELSE o[i].id]
  BY <1>1, <1>2 DEF IdsOf
<1> HIDE DEF v, x
<1>5. /\ Append(v, x) = [i \in 1..Len(o) + 1 |-> IF i = Len(o) + 1 THEN x ELSE v[i]]
  <2>1. PICK S : v \in Seq(S) /\ x \in S
    <3>1. v \in Seq({o[i].id : i \in 1..Len(o)} \cup {x})
      BY <1>3
    <3> QED
      BY <3>1
  <2> QED
    BY <1>2, <1>3, <2>1
<1>6. \A i \in 1..Len(o) : v[i] = o[i].id
  BY <1>3
<1>7. Append(v, x) = [i \in 1..Len(o) + 1 |-> IF i = Len(o) + 1 THEN x ELSE o[i].id]
  BY <1>2, <1>5, <1>6
<1> QED
  BY <1>4, <1>7 DEF u, v, x

\* Steps that keep the id of a front end and write nothing are invisible.
LEMMA Invisible ==
  ASSUME TypeOK, UNCHANGED out,
         UNCHANGED fe \/ \E f \in FrontEnd : \E y : fe' = [fe EXCEPT ![f] = y] /\ y.id = fe[f].id
  PROVE  UNCHANGED <<Pending, Replied>>
<1>1. \A g \in FrontEnd : fe'[g].id = fe[g].id
  BY DEF TypeOK
<1> QED
  BY <1>1 DEF Pending, Replied

LEMMA HandledInvisible ==
  ASSUME TypeOK, NEW f \in FrontEnd, Handles(f), UNCHANGED out
  PROVE  UNCHANGED <<Pending, Replied>>
<1>1. PICK y : fe' = [fe EXCEPT ![f] = y] /\ y.id = fe[f].id
  BY DEF Handles, HandlerStep, SameRequest
<1> QED
  BY <1>1, Invisible

\* The three visible steps.
LEMMA ReadLineServes ==
  ASSUME FrontInv, NEW f \in FrontEnd, NEW line \in AnyLine, ReadLine(f, line)
  PROVE  \/ UNCHANGED <<Pending, Replied>>
         \/ \E i \in LoopIds :
              /\ Pending[f] = <<>>
              /\ \/ Pending' = [Pending EXCEPT ![f] = <<i>>] /\ UNCHANGED Replied
                 \/ Replied' = [Replied EXCEPT ![f] = Append(@, i)] /\ UNCHANGED Pending
<1>1. TypeOK /\ IsSeq(out[f])
  BY DEF FrontInv, TypeOK
<1>2. PICK y, id :
           /\ Becomes(f, y) /\ fe[f].id = None /\ id \in LoopIds
           /\ \/ y.id = None /\ UNCHANGED out
              \/ y.id = None /\ \E ok \in BOOLEAN : \E code :
                   out' = [out EXCEPT ![f] = Append(@, [id |-> id, body |-> Outcome(ok, code)])]
              \/ y.id = id /\ UNCHANGED out
  BY <1>1, ReadLineEffect
<1>3. fe' = [fe EXCEPT ![f] = y] /\ Pending[f] = <<>>
  BY <1>2 DEF Becomes, Pending
<1>4. CASE y.id = None /\ UNCHANGED out
  BY <1>1, <1>2, <1>3, <1>4, Invisible
<1>5. ASSUME NEW r, y.id = None, out' = [out EXCEPT ![f] = Append(@, [id |-> id, body |-> r])]
      PROVE  Replied' = [Replied EXCEPT ![f] = Append(@, id)] /\ UNCHANGED Pending
  <2>1. PICK e : e = [id |-> id, body |-> r]
    OBVIOUS
  <2>2. e.id = id
    BY <2>1
  <2>3. IdsOf(Append(out[f], e)) = Append(IdsOf(out[f]), id)
    BY <1>1, <2>2, IdsOfAppend
  <2>4. out' = [out EXCEPT ![f] = Append(out[f], e)]
    BY <1>5, <2>1
  <2>5. /\ out'[f] = Append(out[f], e)
        /\ \A g \in FrontEnd \ {f} : out'[g] = out[g]
    BY <1>1, <2>4 DEF TypeOK
  <2>6. Replied' = [Replied EXCEPT ![f] = Append(@, id)]
    BY <2>3, <2>5 DEF Replied
  <2>7. \A g \in FrontEnd : fe'[g].id = fe[g].id
    BY <1>1, <1>2, <1>3, <1>5 DEF TypeOK
  <2> QED
    BY <2>6, <2>7 DEF Pending
<1>6. CASE y.id = id /\ UNCHANGED out
  <2>1. CASE id = None
    BY <1>4, <1>6, <2>1
  <2>2. CASE id # None
    <3>1. fe'[f].id = id /\ \A g \in FrontEnd \ {f} : fe'[g].id = fe[g].id
      BY <1>1, <1>3, <1>6 DEF TypeOK
    <3>2. Pending' = [Pending EXCEPT ![f] = <<id>>] /\ UNCHANGED Replied
      BY <1>6, <2>2, <3>1 DEF Pending, Replied
    <3> QED
      BY <1>2, <1>3, <3>2
  <2> QED
    BY <2>1, <2>2
<1> QED
  BY <1>2, <1>3, <1>4, <1>5, <1>6

LEMMA WriteReplyServes ==
  ASSUME FrontInv, NEW f \in FrontEnd, WriteReply(f)
  PROVE  /\ Pending[f] # <<>>
         /\ Replied' = [Replied EXCEPT ![f] = Append(@, Head(Pending[f]))]
         /\ Pending' = [Pending EXCEPT ![f] = <<>>]
<1>1. TypeOK /\ IsSeq(out[f])
  BY DEF FrontInv, TypeOK
<1>2. /\ fe' = [fe EXCEPT ![f] = Idle(fe[f].seq)] /\ fe[f].id # None
      /\ out' = [out EXCEPT ![f] = Append(@, [id |-> fe[f].id, body |-> fe[f].res])]
  BY <1>1, WriteReplyEffect DEF Becomes
<1>3. Pending[f] = <<fe[f].id>> /\ Pending[f] # <<>> /\ Head(Pending[f]) = fe[f].id
  BY <1>2 DEF Pending
<1>4. PICK e : e = [id |-> fe[f].id, body |-> fe[f].res]
  OBVIOUS
<1>5. IdsOf(Append(out[f], e)) = Append(IdsOf(out[f]), fe[f].id)
  <2>1. e.id = fe[f].id
    BY <1>4
  <2> QED
    BY <1>1, <2>1, IdsOfAppend
<1>6. /\ out'[f] = Append(out[f], e) /\ \A g \in FrontEnd \ {f} : out'[g] = out[g]
  BY <1>1, <1>2, <1>4 DEF TypeOK
<1>7. Replied' = [Replied EXCEPT ![f] = Append(@, fe[f].id)]
  BY <1>5, <1>6 DEF Replied
<1>8. fe'[f].id = None /\ \A g \in FrontEnd \ {f} : fe'[g].id = fe[g].id
  BY <1>1, <1>2, IdleLoop DEF TypeOK
<1>9. Pending' = [Pending EXCEPT ![f] = <<>>]
  <2> DEFINE P == [Pending EXCEPT ![f] = <<>>]
  <2>1. Pending'[f] = <<>> /\ P[f] = <<>>
    BY <1>8 DEF Pending
  <2>2. \A g \in FrontEnd \ {f} : Pending'[g] = Pending[g] /\ P[g] = Pending[g]
    BY <1>8 DEF Pending
  <2>3. /\ Pending' = [g \in FrontEnd |-> Pending'[g]]
        /\ P = [g \in FrontEnd |-> P[g]]
    BY DEF Pending
  <2>4. \A g \in FrontEnd : Pending'[g] = P[g]
    BY <2>1, <2>2
  <2> HIDE DEF P
  <2>5. Pending' = P
    BY <2>3, <2>4
  <2> QED
    BY <2>5 DEF P
<1> QED
  BY <1>3, <1>7, <1>9

LEMMA OthersInvisible ==
  ASSUME FrontInv, NEW f \in FrontEnd, Step(f) \/ ReplyInvalid(f) \/ BatchDeadline(f) \/ Eof(f),
         ~WriteReply(f)
  PROVE  UNCHANGED <<Pending, Replied>>
<1>1. TypeOK /\ FrontGood(fe[f], out[f], Dead)
  BY DEF FrontInv, RepliesInv
<1>2. ASSUME Handled(f) PROVE UNCHANGED <<Pending, Replied>>
  BY <1>1, <1>2, HandledInvisible DEF Handled
<1>3. CASE BatchStep(f)
  <2>1. \E y : fe' = [fe EXCEPT ![f] = y] /\ y.id = fe[f].id
    BY <1>1, <1>3, BatchEffect DEF Becomes
  <2>2. UNCHANGED out
    BY <1>3 DEF BatchStep, Dispatch, ChildDone, BatchDeadline
  <2> QED
    BY <1>1, <2>1, <2>2, Invisible
<1>4. CASE Eof(f)
  <2>1. \E y : fe' = [fe EXCEPT ![f] = y] /\ y.id = fe[f].id
    BY <1>1, <1>4, EofEffect DEF Becomes
  <2>2. UNCHANGED out
    BY <1>4 DEF Eof
  <2> QED
    BY <1>1, <2>1, <2>2, Invisible
<1>5. CASE Expired(f) /\ fe'[f].pc = "open"
  <2>1. \E y : fe' = [fe EXCEPT ![f] = y] /\ y.id = fe[f].id
    BY <1>1, <1>5, DrawEffect DEF Becomes
  <2>2. UNCHANGED out
    BY <1>5 DEF Expired
  <2> QED
    BY <1>1, <2>1, <2>2, Invisible
<1>6. CASE Compensate(f)
  <2>1. \E y : fe' = [fe EXCEPT ![f] = y] /\ y.id = fe[f].id
    BY <1>1, <1>6, CompensateEffect DEF Becomes
  <2>2. UNCHANGED out
    BY <1>6 DEF Compensate
  <2> QED
    BY <1>1, <2>1, <2>2, Invisible
<1>7. CASE OpenReserve(f)
  <2>1. Handles(f) /\ UNCHANGED out
    BY <1>1, <1>7, OpenReserveHandles DEF OpenPreserves
  <2> QED
    BY <1>1, <2>1, HandledInvisible
<1>8. CASE OpenEnd(f)
  <2>1. reg[fe[f].req.name] # None
    BY <1>8 DEF FrontInv, Held, OpenEnd
  <2>2. Handles(f) /\ UNCHANGED out
    BY <1>1, <1>8, <2>1, OpenEndHandles DEF OpenPreserves
  <2> QED
    BY <1>1, <2>2, HandledInvisible
<1>9. CASE Dispatch(f) /\ fe[f].req.action # "batch"
  BY <1>1, <1>2, <1>9, DispatchHandled
<1>10. CASE Lookup(f) \/ QueryExpired(f) \/ Query(f) \/ Doctor(f) \/ Close(f) \/ CloseAll(f)
  BY <1>1, <1>2, <1>10, LookupHandled, QueryExpiredHandled, QueryHandled, DoctorHandled,
     CloseHandled, CloseAllHandled
<1>11. CASE Expire(f) \/ (Expired(f) /\ fe'[f].pc # "open") \/ GcDoctor(f) \/ GcForce(f) \/ Probe(f)
  BY <1>1, <1>2, <1>11, ExpireHandled, ExpiredHandled, GcDoctorHandled, GcForceHandled,
     ProbeHandled
<1>12. CASE Publish(f) \/ ReplyInvalid(f)
  BY <1>1, <1>2, <1>12, PublishHandled, ReplyInvalidHandled
<1> QED
  BY <1>3, <1>4, <1>5, <1>6, <1>7, <1>8, <1>9, <1>10, <1>11, <1>12 DEF Step, BatchStep

\* The loop of every front end implements the safety of SerialServer
\* (run_stdio_loop): one reply per line it took, in the order of the lines and
\* with the id of the line, and no reply nobody asked for.
THEOREM FrontServesSerially == Spec => Loops!Safety
<1>1. Init => Loops!Init
  <2>1. SUFFICES ASSUME Init PROVE Loops!Init
    OBVIOUS
  <2>2. \A f \in FrontEnd : fe[f].id = None /\ out[f] = <<>>
    BY <2>1, IdleLoop DEF Init
  <2> QED
    BY <2>2 DEF Loops!Init
<1>2. FrontInv /\ [Next]_vars => [Loops!Next]_(Loops!vars)
  <2>1. SUFFICES ASSUME FrontInv, [Next]_vars PROVE Loops!Next \/ UNCHANGED Loops!vars
    BY DEF Loops!vars
  <2>2. /\ Pending = [f \in FrontEnd |-> IF fe[f].id = None THEN <<>> ELSE <<fe[f].id>>]
        /\ Replied = [f \in FrontEnd |-> [i \in DOMAIN out[f] |-> out[f][i].id]]
        /\ Pending' = [f \in FrontEnd |-> IF fe'[f].id = None THEN <<>> ELSE <<fe'[f].id>>]
        /\ Replied' = [f \in FrontEnd |-> [i \in DOMAIN out'[f] |-> out'[f][i].id]]
    BY DEF Pending, Replied, IdsOf
  <2>3. ASSUME UNCHANGED <<Pending, Replied>> PROVE UNCHANGED Loops!vars
    BY <2>2, <2>3 DEF Loops!vars
  <2>4. ASSUME NEW f \in FrontEnd, NEW line \in AnyLine, ReadLine(f, line)
        PROVE  Loops!Next \/ UNCHANGED Loops!vars
    <3>1. CASE UNCHANGED <<Pending, Replied>>
      BY <2>3, <3>1
    <3>2. ASSUME NEW i \in LoopIds, Pending[f] = <<>>,
                 \/ Pending' = [Pending EXCEPT ![f] = <<i>>] /\ UNCHANGED Replied
                 \/ Replied' = [Replied EXCEPT ![f] = Append(@, i)] /\ UNCHANGED Pending
          PROVE  Loops!Next
      <4>1. Loops!Take(f, i) \/ Loops!Refuse(f, i)
        BY <2>2, <3>2 DEF Loops!Take, Loops!Refuse
      <4> QED
        BY <3>2, <4>1 DEF Loops!Next, LoopIds
    <3> QED
      BY <2>1, <2>4, <3>1, <3>2, ReadLineServes
  <2>5. ASSUME NEW f \in FrontEnd, WriteReply(f) PROVE Loops!Next
    <3>1. Loops!Answer(f)
      <4>1. /\ Pending[f] # <<>>
            /\ Replied' = [Replied EXCEPT ![f] = Append(@, Head(Pending[f]))]
            /\ Pending' = [Pending EXCEPT ![f] = <<>>]
        BY <2>1, <2>5, WriteReplyServes
      <4> QED
        BY <2>2, <4>1 DEF Loops!Answer
    <3> QED
      BY <3>1 DEF Loops!Next
  <2>6. ASSUME NEW f \in FrontEnd, Step(f) \/ ReplyInvalid(f) \/ BatchDeadline(f) \/ Eof(f)
        PROVE  Loops!Next \/ UNCHANGED Loops!vars
    BY <2>1, <2>3, <2>5, <2>6, OthersInvisible
  <2>7. CASE EngineDies \/ Tick \/ FileChanges \/ UNCHANGED vars
    <3>1. UNCHANGED out /\ UNCHANGED fe /\ TypeOK
      BY <2>1, <2>7 DEF EngineDies, Tick, FileChanges, vars, FrontInv
    <3> QED
      BY <2>3, <3>1, Invisible
  <2> QED
    BY <2>1, <2>4, <2>6, <2>7 DEF Next
<1> QED
  BY <1>1, <1>2, FrontendInvariant, PTL DEF Spec, Loops!Safety
==========================================================================
