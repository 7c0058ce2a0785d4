----------------------------- MODULE AxiTracker -----------------------------
(***************************************************************************)
(* The AXI transaction tracker of xdebug                                   *)
(* (waveform/axi/axi_transaction_tracker.cpp).  It consumes one sample per *)
(* clock edge and pairs AW, W and B handshakes into writes, AR and R       *)
(* handshakes into reads.  AXI lets write data arrive before its address,  *)
(* several transactions be open per id, and ids complete out of order.     *)
(*                                                                         *)
(* consume() is split where its loop is: Consume runs up to drain_w_beats, *)
(* DrainBeat is one turn of that loop, Respond is the rest.  "pc" forces   *)
(* the order, so a sample is always processed as a whole.                  *)
(*                                                                         *)
(* The deques of open transactions are sets: transactions are appended     *)
(* with increasing seq and erasing keeps the order, so the deque's order   *)
(* is the order of seq and "the first that ..." is the least seq.  Time is *)
(* the number of the sample; 0 is the code's value for a time not yet set  *)
(* and, in "begin", for a valid signal that is low.                        *)
(***************************************************************************)
EXTENDS Integers, Sequences, FiniteSets

CONSTANTS
  Ids,         \* transaction ids
  Lens,        \* expected beat counts (AxLEN + 1)
  Samples,     \* the samples the waveform may hold
  MaxSamples,  \* bound on the length of the waveform
  Idle,        \* channel input: valid is low
  Stall        \* channel input: valid without ready

(***************************************************************************)
(* AxiSample: each channel is idle, stalled or shakes hands.  B is only    *)
(* looked at when it shakes hands.  process_edge derives a handshake from  *)
(* valid and ready, so a handshake implies valid.                          *)
(***************************************************************************)
AddrBeat == [id : Ids, len : Lens]
DataBeat == [last : BOOLEAN]
ReadBeat == [id : Ids, last : BOOLEAN]

Sample == [reset : BOOLEAN,
           aw : AddrBeat \union {Idle, Stall},
           w  : DataBeat \union {Idle, Stall},
           b  : Ids \union {Idle},
           ar : AddrBeat \union {Idle, Stall},
           r  : ReadBeat \union {Idle, Stall}]

ASSUME AxiAssumption ==
  /\ Lens \subseteq Nat \ {0}
  /\ Samples \subseteq Sample
  /\ MaxSamples \in Nat
  /\ Idle # Stall
  /\ Idle \notin AddrBeat \union DataBeat \union ReadBeat \union Ids
  /\ Stall \notin AddrBeat \union DataBeat \union ReadBeat \union Ids

VARIABLES
  pc,              \* where consume() stands
  now,             \* diagnostics.sample_count, also the sample's time
  cur,             \* the sample being consumed, Idle between samples
  begin,           \* *_valid_begin_time_, 0 when *_valid_active_ is false
  next_seq,
  w_beats,         \* write data whose address has not been seen
  pending_writes,
  pending_reads,
  write_outstanding, write_outstanding_by_id,
  read_outstanding, read_outstanding_by_id,
  writes, reads,   \* completed transactions
  diag,            \* AxiDiagnostics
  peak_write_by_id, peak_read_by_id,  \* max_*_outstanding_by_id
  snapshot         \* the last element of outstanding_samples

writeVars == <<w_beats, pending_writes, write_outstanding,
               write_outstanding_by_id, writes>>
readVars == <<pending_reads, read_outstanding, read_outstanding_by_id, reads>>
peaks == <<peak_write_by_id, peak_read_by_id>>
vars == <<pc, now, cur, begin, next_seq, writeVars, readVars, diag, peaks,
          snapshot>>

Txn == [seq : Nat, id : Ids, len : Nat, begin : Nat, addr : Nat, beats : Nat,
        firstBegin : Nat, first : Nat, last : Nat, complete : BOOLEAN,
        resp : Nat, violation : BOOLEAN]
WBeat == [begin : Nat, time : Nat, last : BOOLEAN]
Begin == [aw : Nat, w : Nat, ar : Nat, r : Nat]
Snapshot == [time : Nat, read : Nat, write : Nat]
Counter == {"aw", "w", "b", "ar", "r", "orphan_b", "orphan_r", "mismatch",
            "violation", "reset_writes", "reset_reads", "reset_w_beats",
            "max_write", "max_read", "incomplete_writes", "incomplete_reads",
            "orphan_w", "buffered_bursts", "final_write", "final_read"}

TypeOK ==
  /\ pc \in {"ready", "drain", "respond", "finished"}
  /\ now \in Nat
  /\ cur \in Samples \union {Idle}
  /\ pc \in {"drain", "respond"} => cur \in Samples
  /\ begin \in Begin
  /\ next_seq \in Nat
  /\ w_beats \in Seq(WBeat)
  /\ pending_writes \subseteq Txn /\ IsFiniteSet(pending_writes)
  /\ pending_reads \subseteq Txn /\ IsFiniteSet(pending_reads)
  /\ write_outstanding \in Nat /\ read_outstanding \in Nat
  /\ write_outstanding_by_id \in [Ids -> Nat]
  /\ read_outstanding_by_id \in [Ids -> Nat]
  /\ writes \subseteq Txn /\ IsFiniteSet(writes)
  /\ reads \subseteq Txn /\ IsFiniteSet(reads)
  /\ diag \in [Counter -> Nat]
  /\ peak_write_by_id \in [Ids -> Nat] /\ peak_read_by_id \in [Ids -> Nat]
  /\ snapshot \in Snapshot

Init ==
  /\ pc = "ready"
  /\ now = 0
  /\ cur = Idle
  /\ begin = [aw |-> 0, w |-> 0, ar |-> 0, r |-> 0]
  /\ next_seq = 0
  /\ w_beats = <<>>
  /\ pending_writes = {} /\ pending_reads = {}
  /\ write_outstanding = 0 /\ read_outstanding = 0
  /\ write_outstanding_by_id = [i \in Ids |-> 0]
  /\ read_outstanding_by_id = [i \in Ids |-> 0]
  /\ writes = {} /\ reads = {}
  /\ diag = [c \in Counter |-> 0]
  /\ peak_write_by_id = [i \in Ids |-> 0]
  /\ peak_read_by_id = [i \in Ids |-> 0]
  /\ snapshot = [time |-> 0, read |-> 0, write |-> 0]

-----------------------------------------------------------------------------
\* Defect: the counter is not decremented.
DecrementOmitted(n) == n

Larger(a, b) == IF a >= b THEN a ELSE b
Decrement(n) == IF n > 0 THEN n - 1 ELSE 0

\* Defect: the deque is searched from its end.
FirstFromEnd(txns) == CHOOSE t \in txns : \A u \in txns : t.seq >= u.seq

\* The element a std::find_if over the deque returns.
First(txns) == CHOOSE t \in txns : \A u \in txns : t.seq <= u.seq

\* The transactions of one id.
OfId(txns, id) == {t \in txns : t.id = id}

\* track_valid_begin
Track(input, since, time) ==
  IF input = Idle THEN 0 ELSE IF since = 0 THEN time ELSE since

NewTxn(seq, a, since, time) ==
  [seq |-> seq, id |-> a.id, len |-> a.len, begin |-> since, addr |-> time,
   beats |-> 0, firstBegin |-> 0, first |-> 0, last |-> 0, complete |-> FALSE,
   resp |-> 0, violation |-> FALSE]

\* A data beat is appended to a transaction.
AddBeat(t, time, since) ==
  [t EXCEPT !.beats = @ + 1,
            !.first = IF t.beats = 0 THEN time ELSE @,
            !.firstBegin = IF t.beats = 0 THEN since ELSE @,
            !.last = time]

-----------------------------------------------------------------------------
\* clear_for_reset; a reset sample takes no snapshot.
ConsumeReset(s) ==
  /\ pc = "ready"
  /\ now < MaxSamples
  /\ s.reset
  /\ now' = now + 1
  /\ diag' = [diag EXCEPT
       !["reset_writes"] = @ + Cardinality(pending_writes),
       !["reset_reads"] = @ + Cardinality(pending_reads),
       !["reset_w_beats"] = @ + Len(w_beats)]
  /\ w_beats' = <<>>
  /\ pending_writes' = {} /\ pending_reads' = {}
  /\ write_outstanding' = 0 /\ read_outstanding' = 0
  /\ write_outstanding_by_id' = [i \in Ids |-> 0]
  /\ read_outstanding_by_id' = [i \in Ids |-> 0]
  /\ begin' = [aw |-> 0, w |-> 0, ar |-> 0, r |-> 0]
  /\ UNCHANGED <<pc, cur, next_seq, writes, reads, peaks, snapshot>>

AcceptAw(s, seq) ==
  IF s.aw \in AddrBeat
  THEN /\ pending_writes' = pending_writes \union
            {NewTxn(seq, s.aw, Track(s.aw, begin.aw, now + 1), now + 1)}
       /\ write_outstanding' = write_outstanding + 1
       /\ write_outstanding_by_id' =
            [write_outstanding_by_id EXCEPT ![s.aw.id] = @ + 1]
       /\ peak_write_by_id' = [peak_write_by_id EXCEPT
            ![s.aw.id] = Larger(@, write_outstanding_by_id[s.aw.id] + 1)]
  ELSE UNCHANGED <<pending_writes, write_outstanding, write_outstanding_by_id,
                   peak_write_by_id>>

AcceptAr(s, seq) ==
  IF s.ar \in AddrBeat
  THEN /\ pending_reads' = pending_reads \union
            {NewTxn(seq, s.ar, Track(s.ar, begin.ar, now + 1), now + 1)}
       /\ read_outstanding' = read_outstanding + 1
       /\ read_outstanding_by_id' =
            [read_outstanding_by_id EXCEPT ![s.ar.id] = @ + 1]
       /\ peak_read_by_id' = [peak_read_by_id EXCEPT
            ![s.ar.id] = Larger(@, read_outstanding_by_id[s.ar.id] + 1)]
  ELSE UNCHANGED <<pending_reads, read_outstanding, read_outstanding_by_id,
                   peak_read_by_id>>

AcceptW(s) ==
  IF s.w \in DataBeat
  THEN w_beats' = Append(w_beats, [begin |-> Track(s.w, begin.w, now + 1),
                                   time |-> now + 1, last |-> s.w.last])
  ELSE UNCHANGED w_beats

\* Defect: the phase after a handshake inherits the begin of the one before.
NextBeginInherited(shaken, input, since) == Track(input, since, now + 1)

\* The begin time a channel keeps: a handshake ends its valid phase.
NextBegin(shaken, input, since) ==
  IF shaken THEN 0 ELSE Track(input, since, now + 1)

\* consume() up to drain_w_beats(): the valid signals are tracked, then AW,
\* AR and W handshakes are taken in this order.
Consume(s) ==
  LET aws == IF s.aw \in AddrBeat THEN 1 ELSE 0
      ars == IF s.ar \in AddrBeat THEN 1 ELSE 0
      ws == IF s.w \in DataBeat THEN 1 ELSE 0
  IN /\ pc = "ready"
     /\ now < MaxSamples
     /\ ~s.reset
     /\ pc' = "drain"
     /\ now' = now + 1
     /\ cur' = s
     /\ AcceptAw(s, next_seq + 1)
     /\ AcceptAr(s, next_seq + aws + 1)
     /\ AcceptW(s)
     /\ next_seq' = next_seq + aws + ars
     /\ begin' =
          [aw |-> NextBegin(aws = 1, s.aw, begin.aw),
           w |-> NextBegin(ws = 1, s.w, begin.w),
           ar |-> NextBegin(ars = 1, s.ar, begin.ar),
           r |-> Track(s.r, begin.r, now + 1)]
     /\ diag' = [diag EXCEPT
          !["aw"] = @ + aws, !["ar"] = @ + ars, !["w"] = @ + ws,
          !["max_write"] = IF aws = 1 THEN Larger(@, write_outstanding + 1)
                           ELSE @,
          !["max_read"] = IF ars = 1 THEN Larger(@, read_outstanding + 1)
                          ELSE @]
     /\ UNCHANGED <<writes, reads, snapshot>>

Unfinished == {t \in pending_writes : ~t.complete}

\* One turn of drain_w_beats(): the oldest buffered beat goes to the first
\* write whose data is not complete.
DrainBeat ==
  LET beat == Head(w_beats)
      t == First(Unfinished)
      u == [AddBeat(t, beat.time, beat.begin) EXCEPT !.complete = beat.last]
  IN /\ pc = "drain"
     /\ w_beats # <<>> /\ Unfinished # {}
     /\ w_beats' = Tail(w_beats)
     /\ pending_writes' = (pending_writes \ {t}) \union {u}
     /\ diag' = [diag EXCEPT
          !["mismatch"] = IF beat.last /\ u.beats # t.len THEN @ + 1 ELSE @]
     /\ UNCHANGED <<pc, now, cur, begin, next_seq, write_outstanding,
                    write_outstanding_by_id, writes, readVars, peaks,
                    snapshot>>

DrainDone ==
  /\ pc = "drain"
  /\ w_beats = <<>> \/ Unfinished = {}
  /\ pc' = "respond"
  /\ UNCHANGED <<now, cur, begin, next_seq, writeVars, readVars, diag, peaks,
                 snapshot>>

Answerable(id) == {t \in pending_writes : t.complete /\ t.id = id}

\* Defect: the completed write is not erased from the deque.
CompleteWriteKeeps(id) ==
  LET t == First(Answerable(id))
  IN /\ write_outstanding' = Decrement(write_outstanding)
     /\ write_outstanding_by_id' =
          [write_outstanding_by_id EXCEPT ![t.id] = Decrement(@)]
     /\ writes' = writes \union {[t EXCEPT !.resp = now]}
     /\ UNCHANGED pending_writes

\* complete_write, with the "violation" increment it makes.
CompleteWrite(id) ==
  LET t == First(Answerable(id))
      early == now <= t.addr \/ now <= t.last
  IN /\ write_outstanding' = Decrement(write_outstanding)
     /\ write_outstanding_by_id' =
          [write_outstanding_by_id EXCEPT ![t.id] = Decrement(@)]
     /\ pending_writes' = pending_writes \ {t}
     /\ writes' = writes \union
                    {[t EXCEPT !.resp = now, !.violation = early]}

EarlyResponse(id) ==
  LET t == First(Answerable(id)) IN now <= t.addr \/ now <= t.last

OpenReads(id) == OfId(pending_reads, id)

\* complete_read: the beat goes to the oldest open read of its id.
CompleteRead(beat) ==
  LET t == First(OpenReads(beat.id))
      u == AddBeat(t, now, begin.r)
  IN /\ pending_reads' = IF beat.last THEN pending_reads \ {t}
                         ELSE (pending_reads \ {t}) \union {u}
     /\ reads' = IF beat.last
                 THEN reads \union {[u EXCEPT !.complete = TRUE, !.resp = now]}
                 ELSE reads
     /\ read_outstanding' = IF beat.last THEN Decrement(read_outstanding)
                            ELSE read_outstanding
     /\ read_outstanding_by_id' =
          IF beat.last
          THEN [read_outstanding_by_id EXCEPT ![t.id] = Decrement(@)]
          ELSE read_outstanding_by_id

ShortOrLongRead(beat) ==
  beat.last /\ LET t == First(OpenReads(beat.id)) IN t.beats + 1 # t.len

\* The rest of consume(): B, R and the outstanding snapshot.
Respond ==
  LET bShake == cur.b \in Ids
      bFound == bShake /\ Answerable(cur.b) # {}
      rShake == cur.r \in ReadBeat
      rFound == rShake /\ OpenReads(cur.r.id) # {}
      One(cond) == IF cond THEN 1 ELSE 0
  IN /\ pc = "respond"
     /\ pc' = "ready"
     /\ IF bFound THEN CompleteWrite(cur.b)
        ELSE UNCHANGED <<write_outstanding, write_outstanding_by_id,
                         pending_writes, writes>>
     /\ IF rFound THEN CompleteRead(cur.r) ELSE UNCHANGED readVars
     /\ begin' = IF rShake THEN [begin EXCEPT !.r = 0] ELSE begin
     /\ diag' = [diag EXCEPT
          !["b"] = @ + One(bShake),
          !["r"] = @ + One(rShake),
          !["orphan_b"] = @ + One(bShake /\ ~bFound),
          !["orphan_r"] = @ + One(rShake /\ ~rFound),
          !["violation"] = @ + One(bFound /\ EarlyResponse(cur.b)),
          !["mismatch"] = @ + One(rFound /\ ShortOrLongRead(cur.r))]
     /\ snapshot' = [time |-> now, read |-> read_outstanding',
                     write |-> write_outstanding']
     /\ cur' = Idle
     /\ UNCHANGED <<now, next_seq, w_beats, peaks>>

\* finish()
Finish ==
  /\ pc = "ready"
  /\ pc' = "finished"
  /\ diag' = [diag EXCEPT
       !["incomplete_writes"] = Cardinality(pending_writes),
       !["incomplete_reads"] = Cardinality(pending_reads),
       !["orphan_w"] = Len(w_beats),
       !["buffered_bursts"] =
          Cardinality({n \in DOMAIN w_beats : w_beats[n].last}),
       !["final_write"] = write_outstanding,
       !["final_read"] = read_outstanding]
  /\ UNCHANGED <<now, cur, begin, next_seq, writeVars, readVars, peaks,
                 snapshot>>

Next ==
  \/ \E s \in Samples : ConsumeReset(s) \/ Consume(s)
  \/ DrainBeat \/ DrainDone \/ Respond \/ Finish

Spec == Init /\ [][Next]_vars

-----------------------------------------------------------------------------
(***************************************************************************)
(* Properties.                                                             *)
(***************************************************************************)
Exact(total, by_id, open) ==
  /\ total = Cardinality(open)
  /\ \A i \in Ids : by_id[i] = Cardinality(OfId(open, i))

\* The incrementally kept outstanding counters are the number of open
\* transactions, in total and per id, at every point of consume(), over
\* resets and orphan responses; the clamping in dec_outstanding never hides
\* a missing transaction.
OutstandingExact ==
  /\ Exact(write_outstanding, write_outstanding_by_id, pending_writes)
  /\ Exact(read_outstanding, read_outstanding_by_id, pending_reads)

\* Every address handshake ends up as exactly one transaction: still open,
\* completed, or counted as dropped by a reset; and every B handshake
\* completed a write or is counted as an orphan.
NothingLost ==
  /\ diag["aw"] = Cardinality(pending_writes) + Cardinality(writes)
                    + diag["reset_writes"]
  /\ diag["ar"] = Cardinality(pending_reads) + Cardinality(reads)
                    + diag["reset_reads"]
  /\ diag["b"] = Cardinality(writes) + diag["orphan_b"]

\* Write data is attributed in address order: a write with data comes before
\* every write without, only the first unfinished write may be partly filled,
\* and no beat waits while a write could take it once drain_w_beats is done.
DataInAddressOrder ==
  /\ \A t, u \in pending_writes :
       t.seq < u.seq => (u.complete => t.complete) /\ (u.beats > 0 => t.complete)
  /\ pc # "drain" => w_beats = <<>> \/ Unfinished = {}

SameIdInOrder(open, completed) ==
  \A t \in completed :
    /\ \A u \in open : u.id = t.id => t.seq < u.seq
    /\ \A u \in completed : u.id = t.id /\ t.seq < u.seq => t.resp < u.resp

\* No overtaking within an id: a transaction that complete_write or
\* complete_read completed is older than every open one of its id, and the
\* completions of an id follow address order.
SameIdOrder == SameIdInOrder(pending_writes, writes) /\
               SameIdInOrder(pending_reads, reads)

\* No two valid phases of a channel share a sample: the phase a handshake
\* ends began after every earlier handshake of its channel.
PhasesApart ==
  /\ \A t, u \in writes : t.seq < u.seq => t.addr < u.begin /\ t.last < u.firstBegin
  /\ \A t, u \in reads :
       /\ t.seq < u.seq => t.addr < u.begin
       /\ t.first < u.first => t.first < u.firstBegin
       /\ t.last < u.first => t.last < u.firstBegin

\* The times of a completed transaction are ordered, so transaction_latency
\* never takes its "0" branch and a latency is never negative: the address
\* comes no later than the response, data no later than the response, and
\* each valid phase begins no later than its handshake and after the
\* handshakes of its channel before (*_valid_begin_time_).
TimesOrdered ==
  /\ \A t \in writes \union reads :
       /\ t.begin <= t.addr /\ t.addr <= t.resp
       /\ t.firstBegin <= t.first /\ t.first <= t.last /\ t.last <= t.resp
       /\ 0 < t.begin /\ 0 < t.firstBegin
  /\ PhasesApart

\* seq identifies a transaction across both directions, and a transaction is
\* open or completed, never both (seq is the tie-break of txn_addr_less and
\* latency_rank_better).
SeqUnique ==
  /\ \A t, u \in pending_writes \union writes \union pending_reads \union reads :
       t.seq = u.seq => t = u
  /\ pending_writes \intersect writes = {}
  /\ pending_reads \intersect reads = {}
  /\ (pending_writes \union writes) \intersect (pending_reads \union reads) = {}
=============================================================================
