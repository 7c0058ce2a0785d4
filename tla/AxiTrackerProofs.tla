-------------------------- MODULE AxiTrackerProofs --------------------------
(***************************************************************************)
(* Proofs about AxiTracker for every set of ids, burst lengths and samples *)
(* and waveforms of any length.                                            *)
(***************************************************************************)
EXTENDS AxiTracker, FiniteSetTheorems, WellFoundedInduction, TLAPS

-----------------------------------------------------------------------------
(***************************************************************************)
(* Facts about the operators of the model.                                 *)
(***************************************************************************)
LEMMA Least ==
  ASSUME NEW S \in SUBSET Nat, S # {}
  PROVE  \E n \in S : \A m \in S : n <= m
<1> DEFINE R == {p \in Nat \X Nat : p[1] < p[2]}
<1>1. R = OpToRel(<, Nat)
  BY DEF OpToRel
<1>2. IsWellFoundedOn(R, Nat)
  BY <1>1, NatLessThanWellFounded
<1> HIDE DEF R
<1>3. PICK n \in S : \A m \in S : ~(<<m, n>> \in R)
  BY <1>2, WFMin
<1>4. \A m \in Nat : m < n => <<m, n>> \in R
  BY DEF R
<1>5. \A m \in S : ~(m < n)
  BY <1>3, <1>4
<1>6. \A m \in S : n <= m
  BY <1>5
<1>7. QED
  BY <1>6

\* std::find_if over a deque that holds a match finds the oldest match.
LEMMA FirstIsOldest ==
  ASSUME NEW T \in SUBSET Txn, T # {}
  PROVE  First(T) \in T /\ \A u \in T : First(T).seq <= u.seq
<1> DEFINE seqs == {t.seq : t \in T}
<1>1. seqs \in SUBSET Nat /\ seqs # {}
  BY DEF Txn
<1>2. PICK n \in seqs : \A m \in seqs : n <= m
  BY <1>1, Least
<1>3. \E t \in T : \A u \in T : t.seq <= u.seq
  BY <1>2
<1>4. QED
  BY <1>3 DEF First

LEMMA NewTxnType ==
  ASSUME NEW seq \in Nat, NEW a \in AddrBeat, NEW since \in Nat, NEW time \in Nat
  PROVE  /\ NewTxn(seq, a, since, time) \in Txn
         /\ NewTxn(seq, a, since, time).seq = seq
         /\ NewTxn(seq, a, since, time).id = a.id
BY AxiAssumption DEF NewTxn, Txn, AddrBeat

LEMMA AddBeatType ==
  ASSUME NEW t \in Txn, NEW time \in Nat, NEW since \in Nat
  PROVE  /\ AddBeat(t, time, since) \in Txn
         /\ AddBeat(t, time, since).seq = t.seq
         /\ AddBeat(t, time, since).id = t.id
<1> DEFINE first == IF t.beats = 0 THEN time ELSE t.first
           firstBegin == IF t.beats = 0 THEN since ELSE t.firstBegin
           beats == t.beats + 1
<1>1. beats \in Nat /\ first \in Nat /\ firstBegin \in Nat
  BY DEF Txn
<1>2. AddBeat(t, time, since) =
        [t EXCEPT !.beats = beats, !.first = first, !.firstBegin = firstBegin,
                  !.last = time]
  BY DEF AddBeat, Txn
<1> HIDE DEF first, firstBegin, beats
<1>3. QED
  BY <1>1, <1>2 DEF Txn

LEMMA TrackType ==
  ASSUME NEW input, NEW since \in Nat, NEW time \in Nat
  PROVE  Track(input, since, time) \in Nat
BY DEF Track

(***************************************************************************)
(* How the counters follow the set of open transactions.                   *)
(***************************************************************************)
LEMMA ExactEmpty == Exact(0, [i \in Ids |-> 0], {})
<1>1. \A i \in Ids : OfId({}, i) = {}
  BY DEF OfId
<1>2. QED
  BY <1>1, FS_EmptySet DEF Exact

LEMMA ExactAdd ==
  ASSUME NEW S, IsFiniteSet(S), NEW x, x \notin S, x.id \in Ids,
         NEW n \in Nat, NEW byId \in [Ids -> Nat], Exact(n, byId, S)
  PROVE  /\ IsFiniteSet(S \union {x})
         /\ Cardinality(S \union {x}) = Cardinality(S) + 1
         /\ Exact(n + 1, [byId EXCEPT ![x.id] = @ + 1], S \union {x})
<1>1. /\ IsFiniteSet(S \union {x})
      /\ Cardinality(S \union {x}) = Cardinality(S) + 1
  BY FS_AddElement
<1>2. ASSUME NEW i \in Ids
      PROVE  [byId EXCEPT ![x.id] = @ + 1][i] = Cardinality(OfId(S \union {x}, i))
  <2>1. IsFiniteSet(OfId(S, i)) /\ byId[i] = Cardinality(OfId(S, i))
    BY FS_Subset DEF OfId, Exact
  <2>2. CASE x.id = i
    <3>1. OfId(S \union {x}, i) = OfId(S, i) \union {x} /\ x \notin OfId(S, i)
      BY <2>2 DEF OfId
    <3>2. QED
      BY <2>1, <2>2, <3>1, FS_AddElement
  <2>3. CASE x.id # i
    <3>1. OfId(S \union {x}, i) = OfId(S, i)
      BY <2>3 DEF OfId
    <3>2. QED
      BY <2>1, <2>3, <3>1
  <2>4. QED
    BY <2>2, <2>3
<1>3. QED
  BY <1>1, <1>2 DEF Exact

LEMMA ExactRemove ==
  ASSUME NEW S, IsFiniteSet(S), NEW x \in S, x.id \in Ids,
         NEW n \in Nat, NEW byId \in [Ids -> Nat], Exact(n, byId, S)
  PROVE  /\ IsFiniteSet(S \ {x})
         /\ Cardinality(S \ {x}) = Cardinality(S) - 1
         /\ Exact(Decrement(n), [byId EXCEPT ![x.id] = Decrement(@)], S \ {x})
<1>1. /\ IsFiniteSet(S \ {x})
      /\ Cardinality(S \ {x}) = Cardinality(S) - 1
      /\ Cardinality(S \ {x}) \in Nat
  BY FS_RemoveElement, FS_CardinalityType
<1>2. ASSUME NEW i \in Ids
      PROVE  [byId EXCEPT ![x.id] = Decrement(@)][i] =
               Cardinality(OfId(S \ {x}, i))
  <2>1. IsFiniteSet(OfId(S, i)) /\ byId[i] = Cardinality(OfId(S, i))
    BY FS_Subset DEF OfId, Exact
  <2>2. CASE x.id = i
    <3>1. OfId(S \ {x}, i) = OfId(S, i) \ {x} /\ x \in OfId(S, i)
      BY <2>2 DEF OfId
    <3>2. /\ Cardinality(OfId(S \ {x}, i)) = byId[i] - 1
          /\ Cardinality(OfId(S \ {x}, i)) \in Nat
      BY <2>1, <3>1, FS_RemoveElement, FS_CardinalityType
    <3>3. QED
      BY <2>2, <3>2 DEF Decrement
  <2>3. CASE x.id # i
    <3>1. OfId(S \ {x}, i) = OfId(S, i)
      BY <2>3 DEF OfId
    <3>2. QED
      BY <2>1, <2>3, <3>1
  <2>4. QED
    BY <2>2, <2>3
<1>3. Decrement(n) = Cardinality(S \ {x})
  BY <1>1 DEF Exact, Decrement
<1>4. QED
  BY <1>1, <1>2, <1>3 DEF Exact

LEMMA ExactReplace ==
  ASSUME NEW S, IsFiniteSet(S), NEW x \in S, NEW y, y \notin S \ {x},
         y.id = x.id, NEW n, NEW byId, Exact(n, byId, S)
  PROVE  /\ IsFiniteSet((S \ {x}) \union {y})
         /\ Cardinality((S \ {x}) \union {y}) = Cardinality(S)
         /\ Exact(n, byId, (S \ {x}) \union {y})
<1> DEFINE T == (S \ {x}) \union {y}
<1>1. IsFiniteSet(T) /\ Cardinality(T) = Cardinality(S)
  <2>1. IsFiniteSet(S \ {x}) /\ Cardinality(S \ {x}) = Cardinality(S) - 1
    BY FS_RemoveElement
  <2>2. Cardinality(S) \in Nat
    BY FS_CardinalityType
  <2>3. IsFiniteSet(T) /\ Cardinality(T) = Cardinality(S \ {x}) + 1
    BY <2>1, FS_AddElement
  <2>4. QED
    BY <2>1, <2>2, <2>3
<1>2. ASSUME NEW i \in Ids PROVE Cardinality(OfId(T, i)) = Cardinality(OfId(S, i))
  <2>1. IsFiniteSet(OfId(S, i)) /\ Cardinality(OfId(S, i)) \in Nat
    BY FS_Subset, FS_CardinalityType DEF OfId
  <2>2. CASE x.id = i
    <3>1. /\ OfId(T, i) = (OfId(S, i) \ {x}) \union {y}
          /\ x \in OfId(S, i) /\ y \notin OfId(S, i) \ {x}
      BY <2>2 DEF OfId
    <3>2. /\ IsFiniteSet(OfId(S, i) \ {x})
          /\ Cardinality(OfId(S, i) \ {x}) = Cardinality(OfId(S, i)) - 1
      BY <2>1, <3>1, FS_RemoveElement
    <3>3. Cardinality(OfId(T, i)) = Cardinality(OfId(S, i) \ {x}) + 1
      BY <3>1, <3>2, FS_AddElement
    <3>4. QED
      BY <2>1, <3>2, <3>3
  <2>3. CASE x.id # i
    BY <2>3 DEF OfId
  <2>4. QED
    BY <2>2, <2>3
<1>3. QED
  BY <1>1, <1>2 DEF Exact

-----------------------------------------------------------------------------
(***************************************************************************)
(* Types.                                                                  *)
(***************************************************************************)
LEMMA InitType == Init => TypeOK
<1> SUFFICES ASSUME Init PROVE TypeOK
  OBVIOUS
<1>1. IsFiniteSet({})
  BY FS_EmptySet
<1>2. QED
  BY <1>1 DEF Init, TypeOK, Begin, Snapshot, Counter

LEMMA ResetType ==
  ASSUME TypeOK, NEW s \in Samples, ConsumeReset(s)
  PROVE  TypeOK'
<1>1. /\ Cardinality(pending_writes) \in Nat /\ Cardinality(pending_reads) \in Nat
      /\ Len(w_beats) \in Nat
      /\ IsFiniteSet({})
  BY FS_CardinalityType, FS_EmptySet DEF TypeOK
<1>2. diag' \in [Counter -> Nat]
  <2>1. /\ diag \in [Counter -> Nat]
        /\ {"reset_writes", "reset_reads", "reset_w_beats"} \subseteq Counter
    BY DEF TypeOK, Counter
  <2> DEFINE a == Cardinality(pending_writes)
             b == Cardinality(pending_reads)
             c == Len(w_beats)
  <2>2. diag' = [diag EXCEPT !["reset_writes"] = @ + a, !["reset_reads"] = @ + b,
                             !["reset_w_beats"] = @ + c]
    BY DEF ConsumeReset
  <2>3. a \in Nat /\ b \in Nat /\ c \in Nat
    BY <1>1
  <2> HIDE DEF a, b, c
  <2>4. QED
    BY <2>1, <2>2, <2>3
<1>3. begin' \in Begin
  BY DEF ConsumeReset, Begin
<1>4. /\ w_beats' \in Seq(WBeat)
      /\ pending_writes' = {} /\ pending_reads' = {}
      /\ write_outstanding' \in Nat /\ read_outstanding' \in Nat
      /\ write_outstanding_by_id' \in [Ids -> Nat]
      /\ read_outstanding_by_id' \in [Ids -> Nat]
      /\ now' \in Nat
  BY DEF ConsumeReset, TypeOK
<1>5. UNCHANGED <<pc, cur, next_seq, writes, reads, peak_write_by_id,
                  peak_read_by_id, snapshot>>
  BY DEF ConsumeReset, peaks
<1>6. QED
  BY <1>1, <1>2, <1>3, <1>4, <1>5 DEF TypeOK

LEMMA ConsumeType ==
  ASSUME TypeOK, NEW s \in Samples, Consume(s)
  PROVE  TypeOK'
<1> DEFINE aws == IF s.aw \in AddrBeat THEN 1 ELSE 0
           ars == IF s.ar \in AddrBeat THEN 1 ELSE 0
           ws == IF s.w \in DataBeat THEN 1 ELSE 0
           T(ch, since) == Track(ch, since, now + 1)
<1>1. /\ begin.aw \in Nat /\ begin.w \in Nat /\ begin.ar \in Nat
      /\ begin.r \in Nat /\ now \in Nat /\ next_seq \in Nat
  BY DEF TypeOK, Begin
<1>2. /\ T(s.aw, begin.aw) \in Nat /\ T(s.w, begin.w) \in Nat
      /\ T(s.ar, begin.ar) \in Nat /\ T(s.r, begin.r) \in Nat
  BY <1>1, TrackType
<1>3. /\ pending_writes' \subseteq Txn /\ IsFiniteSet(pending_writes')
      /\ write_outstanding' \in Nat
      /\ write_outstanding_by_id' \in [Ids -> Nat]
      /\ peak_write_by_id' \in [Ids -> Nat]
  <2>1. AcceptAw(s, next_seq + 1)
    BY DEF Consume
  <2>2. CASE s.aw \in AddrBeat
    <3>0. next_seq + 1 \in Nat /\ now + 1 \in Nat
      BY <1>1
    <3>1. NewTxn(next_seq + 1, s.aw, T(s.aw, begin.aw), now + 1) \in Txn
      <4> HIDE DEF T
      <4>1. QED
        BY <3>0, <1>2, <2>2, NewTxnType
    <3>2. s.aw.id \in Ids
      BY <2>2 DEF AddrBeat
    <3>3. /\ pending_writes' = pending_writes \union
                {NewTxn(next_seq + 1, s.aw, T(s.aw, begin.aw), now + 1)}
          /\ write_outstanding' = write_outstanding + 1
          /\ write_outstanding_by_id' =
               [write_outstanding_by_id EXCEPT ![s.aw.id] = @ + 1]
          /\ peak_write_by_id' = [peak_write_by_id EXCEPT
               ![s.aw.id] = Larger(@, write_outstanding_by_id[s.aw.id] + 1)]
      BY <2>1, <2>2 DEF AcceptAw
    <3>4. /\ pending_writes \subseteq Txn /\ IsFiniteSet(pending_writes)
          /\ write_outstanding \in Nat /\ write_outstanding_by_id \in [Ids -> Nat]
          /\ peak_write_by_id \in [Ids -> Nat]
      BY DEF TypeOK
    <3>5. pending_writes' \subseteq Txn /\ IsFiniteSet(pending_writes')
      BY <3>1, <3>3, <3>4, FS_AddElement
    <3>6. QED
      BY <3>2, <3>3, <3>4, <3>5 DEF Larger
  <2>3. CASE s.aw \notin AddrBeat
    BY <2>1, <2>3 DEF AcceptAw, TypeOK
  <2>4. QED
    BY <2>2, <2>3
<1>4. /\ pending_reads' \subseteq Txn /\ IsFiniteSet(pending_reads')
      /\ read_outstanding' \in Nat
      /\ read_outstanding_by_id' \in [Ids -> Nat]
      /\ peak_read_by_id' \in [Ids -> Nat]
  <2>1. AcceptAr(s, next_seq + aws + 1) /\ next_seq + aws + 1 \in Nat
    BY <1>1 DEF Consume
  <2>2. CASE s.ar \in AddrBeat
    <3>1. NewTxn(next_seq + aws + 1, s.ar, T(s.ar, begin.ar), now + 1) \in Txn
      <4> HIDE DEF aws, T
      <4>1. now + 1 \in Nat
        BY <1>1
      <4>2. QED
        BY <1>2, <2>1, <2>2, <4>1, NewTxnType
    <3>2. s.ar.id \in Ids
      BY <2>2 DEF AddrBeat
    <3>3. /\ pending_reads' = pending_reads \union
                {NewTxn(next_seq + aws + 1, s.ar, T(s.ar, begin.ar), now + 1)}
          /\ read_outstanding' = read_outstanding + 1
          /\ read_outstanding_by_id' =
               [read_outstanding_by_id EXCEPT ![s.ar.id] = @ + 1]
          /\ peak_read_by_id' = [peak_read_by_id EXCEPT
               ![s.ar.id] = Larger(@, read_outstanding_by_id[s.ar.id] + 1)]
      BY <2>1, <2>2 DEF AcceptAr
    <3>4. /\ pending_reads \subseteq Txn /\ IsFiniteSet(pending_reads)
          /\ read_outstanding \in Nat /\ read_outstanding_by_id \in [Ids -> Nat]
          /\ peak_read_by_id \in [Ids -> Nat]
      BY DEF TypeOK
    <3>5. pending_reads' \subseteq Txn /\ IsFiniteSet(pending_reads')
      BY <3>1, <3>3, <3>4, FS_AddElement
    <3>6. QED
      BY <3>2, <3>3, <3>4, <3>5 DEF Larger
  <2>3. CASE s.ar \notin AddrBeat
    BY <2>1, <2>3 DEF AcceptAr, TypeOK
  <2>4. QED
    BY <2>2, <2>3
<1>5. w_beats' \in Seq(WBeat)
  <2>1. CASE s.w \in DataBeat
    <3>1. [begin |-> T(s.w, begin.w), time |-> now + 1, last |-> s.w.last] \in WBeat
      BY <1>1, <1>2, <2>1 DEF WBeat, DataBeat
    <3>2. w_beats \in Seq(WBeat)
      BY DEF TypeOK
    <3>3. w_beats' = Append(w_beats, [begin |-> T(s.w, begin.w), time |-> now + 1,
                                      last |-> s.w.last])
      BY <2>1 DEF Consume, AcceptW
    <3>4. QED
      BY <3>1, <3>2, <3>3
  <2>2. CASE s.w \notin DataBeat
    BY <2>2 DEF Consume, AcceptW, TypeOK
  <2>3. QED
    BY <2>1, <2>2
<1>6. begin' \in Begin
  <2> HIDE DEF T
  <2>1. begin' = [aw |-> IF aws = 1 THEN 0 ELSE T(s.aw, begin.aw),
                  w |-> IF ws = 1 THEN 0 ELSE T(s.w, begin.w),
                  ar |-> IF ars = 1 THEN 0 ELSE T(s.ar, begin.ar),
                  r |-> T(s.r, begin.r)]
    BY DEF Consume, NextBegin, T
  <2>2. QED
    BY <1>2, <2>1 DEF Begin
<1>7. diag' \in [Counter -> Nat]
  <2> DEFINE mw == IF aws = 1 THEN Larger(diag["max_write"], write_outstanding + 1)
                   ELSE diag["max_write"]
             mr == IF ars = 1 THEN Larger(diag["max_read"], read_outstanding + 1)
                   ELSE diag["max_read"]
  <2>1. aws \in Nat /\ ars \in Nat /\ ws \in Nat /\ mw \in Nat /\ mr \in Nat
    BY DEF TypeOK, Larger, Counter
  <2>2. diag' = [diag EXCEPT !["aw"] = @ + aws, !["ar"] = @ + ars, !["w"] = @ + ws,
                             !["max_write"] = mw, !["max_read"] = mr]
    BY DEF Consume, TypeOK, Counter
  <2> HIDE DEF aws, ars, ws, mw, mr
  <2>3. /\ diag \in [Counter -> Nat]
        /\ {"aw", "ar", "w", "max_write", "max_read"} \subseteq Counter
    BY DEF TypeOK, Counter
  <2>4. QED
    BY <2>1, <2>2, <2>3
<1>8. next_seq' \in Nat /\ now' \in Nat
  BY <1>1 DEF Consume
<1>9. QED
  BY <1>3, <1>4, <1>5, <1>6, <1>7, <1>8 DEF Consume, TypeOK

LEMMA DrainType ==
  ASSUME TypeOK, DrainBeat
  PROVE  /\ TypeOK'
         /\ \E t \in pending_writes, u \in Txn :
              /\ u.seq = t.seq /\ u.id = t.id
              /\ pending_writes' = (pending_writes \ {t}) \union {u}
<1> DEFINE beat == Head(w_beats)
           t == First(Unfinished)
           u == [AddBeat(t, beat.time, beat.begin) EXCEPT !.complete = beat.last]
<1>1. beat \in WBeat /\ Tail(w_beats) \in Seq(WBeat)
  BY DEF TypeOK, DrainBeat
<1>2. t \in pending_writes /\ t \in Txn
  BY FirstIsOldest DEF TypeOK, DrainBeat, Unfinished
<1>3. u \in Txn /\ u.seq = t.seq /\ u.id = t.id
  <2> DEFINE v == AddBeat(t, beat.time, beat.begin)
  <2>1. v \in Txn /\ v.seq = t.seq /\ v.id = t.id
    BY <1>1, <1>2, AddBeatType DEF WBeat
  <2>2. beat.last \in BOOLEAN
    BY <1>1 DEF WBeat
  <2> HIDE DEF v, beat, t
  <2>3. QED
    BY <2>1, <2>2 DEF Txn, v
<1>4. pending_writes' = (pending_writes \ {t}) \union {u}
  BY DEF DrainBeat
<1> HIDE DEF t, u
<1>5. pending_writes' \subseteq Txn /\ IsFiniteSet(pending_writes')
  BY <1>3, <1>4, FS_RemoveElement, FS_AddElement DEF TypeOK
<1>6. diag' \in [Counter -> Nat]
  <2>1. diag \in [Counter -> Nat] /\ "mismatch" \in Counter
    BY DEF TypeOK, Counter
  <2>2. QED
    BY <2>1 DEF DrainBeat
<1>7. TypeOK'
  BY <1>1, <1>5, <1>6 DEF TypeOK, DrainBeat, readVars, peaks
<1>8. QED
  BY <1>2, <1>3, <1>4, <1>7

\* What Respond does to the writes: nothing, or one open write is completed.
LEMMA RespondWrites ==
  ASSUME TypeOK, Respond
  PROVE  \/ /\ ~(cur.b \in Ids /\ Answerable(cur.b) # {})
            /\ UNCHANGED <<write_outstanding, write_outstanding_by_id,
                           pending_writes, writes>>
         \/ \E t \in pending_writes, u \in Txn :
              /\ cur.b \in Ids /\ Answerable(cur.b) # {}
              /\ u.seq = t.seq
              /\ pending_writes' = pending_writes \ {t}
              /\ writes' = writes \union {u}
              /\ write_outstanding' = Decrement(write_outstanding)
              /\ write_outstanding_by_id' =
                   [write_outstanding_by_id EXCEPT ![t.id] = Decrement(@)]
<1>1. CASE cur.b \in Ids /\ Answerable(cur.b) # {}
  <2> DEFINE t == First(Answerable(cur.b))
             early == now <= t.addr \/ now <= t.last
             u == [t EXCEPT !.resp = now, !.violation = early]
  <2>1. t \in pending_writes /\ t \in Txn
    BY <1>1, FirstIsOldest DEF TypeOK, Answerable
  <2>2. u \in Txn /\ u.seq = t.seq
    <3>1. early \in BOOLEAN /\ now \in Nat
      BY DEF TypeOK
    <3> HIDE DEF early, t
    <3>2. QED
      BY <2>1, <3>1 DEF Txn
  <2>3. /\ pending_writes' = pending_writes \ {t}
        /\ writes' = writes \union {u}
        /\ write_outstanding' = Decrement(write_outstanding)
        /\ write_outstanding_by_id' =
             [write_outstanding_by_id EXCEPT ![t.id] = Decrement(@)]
    BY <1>1 DEF Respond, CompleteWrite
  <2> HIDE DEF t, u
  <2>4. QED
    BY <1>1, <2>1, <2>2, <2>3
<1>2. CASE ~(cur.b \in Ids /\ Answerable(cur.b) # {})
  BY <1>2 DEF Respond
<1>3. QED
  BY <1>1, <1>2

\* What Respond does to the reads: nothing, one read gains a beat, or one read
\* is completed.
LEMMA RespondReads ==
  ASSUME TypeOK, Respond
  PROVE  \/ UNCHANGED <<read_outstanding, read_outstanding_by_id,
                        pending_reads, reads>>
         \/ \E t \in pending_reads, u \in Txn :
              /\ u.seq = t.seq /\ u.id = t.id
              /\ pending_reads' = (pending_reads \ {t}) \union {u}
              /\ UNCHANGED <<read_outstanding, read_outstanding_by_id, reads>>
         \/ \E t \in pending_reads, u \in Txn :
              /\ u.seq = t.seq
              /\ pending_reads' = pending_reads \ {t}
              /\ reads' = reads \union {u}
              /\ read_outstanding' = Decrement(read_outstanding)
              /\ read_outstanding_by_id' =
                   [read_outstanding_by_id EXCEPT ![t.id] = Decrement(@)]
<1>1. CASE cur.r \in ReadBeat /\ OpenReads(cur.r.id) # {}
  <2> DEFINE t == First(OpenReads(cur.r.id))
             u == AddBeat(t, now, begin.r)
             v == [u EXCEPT !.complete = TRUE, !.resp = now]
  <2>1. t \in pending_reads /\ t \in Txn
    BY <1>1, FirstIsOldest DEF TypeOK, OpenReads, OfId
  <2>2. now \in Nat /\ begin.r \in Nat
    BY DEF TypeOK, Begin
  <2>3. u \in Txn /\ u.seq = t.seq /\ u.id = t.id
    BY <2>1, <2>2, AddBeatType
  <2>4. v \in Txn /\ v.seq = t.seq
    <3> HIDE DEF u
    <3>1. QED
      BY <2>2, <2>3 DEF Txn
  <2>5. CompleteRead(cur.r)
    BY <1>1 DEF Respond
  <2>6. CASE cur.r.last
    <3>1. /\ pending_reads' = pending_reads \ {t}
          /\ reads' = reads \union {v}
          /\ read_outstanding' = Decrement(read_outstanding)
          /\ read_outstanding_by_id' =
               [read_outstanding_by_id EXCEPT ![t.id] = Decrement(@)]
      BY <2>5, <2>6 DEF CompleteRead
    <3> HIDE DEF t, u, v
    <3>2. QED
      BY <2>1, <2>4, <3>1
  <2>7. CASE ~cur.r.last
    <3>1. /\ pending_reads' = (pending_reads \ {t}) \union {u}
          /\ UNCHANGED <<read_outstanding, read_outstanding_by_id, reads>>
      BY <2>5, <2>7 DEF CompleteRead
    <3> HIDE DEF t, u, v
    <3>2. QED
      BY <2>1, <2>3, <3>1
  <2>8. QED
    BY <2>6, <2>7
<1>2. CASE ~(cur.r \in ReadBeat /\ OpenReads(cur.r.id) # {})
  BY <1>2 DEF Respond, readVars
<1>3. QED
  BY <1>1, <1>2

LEMMA RespondType ==
  ASSUME TypeOK, Respond
  PROVE  TypeOK'
<1> DEFINE W == /\ pending_writes' \subseteq Txn /\ IsFiniteSet(pending_writes')
                /\ writes' \subseteq Txn /\ IsFiniteSet(writes')
                /\ write_outstanding' \in Nat
                /\ write_outstanding_by_id' \in [Ids -> Nat]
           R == /\ pending_reads' \subseteq Txn /\ IsFiniteSet(pending_reads')
                /\ reads' \subseteq Txn /\ IsFiniteSet(reads')
                /\ read_outstanding' \in Nat
                /\ read_outstanding_by_id' \in [Ids -> Nat]
<1>1. W
  <2>1. /\ pending_writes \subseteq Txn /\ IsFiniteSet(pending_writes)
        /\ writes \subseteq Txn /\ IsFiniteSet(writes)
        /\ write_outstanding \in Nat
        /\ write_outstanding_by_id \in [Ids -> Nat]
    BY DEF TypeOK
  <2>2. CASE UNCHANGED <<write_outstanding, write_outstanding_by_id,
                         pending_writes, writes>>
    BY <2>1, <2>2
  <2>3. ASSUME NEW t \in pending_writes, NEW u \in Txn,
               pending_writes' = pending_writes \ {t},
               writes' = writes \union {u},
               write_outstanding' = Decrement(write_outstanding),
               write_outstanding_by_id' =
                 [write_outstanding_by_id EXCEPT ![t.id] = Decrement(@)]
        PROVE  W
    <3>1. IsFiniteSet(pending_writes') /\ IsFiniteSet(writes')
      BY <2>1, <2>3, FS_RemoveElement, FS_AddElement
    <3>2. t.id \in Ids
      BY <2>1 DEF Txn
    <3>3. write_outstanding' \in Nat /\ write_outstanding_by_id' \in [Ids -> Nat]
      BY <2>1, <2>3, <3>2 DEF Decrement
    <3>4. pending_writes' \subseteq Txn /\ writes' \subseteq Txn
      BY <2>1, <2>3
    <3>5. QED
      BY <3>1, <3>3, <3>4
  <2>4. QED
    BY <2>2, <2>3, RespondWrites
<1>2. R
  <2>1. /\ pending_reads \subseteq Txn /\ IsFiniteSet(pending_reads)
        /\ reads \subseteq Txn /\ IsFiniteSet(reads)
        /\ read_outstanding \in Nat
        /\ read_outstanding_by_id \in [Ids -> Nat]
    BY DEF TypeOK
  <2>2. CASE UNCHANGED <<read_outstanding, read_outstanding_by_id,
                         pending_reads, reads>>
    BY <2>1, <2>2
  <2>3. ASSUME NEW t \in pending_reads, NEW u \in Txn,
               pending_reads' = pending_reads \ {t},
               reads' = reads \union {u},
               read_outstanding' = Decrement(read_outstanding),
               read_outstanding_by_id' =
                 [read_outstanding_by_id EXCEPT ![t.id] = Decrement(@)]
        PROVE  R
    <3>1. IsFiniteSet(pending_reads') /\ IsFiniteSet(reads')
      BY <2>1, <2>3, FS_RemoveElement, FS_AddElement
    <3>2. t.id \in Ids
      BY <2>1 DEF Txn
    <3>3. read_outstanding' \in Nat /\ read_outstanding_by_id' \in [Ids -> Nat]
      BY <2>1, <2>3, <3>2 DEF Decrement
    <3>4. pending_reads' \subseteq Txn /\ reads' \subseteq Txn
      BY <2>1, <2>3
    <3>5. QED
      BY <3>1, <3>3, <3>4
  <2>4. ASSUME NEW t \in pending_reads, NEW u \in Txn,
               pending_reads' = (pending_reads \ {t}) \union {u},
               UNCHANGED <<read_outstanding, read_outstanding_by_id, reads>>
        PROVE  R
    <3>1. IsFiniteSet(pending_reads \ {t})
      BY <2>1, FS_RemoveElement
    <3>2. IsFiniteSet(pending_reads')
      BY <2>4, <3>1, FS_AddElement
    <3>3. QED
      BY <2>1, <2>4, <3>2
  <2>5. QED
    BY <2>2, <2>3, <2>4, RespondReads
<1>3. begin' \in Begin
  BY DEF Respond, TypeOK, Begin
<1>4. diag' \in [Counter -> Nat]
  <2> DEFINE One(cond) == IF cond THEN 1 ELSE 0
             bShake == cur.b \in Ids
             bFound == bShake /\ Answerable(cur.b) # {}
             rShake == cur.r \in ReadBeat
             rFound == rShake /\ OpenReads(cur.r.id) # {}
             b == One(bShake)
             r == One(rShake)
             ob == One(bShake /\ ~bFound)
             or == One(rShake /\ ~rFound)
             v == One(bFound /\ EarlyResponse(cur.b))
             m == One(rFound /\ ShortOrLongRead(cur.r))
  <2>1. diag' = [diag EXCEPT !["b"] = @ + b, !["r"] = @ + r,
                             !["orphan_b"] = @ + ob, !["orphan_r"] = @ + or,
                             !["violation"] = @ + v, !["mismatch"] = @ + m]
    BY DEF Respond
  <2>2. /\ b \in Nat /\ r \in Nat /\ ob \in Nat
        /\ or \in Nat /\ v \in Nat /\ m \in Nat
    OBVIOUS
  <2> HIDE DEF b, r, ob, or, v, m
  <2>3. /\ diag \in [Counter -> Nat]
        /\ {"b", "r", "orphan_b", "orphan_r", "violation", "mismatch"}
             \subseteq Counter
    BY DEF TypeOK, Counter
  <2>4. QED
    BY <2>1, <2>2, <2>3
<1>5. /\ snapshot' \in Snapshot /\ pc' = "ready" /\ cur' = Idle
      /\ UNCHANGED <<now, next_seq, w_beats, peak_write_by_id, peak_read_by_id>>
  BY <1>1, <1>2 DEF Respond, Snapshot, TypeOK, peaks
<1>6. QED
  BY <1>1, <1>2, <1>3, <1>4, <1>5 DEF TypeOK

LEMMA FinishType ==
  ASSUME TypeOK, Finish
  PROVE  TypeOK'
<1> DEFINE a == Cardinality(pending_writes)
           b == Cardinality(pending_reads)
           c == Len(w_beats)
           d == Cardinality({n \in DOMAIN w_beats : w_beats[n].last})
<1>1. a \in Nat /\ b \in Nat /\ c \in Nat
  BY FS_CardinalityType DEF TypeOK
<1>2. d \in Nat
  <2>1. IsFiniteSet(1 .. Len(w_beats)) /\ DOMAIN w_beats = 1 .. Len(w_beats)
    BY <1>1, FS_Interval DEF TypeOK
  <2>2. QED
    BY <2>1, FS_Subset, FS_CardinalityType
<1>3. diag' = [diag EXCEPT
       !["incomplete_writes"] = a, !["incomplete_reads"] = b, !["orphan_w"] = c,
       !["buffered_bursts"] = d, !["final_write"] = write_outstanding,
       !["final_read"] = read_outstanding]
  BY DEF Finish
<1> HIDE DEF a, b, c, d
<1>4. /\ diag \in [Counter -> Nat]
      /\ write_outstanding \in Nat /\ read_outstanding \in Nat
      /\ {"incomplete_writes", "incomplete_reads", "orphan_w", "buffered_bursts",
          "final_write", "final_read"} \subseteq Counter
  BY DEF TypeOK, Counter
<1>5. diag' \in [Counter -> Nat]
  BY <1>1, <1>2, <1>3, <1>4
<1>6. QED
  BY <1>5 DEF Finish, TypeOK, writeVars, readVars, peaks

LEMMA NextType == TypeOK /\ [Next]_vars => TypeOK'
<1> SUFFICES ASSUME TypeOK, [Next]_vars PROVE TypeOK'
  OBVIOUS
<1>1. ASSUME NEW s \in Samples, ConsumeReset(s) PROVE TypeOK'
  BY <1>1, ResetType
<1>2. ASSUME NEW s \in Samples, Consume(s) PROVE TypeOK'
  BY <1>2, ConsumeType
<1>3. CASE DrainBeat
  BY <1>3, DrainType
<1>4. CASE DrainDone
  BY <1>4 DEF DrainDone, TypeOK, writeVars, readVars, peaks
<1>5. CASE Respond
  BY <1>5, RespondType
<1>6. CASE Finish
  BY <1>6, FinishType
<1>7. CASE UNCHANGED vars
  BY <1>7 DEF vars, writeVars, readVars, peaks, TypeOK
<1>8. QED
  BY <1>1, <1>2, <1>3, <1>4, <1>5, <1>6, <1>7 DEF Next

\* Every variable of the tracker keeps its type over every waveform: the
\* counters stay natural numbers although dec_outstanding decrements them, and
\* the deques stay finite sets of well-formed transactions.
THEOREM TypeCorrect == Spec => []TypeOK
BY InitType, NextType, PTL DEF Spec

-----------------------------------------------------------------------------
(***************************************************************************)
(* What a step may do to one direction of the bus.  p, c, n and by are the *)
(* open transactions, the completed ones and the two counters; lo and hi   *)
(* bound the sequence numbers handed out; opened, dropped and done count   *)
(* the transactions the step opens, drops in a reset and completes.        *)
(***************************************************************************)
Moves(p, c, n, by, p2, c2, n2, by2, lo, hi, opened, dropped, done) ==
  \/ /\ p2 = p /\ c2 = c /\ n2 = n /\ by2 = by
     /\ opened = 0 /\ dropped = 0 /\ done = 0
  \/ /\ p2 = {} /\ c2 = c /\ n2 = 0 /\ by2 = [i \in Ids |-> 0]
     /\ opened = 0 /\ dropped = Cardinality(p) /\ done = 0
  \/ \E x \in Txn :
       /\ lo < x.seq /\ x.seq <= hi
       /\ p2 = p \union {x} /\ c2 = c
       /\ n2 = n + 1 /\ by2 = [by EXCEPT ![x.id] = @ + 1]
       /\ opened = 1 /\ dropped = 0 /\ done = 0
  \/ \E t \in p, u \in Txn :
       /\ u.seq = t.seq /\ u.id = t.id
       /\ p2 = (p \ {t}) \union {u} /\ c2 = c
       /\ n2 = n /\ by2 = by
       /\ opened = 0 /\ dropped = 0 /\ done = 0
  \/ \E t \in p, u \in Txn :
       /\ u.seq = t.seq
       /\ p2 = p \ {t} /\ c2 = c \union {u}
       /\ n2 = Decrement(n) /\ by2 = [by EXCEPT ![t.id] = Decrement(@)]
       /\ opened = 0 /\ dropped = 0 /\ done = 1

\* The sequence numbers of the open and the completed transactions of one
\* direction, and of the other direction's transactions, are all different.
Inj(S) == \A t, u \in S : t.seq = u.seq => t = u
Apart(S, T) == \A t \in S, u \in T : t.seq # u.seq
Below(S, n) == \A t \in S : t.seq <= n
Distinct(p, c, o) ==
  Inj(p) /\ Inj(c) /\ Apart(p, c) /\ Apart(p, o) /\ Apart(c, o)

LEMMA MovesDistinct ==
  ASSUME NEW p \in SUBSET Txn, NEW c \in SUBSET Txn, NEW o \in SUBSET Txn,
         NEW n, NEW by, NEW p2, NEW c2, NEW n2, NEW by2,
         NEW lo \in Nat, NEW hi \in Nat, lo <= hi,
         NEW opened, NEW dropped, NEW done,
         Moves(p, c, n, by, p2, c2, n2, by2, lo, hi, opened, dropped, done),
         Distinct(p, c, o),
         Below(p, lo), Below(c, lo), Below(o, lo)
  PROVE  /\ Distinct(p2, c2, o)
         /\ Below(p2, hi) /\ Below(c2, hi) /\ Below(o, hi)
         /\ p2 \in SUBSET Txn /\ c2 \in SUBSET Txn
<1> DEFINE Goal == /\ Distinct(p2, c2, o)
                   /\ Below(p2, hi) /\ Below(c2, hi)
                   /\ p2 \in SUBSET Txn /\ c2 \in SUBSET Txn
<1>0. \A t \in Txn : t.seq \in Nat
  BY DEF Txn
<1>1. Below(p, hi) /\ Below(c, hi) /\ Below(o, hi)
  BY <1>0 DEF Below
<1>2. CASE p2 = p /\ c2 = c
  BY <1>1, <1>2
<1>3. CASE p2 = {} /\ c2 = c
  BY <1>1, <1>3 DEF Distinct, Inj, Apart, Below
<1>4. ASSUME NEW x \in Txn, lo < x.seq, x.seq <= hi,
             p2 = p \union {x}, c2 = c
      PROVE  Goal
  <2>1. Inj(p2)
    BY <1>0, <1>4 DEF Distinct, Inj, Below
  <2>2. Apart(p2, c2) /\ Apart(p2, o)
    BY <1>0, <1>4 DEF Distinct, Apart, Below
  <2>3. Below(p2, hi)
    BY <1>1, <1>4 DEF Below
  <2>4. QED
    BY <1>1, <1>4, <2>1, <2>2, <2>3 DEF Distinct
<1>5. ASSUME NEW t \in p, NEW u \in Txn, u.seq = t.seq,
             p2 = (p \ {t}) \union {u}, c2 = c
      PROVE  Goal
  <2>1. Inj(p2)
    BY <1>5 DEF Distinct, Inj
  <2>2. Apart(p2, c2) /\ Apart(p2, o)
    BY <1>5 DEF Distinct, Apart
  <2>3. Below(p2, hi)
    BY <1>1, <1>5 DEF Below
  <2>4. QED
    BY <1>1, <1>5, <2>1, <2>2, <2>3 DEF Distinct
<1>6. ASSUME NEW t \in p, NEW u \in Txn, u.seq = t.seq,
             p2 = p \ {t}, c2 = c \union {u}
      PROVE  Goal
  <2>1. Inj(p2) /\ Inj(c2)
    BY <1>6 DEF Distinct, Inj, Apart
  <2>2. Apart(p2, c2)
    BY <1>6 DEF Distinct, Inj, Apart
  <2>3. Apart(p2, o) /\ Apart(c2, o)
    BY <1>6 DEF Distinct, Apart
  <2>4. Below(p2, hi) /\ Below(c2, hi)
    BY <1>1, <1>6 DEF Below
  <2>5. QED
    BY <1>6, <2>1, <2>2, <2>3, <2>4 DEF Distinct
<1>7. QED
  BY <1>1, <1>2, <1>3, <1>4, <1>5, <1>6 DEF Moves

\* The transactions of one direction before and after a step add up.
Balance(p, c, p2, c2, opened, dropped, done) ==
  /\ Cardinality(p2) + Cardinality(c2) + dropped =
       Cardinality(p) + Cardinality(c) + opened
  /\ Cardinality(c2) = Cardinality(c) + done

LEMMA MovesExact ==
  ASSUME NEW p \in SUBSET Txn, NEW c \in SUBSET Txn,
         IsFiniteSet(p), IsFiniteSet(c),
         NEW n \in Nat, NEW by \in [Ids -> Nat], NEW p2, NEW c2, NEW n2, NEW by2,
         NEW lo \in Nat, NEW hi \in Nat,
         NEW opened \in Nat, NEW dropped \in Nat, NEW done \in Nat,
         Moves(p, c, n, by, p2, c2, n2, by2, lo, hi, opened, dropped, done),
         Inj(p), Apart(p, c), Below(p, lo),
         Exact(n, by, p)
  PROVE  Exact(n2, by2, p2) /\ Balance(p, c, p2, c2, opened, dropped, done)
<1> DEFINE Goal == /\ Exact(n2, by2, p2)
                   /\ Cardinality(p2) + Cardinality(c2) + dropped =
                        Cardinality(p) + Cardinality(c) + opened
                   /\ Cardinality(c2) = Cardinality(c) + done
<1>0. /\ \A t \in Txn : t.seq \in Nat /\ t.id \in Ids
      /\ Cardinality(p) \in Nat /\ Cardinality(c) \in Nat
  BY FS_CardinalityType DEF Txn
<1>1. CASE /\ p2 = p /\ c2 = c /\ n2 = n /\ by2 = by
           /\ opened = 0 /\ dropped = 0 /\ done = 0
  BY <1>0, <1>1 DEF Balance
<1>2. CASE /\ p2 = {} /\ c2 = c /\ n2 = 0 /\ by2 = [i \in Ids |-> 0]
           /\ opened = 0 /\ dropped = Cardinality(p) /\ done = 0
  <2>1. Exact(n2, by2, p2)
    BY <1>2, ExactEmpty
  <2>2. Cardinality(p2) = 0
    BY <1>2, FS_EmptySet
  <2>3. QED
    BY <1>0, <1>2, <2>1, <2>2 DEF Balance
<1>3. ASSUME NEW x \in Txn, lo < x.seq, p2 = p \union {x}, c2 = c,
             n2 = n + 1, by2 = [by EXCEPT ![x.id] = @ + 1],
             opened = 1, dropped = 0, done = 0
      PROVE  Goal
  <2>1. x \notin p
    BY <1>0, <1>3 DEF Below
  <2>2. Cardinality(p2) = Cardinality(p) + 1 /\ Exact(n2, by2, p2)
    BY <1>0, <1>3, <2>1, ExactAdd
  <2>3. QED
    BY <1>0, <1>3, <2>2
<1>4. ASSUME NEW t \in p, NEW u \in Txn, u.seq = t.seq, u.id = t.id,
             p2 = (p \ {t}) \union {u}, c2 = c, n2 = n, by2 = by,
             opened = 0, dropped = 0, done = 0
      PROVE  Goal
  <2>1. u \notin p \ {t}
    BY <1>4 DEF Inj
  <2>2. Cardinality(p2) = Cardinality(p) /\ Exact(n2, by2, p2)
    BY <1>4, <2>1, ExactReplace
  <2>3. QED
    BY <1>0, <1>4, <2>2
<1>5. ASSUME NEW t \in p, NEW u \in Txn, u.seq = t.seq,
             p2 = p \ {t}, c2 = c \union {u},
             n2 = Decrement(n), by2 = [by EXCEPT ![t.id] = Decrement(@)],
             opened = 0, dropped = 0, done = 1
      PROVE  Goal
  <2>1. u \notin c
    BY <1>5 DEF Apart
  <2>2. Cardinality(c2) = Cardinality(c) + 1
    BY <1>5, <2>1, FS_AddElement
  <2>3. t.id \in Ids
    BY <1>0
  <2>4. Cardinality(p2) = Cardinality(p) - 1 /\ Exact(n2, by2, p2)
    BY <1>5, <2>3, ExactRemove
  <2>5. QED
    BY <1>0, <1>5, <2>2, <2>4
<1>6. QED
  BY <1>1, <1>2, <1>3, <1>4, <1>5 DEF Moves, Balance

-----------------------------------------------------------------------------
(***************************************************************************)
(* Every step moves each direction in one of those ways, and the handshake *)
(* counters of the diagnostics follow.                                     *)
(***************************************************************************)
WriteMoves(hi, opened, dropped, done) ==
  /\ Moves(pending_writes, writes, write_outstanding, write_outstanding_by_id,
           pending_writes', writes', write_outstanding',
           write_outstanding_by_id', next_seq, hi, opened, dropped, done)
  /\ diag'["aw"] = diag["aw"] + opened
  /\ diag'["reset_writes"] = diag["reset_writes"] + dropped
  /\ diag'["b"] + diag["orphan_b"] = diag["b"] + diag'["orphan_b"] + done

ReadMoves(lo, opened, dropped, done) ==
  /\ Moves(pending_reads, reads, read_outstanding, read_outstanding_by_id,
           pending_reads', reads', read_outstanding', read_outstanding_by_id',
           lo, next_seq', opened, dropped, done)
  /\ diag'["ar"] = diag["ar"] + opened
  /\ diag'["reset_reads"] = diag["reset_reads"] + dropped

StepMoves ==
  \E mid \in Nat, o \in Nat, d \in Nat, f \in Nat, o2 \in Nat, d2 \in Nat,
     f2 \in Nat :
    /\ next_seq <= mid /\ mid <= next_seq'
    /\ WriteMoves(mid, o, d, f)
    /\ ReadMoves(mid, o2, d2, f2)

LEMMA DiagType ==
  ASSUME TypeOK
  PROVE  /\ diag \in [Counter -> Nat]
         /\ {"aw", "ar", "w", "b", "r", "orphan_b", "orphan_r", "violation",
             "mismatch", "max_write", "max_read", "reset_writes",
             "reset_reads", "reset_w_beats", "incomplete_writes",
             "incomplete_reads", "orphan_w", "buffered_bursts", "final_write",
             "final_read"} \subseteq Counter
         /\ next_seq \in Nat
BY DEF TypeOK, Counter

LEMMA QuietMoves ==
  ASSUME TypeOK,
         UNCHANGED <<next_seq, pending_writes, writes, write_outstanding,
                     write_outstanding_by_id, pending_reads, reads,
                     read_outstanding, read_outstanding_by_id>>,
         \A k \in {"aw", "ar", "b", "orphan_b", "reset_writes", "reset_reads"} :
           diag'[k] = diag[k]
  PROVE  StepMoves
<1> DEFINE z == 0
<1>1. WriteMoves(next_seq, z, z, z) /\ ReadMoves(next_seq, z, z, z)
  BY DiagType DEF WriteMoves, ReadMoves, Moves
<1>2. z \in Nat /\ next_seq <= next_seq /\ next_seq <= next_seq'
  BY DiagType
<1> HIDE DEF z
<1>3. QED
  BY <1>1, <1>2, DiagType DEF StepMoves

LEMMA ResetMoves ==
  ASSUME TypeOK, NEW s \in Samples, ConsumeReset(s)
  PROVE  StepMoves
<1> DEFINE a == Cardinality(pending_writes)
           b == Cardinality(pending_reads)
           c == Len(w_beats)
<1>1. a \in Nat /\ b \in Nat /\ c \in Nat
  BY FS_CardinalityType DEF TypeOK
<1>2. diag' = [diag EXCEPT !["reset_writes"] = @ + a, !["reset_reads"] = @ + b,
                           !["reset_w_beats"] = @ + c]
  BY DEF ConsumeReset
<1>3. /\ pending_writes' = {} /\ writes' = writes
      /\ pending_reads' = {} /\ reads' = reads
      /\ write_outstanding' = 0 /\ read_outstanding' = 0
      /\ write_outstanding_by_id' = [i \in Ids |-> 0]
      /\ read_outstanding_by_id' = [i \in Ids |-> 0]
      /\ next_seq' = next_seq
  BY DEF ConsumeReset
<1>4. /\ diag'["reset_writes"] = diag["reset_writes"] + a
      /\ diag'["reset_reads"] = diag["reset_reads"] + b
      /\ diag'["aw"] = diag["aw"] + 0 /\ diag'["ar"] = diag["ar"] + 0
      /\ diag'["b"] + diag["orphan_b"] = diag["b"] + diag'["orphan_b"] + 0
  <2> HIDE DEF a, b, c
  <2>1. QED
    BY <1>1, <1>2, DiagType
<1> DEFINE z == 0
<1>5. WriteMoves(next_seq, z, a, z)
  BY <1>3, <1>4 DEF WriteMoves, Moves
<1>6. ReadMoves(next_seq, z, b, z)
  BY <1>3, <1>4 DEF ReadMoves, Moves
<1>7. z \in Nat /\ next_seq <= next_seq /\ next_seq <= next_seq'
  BY <1>3, DiagType
<1> HIDE DEF a, b, c, z
<1>8. QED
  BY <1>1, <1>5, <1>6, <1>7, DiagType DEF StepMoves

LEMMA ConsumeMoves ==
  ASSUME TypeOK, NEW s \in Samples, Consume(s)
  PROVE  StepMoves
<1> DEFINE aws == IF s.aw \in AddrBeat THEN 1 ELSE 0
           ars == IF s.ar \in AddrBeat THEN 1 ELSE 0
           ws == IF s.w \in DataBeat THEN 1 ELSE 0
           mw == IF aws = 1 THEN Larger(diag["max_write"], write_outstanding + 1)
                 ELSE diag["max_write"]
           mr == IF ars = 1 THEN Larger(diag["max_read"], read_outstanding + 1)
                 ELSE diag["max_read"]
           mid == next_seq + aws
<1>1. /\ now \in Nat /\ next_seq \in Nat
      /\ begin.aw \in Nat /\ begin.ar \in Nat
      /\ Track(s.aw, begin.aw, now + 1) \in Nat
      /\ Track(s.ar, begin.ar, now + 1) \in Nat
  BY TrackType DEF TypeOK, Begin
<1>2. /\ diag'["aw"] = diag["aw"] + aws /\ diag'["ar"] = diag["ar"] + ars
      /\ diag'["reset_writes"] = diag["reset_writes"] + 0
      /\ diag'["reset_reads"] = diag["reset_reads"] + 0
      /\ diag'["b"] + diag["orphan_b"] = diag["b"] + diag'["orphan_b"] + 0
  <2>1. aws \in Nat /\ ars \in Nat /\ ws \in Nat
    OBVIOUS
  <2>2. diag' = [diag EXCEPT !["aw"] = @ + aws, !["ar"] = @ + ars, !["w"] = @ + ws,
                             !["max_write"] = mw, !["max_read"] = mr]
    BY DiagType DEF Consume
  <2> HIDE DEF aws, ars, ws, mw, mr
  <2>3. QED
    BY <2>1, <2>2, DiagType
<1>3. next_seq' = mid + ars /\ mid \in Nat /\ aws \in Nat /\ ars \in Nat
  BY <1>1 DEF Consume
<1>4. WriteMoves(mid, aws, 0, 0)
  <2>1. AcceptAw(s, next_seq + 1) /\ writes' = writes
    BY DEF Consume
  <2>2. CASE s.aw \in AddrBeat
    <3> DEFINE x == NewTxn(next_seq + 1, s.aw, Track(s.aw, begin.aw, now + 1),
                           now + 1)
    <3>1. x \in Txn /\ x.seq = next_seq + 1 /\ x.id = s.aw.id
      <4> DEFINE seq == next_seq + 1
                 time == now + 1
                 since == Track(s.aw, begin.aw, now + 1)
      <4>1. seq \in Nat /\ time \in Nat /\ since \in Nat
        BY <1>1
      <4> HIDE DEF seq, time, since
      <4>2. NewTxn(seq, s.aw, since, time) \in Txn /\
            NewTxn(seq, s.aw, since, time).seq = seq /\
            NewTxn(seq, s.aw, since, time).id = s.aw.id
        BY <2>2, <4>1, NewTxnType
      <4>3. QED
        BY <4>2 DEF seq, time, since
    <3>2. /\ pending_writes' = pending_writes \union {x}
          /\ write_outstanding' = write_outstanding + 1
          /\ write_outstanding_by_id' =
               [write_outstanding_by_id EXCEPT ![x.id] = @ + 1]
      BY <2>1, <2>2, <3>1 DEF AcceptAw
    <3> HIDE DEF x
    <3>3. next_seq < x.seq /\ x.seq <= mid /\ aws = 1
      BY <1>1, <2>2, <3>1
    <3>4. QED
      BY <1>2, <2>1, <3>1, <3>2, <3>3 DEF WriteMoves, Moves
  <2>3. CASE s.aw \notin AddrBeat
    BY <1>2, <2>1, <2>3 DEF AcceptAw, WriteMoves, Moves
  <2>4. QED
    BY <2>2, <2>3
<1>5. ReadMoves(mid, ars, 0, 0)
  <2>1. AcceptAr(s, mid + 1) /\ reads' = reads
    BY DEF Consume
  <2>2. CASE s.ar \in AddrBeat
    <3> DEFINE x == NewTxn(mid + 1, s.ar, Track(s.ar, begin.ar, now + 1), now + 1)
    <3>1. x \in Txn /\ x.seq = mid + 1 /\ x.id = s.ar.id
      <4> HIDE DEF mid
      <4>1. mid + 1 \in Nat /\ now + 1 \in Nat
        BY <1>1, <1>3
      <4>2. QED
        BY <1>1, <2>2, <4>1, NewTxnType
    <3>2. /\ pending_reads' = pending_reads \union {x}
          /\ read_outstanding' = read_outstanding + 1
          /\ read_outstanding_by_id' =
               [read_outstanding_by_id EXCEPT ![x.id] = @ + 1]
      BY <2>1, <2>2, <3>1 DEF AcceptAr
    <3> HIDE DEF x, mid
    <3>3. mid < x.seq /\ x.seq <= next_seq' /\ ars = 1
      BY <1>1, <1>3, <2>2, <3>1
    <3>4. QED
      BY <1>2, <2>1, <3>1, <3>2, <3>3 DEF ReadMoves, Moves
  <2>3. CASE s.ar \notin AddrBeat
    BY <1>2, <2>1, <2>3 DEF AcceptAr, ReadMoves, Moves
  <2>4. QED
    BY <2>2, <2>3
<1>6. next_seq <= mid /\ mid <= next_seq'
  BY <1>1, <1>3
<1> HIDE DEF mid, aws, ars
<1>7. QED
  BY <1>3, <1>4, <1>5, <1>6 DEF StepMoves

LEMMA RespondMoves ==
  ASSUME TypeOK, Respond
  PROVE  StepMoves
<1> DEFINE z == 0
           one == 1
           One(cond) == IF cond THEN 1 ELSE 0
           bShake == cur.b \in Ids
           bFound == bShake /\ Answerable(cur.b) # {}
           rShake == cur.r \in ReadBeat
           rFound == rShake /\ OpenReads(cur.r.id) # {}
           b == One(bShake)
           r == One(rShake)
           ob == One(bShake /\ ~bFound)
           or == One(rShake /\ ~rFound)
           v == One(bFound /\ EarlyResponse(cur.b))
           m == One(rFound /\ ShortOrLongRead(cur.r))
<1>1. /\ diag'["aw"] = diag["aw"] + 0 /\ diag'["ar"] = diag["ar"] + 0
      /\ diag'["reset_writes"] = diag["reset_writes"] + 0
      /\ diag'["reset_reads"] = diag["reset_reads"] + 0
      /\ diag'["b"] = diag["b"] + b
      /\ diag'["orphan_b"] = diag["orphan_b"] + ob
  <2>1. diag' = [diag EXCEPT !["b"] = @ + b, !["r"] = @ + r,
                             !["orphan_b"] = @ + ob, !["orphan_r"] = @ + or,
                             !["violation"] = @ + v, !["mismatch"] = @ + m]
    BY DEF Respond
  <2> HIDE DEF b, r, ob, or, v, m
  <2>2. QED
    BY <2>1, DiagType
<1>2. next_seq' = next_seq
  BY DEF Respond
<1>3. diag["b"] \in Nat /\ diag["orphan_b"] \in Nat
  BY DiagType
<1>4. \/ WriteMoves(next_seq, z, z, z)
      \/ WriteMoves(next_seq, z, z, one)
  <2>1. CASE /\ ~bFound
             /\ UNCHANGED <<write_outstanding, write_outstanding_by_id,
                            pending_writes, writes>>
    <3>1. diag'["b"] + diag["orphan_b"] = diag["b"] + diag'["orphan_b"] + 0
      BY <1>1, <1>3, <2>1
    <3>2. WriteMoves(next_seq, 0, 0, 0)
      BY <1>1, <2>1, <3>1 DEF WriteMoves, Moves
    <3>3. QED
      BY <3>2
  <2>2. ASSUME bFound, NEW t \in pending_writes, NEW u \in Txn, u.seq = t.seq,
               pending_writes' = pending_writes \ {t},
               writes' = writes \union {u},
               write_outstanding' = Decrement(write_outstanding),
               write_outstanding_by_id' =
                 [write_outstanding_by_id EXCEPT ![t.id] = Decrement(@)]
        PROVE  WriteMoves(next_seq, 0, 0, 1)
    <3>1. diag'["b"] + diag["orphan_b"] = diag["b"] + diag'["orphan_b"] + 1
      BY <1>1, <1>3, <2>2
    <3>2. QED
      BY <1>1, <2>2, <3>1 DEF WriteMoves, Moves
  <2>3. QED
    BY <2>1, <2>2, RespondWrites
<1>5. \/ ReadMoves(next_seq, z, z, z)
      \/ ReadMoves(next_seq, z, z, one)
  <2>1. CASE UNCHANGED <<read_outstanding, read_outstanding_by_id,
                         pending_reads, reads>>
    BY <1>1, <2>1 DEF ReadMoves, Moves
  <2>2. ASSUME NEW t \in pending_reads, NEW u \in Txn, u.seq = t.seq,
               u.id = t.id,
               pending_reads' = (pending_reads \ {t}) \union {u},
               UNCHANGED <<read_outstanding, read_outstanding_by_id, reads>>
        PROVE  ReadMoves(next_seq, 0, 0, 0)
    BY <1>1, <2>2 DEF ReadMoves, Moves
  <2>3. ASSUME NEW t \in pending_reads, NEW u \in Txn, u.seq = t.seq,
               pending_reads' = pending_reads \ {t},
               reads' = reads \union {u},
               read_outstanding' = Decrement(read_outstanding),
               read_outstanding_by_id' =
                 [read_outstanding_by_id EXCEPT ![t.id] = Decrement(@)]
        PROVE  ReadMoves(next_seq, 0, 0, 1)
    BY <1>1, <2>3 DEF ReadMoves, Moves
  <2>4. QED
    BY <2>1, <2>2, <2>3, RespondReads
<1>6. /\ z \in Nat /\ one \in Nat /\ next_seq \in Nat
      /\ next_seq <= next_seq /\ next_seq <= next_seq'
  BY <1>2, DiagType
<1> HIDE DEF z, one
<1>7. QED
  BY <1>4, <1>5, <1>6 DEF StepMoves

LEMMA DrainMoves ==
  ASSUME TypeOK, DrainBeat
  PROVE  StepMoves
<1> DEFINE z == 0
<1>1. /\ diag'["aw"] = diag["aw"] + 0 /\ diag'["ar"] = diag["ar"] + 0
      /\ diag'["reset_writes"] = diag["reset_writes"] + 0
      /\ diag'["reset_reads"] = diag["reset_reads"] + 0
      /\ diag'["b"] + diag["orphan_b"] = diag["b"] + diag'["orphan_b"] + 0
  <2> DEFINE n == IF Head(w_beats).last /\
                     [AddBeat(First(Unfinished), Head(w_beats).time,
                              Head(w_beats).begin)
                        EXCEPT !.complete = Head(w_beats).last].beats
                       # First(Unfinished).len
                  THEN diag["mismatch"] + 1 ELSE diag["mismatch"]
  <2>1. diag' = [diag EXCEPT !["mismatch"] = n]
    BY DiagType DEF DrainBeat
  <2> HIDE DEF n
  <2>2. QED
    BY <2>1, DiagType
<1>2. UNCHANGED <<next_seq, write_outstanding, write_outstanding_by_id, writes,
                  pending_reads, reads, read_outstanding,
                  read_outstanding_by_id>>
  BY DEF DrainBeat, readVars
<1>3. WriteMoves(next_seq, z, z, z)
  BY <1>1, <1>2, DrainType DEF WriteMoves, Moves
<1>4. ReadMoves(next_seq, z, z, z)
  BY <1>1, <1>2 DEF ReadMoves, Moves
<1>5. /\ z \in Nat /\ next_seq \in Nat
      /\ next_seq <= next_seq /\ next_seq <= next_seq'
  BY <1>2, DiagType
<1> HIDE DEF z
<1>6. QED
  BY <1>3, <1>4, <1>5 DEF StepMoves

LEMMA NextMoves == TypeOK /\ [Next]_vars => StepMoves
<1> SUFFICES ASSUME TypeOK, [Next]_vars PROVE StepMoves
  OBVIOUS
<1>1. ASSUME NEW s \in Samples, ConsumeReset(s) PROVE StepMoves
  BY <1>1, ResetMoves
<1>2. ASSUME NEW s \in Samples, Consume(s) PROVE StepMoves
  BY <1>2, ConsumeMoves
<1>3. CASE DrainBeat
  BY <1>3, DrainMoves
<1>4. CASE DrainDone \/ UNCHANGED vars
  <2>1. UNCHANGED <<next_seq, pending_writes, writes, write_outstanding,
                    write_outstanding_by_id, pending_reads, reads,
                    read_outstanding, read_outstanding_by_id, diag>>
    BY <1>4 DEF DrainDone, vars, writeVars, readVars
  <2>2. QED
    BY <2>1, QuietMoves
<1>5. CASE Respond
  BY <1>5, RespondMoves
<1>6. CASE Finish
  <2>1. UNCHANGED <<next_seq, pending_writes, writes, write_outstanding,
                    write_outstanding_by_id, pending_reads, reads,
                    read_outstanding, read_outstanding_by_id>>
    BY <1>6 DEF Finish, writeVars, readVars
  <2>2. \A k \in {"aw", "ar", "b", "orphan_b", "reset_writes", "reset_reads"} :
          diag'[k] = diag[k]
    BY <1>6, DiagType DEF Finish
  <2>3. QED
    BY <2>1, <2>2, QuietMoves
<1>7. QED
  BY <1>1, <1>2, <1>3, <1>4, <1>5, <1>6 DEF Next

-----------------------------------------------------------------------------
(***************************************************************************)
(* The inductive invariant.  SeqUnique alone is not inductive: a new       *)
(* transaction is different from the others only because every number      *)
(* handed out so far is at most next_seq.  The counters are exact only     *)
(* because adding, replacing and completing a transaction never meets an   *)
(* equal one, so OutstandingExact and NothingLost need SeqUnique.          *)
(***************************************************************************)
SeqInv ==
  /\ Distinct(pending_writes, writes, pending_reads \union reads)
  /\ Distinct(pending_reads, reads, pending_writes \union writes)
  /\ Below(pending_writes, next_seq) /\ Below(writes, next_seq)
  /\ Below(pending_reads, next_seq) /\ Below(reads, next_seq)

TrackerInv == TypeOK /\ SeqInv /\ OutstandingExact /\ NothingLost

LEMMA SeqInvUnique == SeqInv => SeqUnique
BY DEF SeqInv, SeqUnique, Distinct, Inj, Apart

LEMMA InitInv == Init => TrackerInv
<1> SUFFICES ASSUME Init PROVE TrackerInv
  OBVIOUS
<1>1. SeqInv
  BY DEF Init, SeqInv, Distinct, Inj, Apart, Below
<1>2. OutstandingExact
  BY ExactEmpty DEF Init, OutstandingExact
<1>3. NothingLost
  BY FS_EmptySet DEF Init, NothingLost, Counter
<1>4. QED
  BY <1>1, <1>2, <1>3, InitType DEF TrackerInv

LEMMA NextInv == TrackerInv /\ [Next]_vars => TrackerInv'
<1> SUFFICES ASSUME TrackerInv, [Next]_vars PROVE TrackerInv'
  OBVIOUS
<1>0. TypeOK /\ SeqInv /\ OutstandingExact /\ NothingLost /\ TypeOK'
  BY NextType DEF TrackerInv
<1>1. StepMoves
  BY <1>0, NextMoves
<1>2. PICK mid \in Nat, o \in Nat, d \in Nat, f \in Nat, o2 \in Nat, d2 \in Nat,
           f2 \in Nat :
        /\ next_seq <= mid /\ mid <= next_seq'
        /\ WriteMoves(mid, o, d, f)
        /\ ReadMoves(mid, o2, d2, f2)
  BY <1>1 DEF StepMoves
<1>3. /\ next_seq \in Nat /\ next_seq' \in Nat
      /\ pending_writes \in SUBSET Txn /\ writes \in SUBSET Txn
      /\ pending_reads \in SUBSET Txn /\ reads \in SUBSET Txn
      /\ IsFiniteSet(pending_writes) /\ IsFiniteSet(writes)
      /\ IsFiniteSet(pending_reads) /\ IsFiniteSet(reads)
      /\ IsFiniteSet(pending_writes') /\ IsFiniteSet(writes')
      /\ IsFiniteSet(pending_reads') /\ IsFiniteSet(reads')
      /\ write_outstanding \in Nat /\ read_outstanding \in Nat
      /\ write_outstanding_by_id \in [Ids -> Nat]
      /\ read_outstanding_by_id \in [Ids -> Nat]
  BY <1>0 DEF TypeOK
<1>4. /\ Distinct(pending_writes', writes', pending_reads \union reads)
      /\ Below(pending_writes', mid) /\ Below(writes', mid)
      /\ Below(pending_reads \union reads, mid)
      /\ pending_writes' \in SUBSET Txn /\ writes' \in SUBSET Txn
  <2>1. /\ pending_reads \union reads \in SUBSET Txn
        /\ Below(pending_reads \union reads, next_seq)
    BY <1>0, <1>3 DEF SeqInv, Below
  <2>2. /\ Distinct(pending_writes, writes, pending_reads \union reads)
        /\ Below(pending_writes, next_seq) /\ Below(writes, next_seq)
    BY <1>0 DEF SeqInv
  <2>3. Moves(pending_writes, writes, write_outstanding,
              write_outstanding_by_id, pending_writes', writes',
              write_outstanding', write_outstanding_by_id', next_seq, mid,
              o, d, f)
    BY <1>2 DEF WriteMoves
  <2>4. QED
    BY <1>2, <1>3, <2>1, <2>2, <2>3, MovesDistinct
<1>5. /\ Distinct(pending_reads, reads, pending_writes' \union writes')
      /\ Below(pending_reads, mid) /\ Below(reads, mid)
      /\ Below(pending_writes' \union writes', mid)
  BY <1>0, <1>4 DEF SeqInv, Distinct, Apart, Below
<1>6. /\ Distinct(pending_reads', reads', pending_writes' \union writes')
      /\ Below(pending_reads', next_seq') /\ Below(reads', next_seq')
      /\ Below(pending_writes' \union writes', next_seq')
  <2>1. pending_writes' \union writes' \in SUBSET Txn
    BY <1>4
  <2>2. QED
    BY <1>2, <1>3, <1>5, <2>1, MovesDistinct DEF ReadMoves
<1>7. SeqInv'
  <2>1. Distinct(pending_writes', writes', pending_reads' \union reads')
    BY <1>4, <1>6 DEF Distinct, Apart
  <2>2. QED
    BY <1>6, <2>1 DEF SeqInv, Below
<1>8. /\ Exact(write_outstanding', write_outstanding_by_id', pending_writes')
      /\ Balance(pending_writes, writes, pending_writes', writes', o, d, f)
  <2>1. /\ Inj(pending_writes) /\ Apart(pending_writes, writes)
        /\ Below(pending_writes, next_seq)
        /\ Exact(write_outstanding, write_outstanding_by_id, pending_writes)
    BY <1>0 DEF SeqInv, Distinct, OutstandingExact
  <2>2. Moves(pending_writes, writes, write_outstanding,
              write_outstanding_by_id, pending_writes', writes',
              write_outstanding', write_outstanding_by_id', next_seq, mid,
              o, d, f)
    BY <1>2 DEF WriteMoves
  <2>3. /\ pending_writes \in SUBSET Txn /\ writes \in SUBSET Txn
        /\ IsFiniteSet(pending_writes) /\ IsFiniteSet(writes)
        /\ write_outstanding \in Nat /\ write_outstanding_by_id \in [Ids -> Nat]
        /\ next_seq \in Nat /\ mid \in Nat
    BY <1>3
  <2>4. QED
    BY <2>1, <2>2, <2>3, MovesExact
<1>9. /\ Exact(read_outstanding', read_outstanding_by_id', pending_reads')
      /\ Balance(pending_reads, reads, pending_reads', reads', o2, d2, f2)
  <2>1. /\ Inj(pending_reads) /\ Apart(pending_reads, reads)
        /\ Below(pending_reads, mid)
        /\ Exact(read_outstanding, read_outstanding_by_id, pending_reads)
    BY <1>0, <1>5 DEF Distinct, OutstandingExact
  <2>2. Moves(pending_reads, reads, read_outstanding, read_outstanding_by_id,
              pending_reads', reads', read_outstanding',
              read_outstanding_by_id', mid, next_seq', o2, d2, f2)
    BY <1>2 DEF ReadMoves
  <2>3. /\ pending_reads \in SUBSET Txn /\ reads \in SUBSET Txn
        /\ IsFiniteSet(pending_reads) /\ IsFiniteSet(reads)
        /\ read_outstanding \in Nat /\ read_outstanding_by_id \in [Ids -> Nat]
        /\ mid \in Nat /\ next_seq' \in Nat
    BY <1>3
  <2>4. QED
    BY <2>1, <2>2, <2>3, MovesExact
<1>10. NothingLost'
  <2>1. /\ diag["aw"] \in Nat /\ diag'["aw"] \in Nat
        /\ diag["ar"] \in Nat /\ diag'["ar"] \in Nat
        /\ diag["b"] \in Nat /\ diag'["b"] \in Nat
        /\ diag["orphan_b"] \in Nat /\ diag'["orphan_b"] \in Nat
        /\ diag["reset_writes"] \in Nat /\ diag'["reset_writes"] \in Nat
        /\ diag["reset_reads"] \in Nat /\ diag'["reset_reads"] \in Nat
    BY <1>0 DEF TypeOK, Counter
  <2>2. /\ Cardinality(pending_writes) \in Nat /\ Cardinality(writes) \in Nat
        /\ Cardinality(pending_reads) \in Nat /\ Cardinality(reads) \in Nat
        /\ Cardinality(pending_writes') \in Nat /\ Cardinality(writes') \in Nat
        /\ Cardinality(pending_reads') \in Nat /\ Cardinality(reads') \in Nat
    BY <1>3, FS_CardinalityType
  <2>3. /\ diag'["aw"] = diag["aw"] + o
        /\ diag'["reset_writes"] = diag["reset_writes"] + d
        /\ diag'["b"] + diag["orphan_b"] = diag["b"] + diag'["orphan_b"] + f
        /\ diag'["ar"] = diag["ar"] + o2
        /\ diag'["reset_reads"] = diag["reset_reads"] + d2
    BY <1>2 DEF WriteMoves, ReadMoves
  <2>4. /\ diag["aw"] = Cardinality(pending_writes) + Cardinality(writes)
                          + diag["reset_writes"]
        /\ diag["ar"] = Cardinality(pending_reads) + Cardinality(reads)
                          + diag["reset_reads"]
        /\ diag["b"] = Cardinality(writes) + diag["orphan_b"]
    BY <1>0 DEF NothingLost
  <2>5. /\ Cardinality(pending_writes') + Cardinality(writes') + d =
             Cardinality(pending_writes) + Cardinality(writes) + o
        /\ Cardinality(pending_reads') + Cardinality(reads') + d2 =
             Cardinality(pending_reads) + Cardinality(reads) + o2
        /\ Cardinality(writes') = Cardinality(writes) + f
    BY <1>8, <1>9 DEF Balance
  <2>6. diag'["aw"] = Cardinality(pending_writes') + Cardinality(writes')
                        + diag'["reset_writes"]
    <3> DEFINE a == diag["aw"]
               a2 == diag'["aw"]
               r == diag["reset_writes"]
               r2 == diag'["reset_writes"]
               w == Cardinality(pending_writes) + Cardinality(writes)
               w2 == Cardinality(pending_writes') + Cardinality(writes')
    <3>1. /\ a \in Nat /\ a2 \in Nat /\ r \in Nat /\ r2 \in Nat
          /\ w \in Nat /\ w2 \in Nat
      BY <2>1, <2>2
    <3>2. a2 = a + o /\ r2 = r + d /\ a = w + r /\ w2 + d = w + o
      BY <2>3, <2>4, <2>5
    <3> HIDE DEF a, a2, r, r2, w, w2
    <3>3. a2 = w2 + r2
      BY <3>1, <3>2
    <3>4. QED
      BY <3>3 DEF a2, w2, r2
  <2>7. diag'["ar"] = Cardinality(pending_reads') + Cardinality(reads')
                        + diag'["reset_reads"]
    BY <2>1, <2>2, <2>3, <2>4, <2>5
  <2>8. diag'["b"] = Cardinality(writes') + diag'["orphan_b"]
    <3> DEFINE b == diag["b"]
               b2 == diag'["b"]
               r == diag["orphan_b"]
               r2 == diag'["orphan_b"]
               w == Cardinality(writes)
               w2 == Cardinality(writes')
    <3>1. /\ b \in Nat /\ b2 \in Nat /\ r \in Nat /\ r2 \in Nat
          /\ w \in Nat /\ w2 \in Nat
      BY <2>1, <2>2
    <3>2. b2 + r = b + r2 + f /\ b = w + r /\ w2 = w + f
      BY <2>3, <2>4, <2>5
    <3> HIDE DEF b, b2, r, r2, w, w2
    <3>3. b2 = w2 + r2
      BY <3>1, <3>2
    <3>4. QED
      BY <3>3 DEF b2, w2, r2
  <2>9. QED
    BY <2>6, <2>7, <2>8 DEF NothingLost
<1>11. QED
  BY <1>0, <1>7, <1>8, <1>9, <1>10 DEF TrackerInv, OutstandingExact

LEMMA TrackerCorrect == Spec => []TrackerInv
BY InitInv, NextInv, PTL DEF Spec

\* Sequence numbers identify transactions over both directions, and no
\* transaction is open and completed at once, for any ids and waveform.
THEOREM SeqNumbersUnique == Spec => []SeqUnique
<1>1. TrackerInv => SeqUnique
  BY SeqInvUnique DEF TrackerInv
<1>2. QED
  BY <1>1, TrackerCorrect, PTL

\* The incrementally kept outstanding counters equal the number of open
\* transactions, in total and per id, at every point of consume().
THEOREM CountersExact == Spec => []OutstandingExact
<1>1. TrackerInv => OutstandingExact
  BY DEF TrackerInv
<1>2. QED
  BY <1>1, TrackerCorrect, PTL

\* Every AW and AR handshake is an open transaction, a completed one or one
\* that a reset dropped, and every B handshake completed a write or is an
\* orphan.  W and R beats are not balanced: clear_for_reset does not count the
\* beats of the transactions it drops.
THEOREM AddressesAccounted == Spec => []NothingLost
<1>1. TrackerInv => NothingLost
  BY DEF TrackerInv
<1>2. QED
  BY <1>1, TrackerCorrect, PTL

-----------------------------------------------------------------------------
(***************************************************************************)
(* Order and times.  That a completion never overtakes within an id rests  *)
(* on the address order of the write data: the first complete write of an  *)
(* id is its first open write only because no write is filled before an    *)
(* older one.  Strictness of the response times needs that whatever was    *)
(* completed so far was completed at an earlier sample.  The times of a    *)
(* completed transaction come from the open one, from buffered beats and   *)
(* from the valid phase being tracked, so these are ordered too; and the   *)
(* last beat is the latest only because the buffer is a queue.             *)
(***************************************************************************)
Within(t, n) ==
  /\ 0 < t.begin /\ t.begin <= t.addr /\ t.addr <= n
  /\ t.beats > 0 => /\ 0 < t.firstBegin /\ t.firstBegin <= t.first
                    /\ t.first <= t.last
  /\ t.last <= n
  /\ t.complete => t.beats > 0

BeatWithin(b, n) == 0 < b.begin /\ b.begin <= b.time /\ b.time <= n

Settled(c, n) ==
  \A t \in c :
    /\ 0 < t.begin /\ t.begin <= t.addr /\ t.addr <= t.resp
    /\ 0 < t.firstBegin /\ t.firstBegin <= t.first
    /\ t.first <= t.last /\ t.last <= t.resp
    /\ t.resp <= n

OpenTimes ==
  /\ \A t \in pending_writes : Within(t, now)
  /\ \A t \in pending_reads : Within(t, now)

\* Beats are buffered in the order of their times, and one that waits is not
\* older than a beat a write already has.
BeatTimes ==
  /\ \A i \in DOMAIN w_beats :
       /\ BeatWithin(w_beats[i], now)
       /\ \A t \in pending_writes : t.last <= w_beats[i].time
  /\ \A i, j \in DOMAIN w_beats : i <= j => w_beats[i].time <= w_beats[j].time

BeginTimes ==
  /\ begin.aw <= now /\ begin.w <= now /\ begin.ar <= now /\ begin.r <= now
  /\ pc \in {"drain", "respond"} /\ cur.r # Idle => 0 < begin.r

\* In the middle of a sample everything completed is of an earlier one.
Past == IF pc \in {"drain", "respond"} THEN now - 1 ELSE now

ClosedTimes == Settled(writes, Past) /\ Settled(reads, Past)

OrderInv == /\ DataInAddressOrder /\ SameIdOrder
            /\ OpenTimes /\ BeatTimes /\ BeginTimes /\ ClosedTimes

-----------------------------------------------------------------------------
(* What the operations do to the fields that order and times read. *)

LEMMA TrackWithin ==
  ASSUME NEW input, NEW since \in Nat, NEW n \in Nat, since <= n
  PROVE  /\ Track(input, since, n + 1) \in Nat
         /\ Track(input, since, n + 1) <= n + 1
         /\ input # Idle => 0 < Track(input, since, n + 1)
BY DEF Track

\* A transaction that was just opened.
Opened(x, seq, n) ==
  /\ x \in Txn /\ seq < x.seq
  /\ x.beats = 0 /\ x.complete = FALSE /\ x.last = 0
  /\ Within(x, n)

LEMMA NewTxnOpened ==
  ASSUME NEW low \in Nat, NEW seq \in Nat, low < seq, NEW a \in AddrBeat,
         NEW since \in Nat, NEW n \in Nat, 0 < since, since <= n
  PROVE  Opened(NewTxn(seq, a, since, n), low, n)
BY AxiAssumption DEF Opened, NewTxn, Txn, AddrBeat, Within

\* t took a beat of time "time" whose valid phase began at "since".
Filled(t, u, time, since) ==
  /\ u \in Txn /\ u.seq = t.seq /\ u.id = t.id
  /\ u.begin = t.begin /\ u.addr = t.addr
  /\ u.beats = t.beats + 1 /\ u.last = time
  /\ t.beats = 0 => u.first = time /\ u.firstBegin = since
  /\ t.beats # 0 => u.first = t.first /\ u.firstBegin = t.firstBegin

LEMMA AddBeatFilled ==
  ASSUME NEW t \in Txn, NEW time \in Nat, NEW since \in Nat
  PROVE  /\ Filled(t, AddBeat(t, time, since), time, since)
         /\ AddBeat(t, time, since).complete = t.complete
<1> DEFINE first == IF t.beats = 0 THEN time ELSE t.first
           firstBegin == IF t.beats = 0 THEN since ELSE t.firstBegin
           beats == t.beats + 1
<1>1. beats \in Nat /\ first \in Nat /\ firstBegin \in Nat
  BY DEF Txn
<1>2. AddBeat(t, time, since) =
        [t EXCEPT !.beats = beats, !.first = first, !.firstBegin = firstBegin,
                  !.last = time]
  BY DEF AddBeat, Txn
<1>3. /\ t.beats = 0 => first = time /\ firstBegin = since
      /\ t.beats # 0 => first = t.first /\ firstBegin = t.firstBegin
      /\ beats = t.beats + 1
  OBVIOUS
<1> DEFINE u == AddBeat(t, time, since)
<1> HIDE DEF first, firstBegin, beats, u
<1>4. u \in Txn /\ u.seq = t.seq /\ u.id = t.id
  BY AddBeatType DEF u
<1>5. u = [t EXCEPT !.beats = beats, !.first = first, !.firstBegin = firstBegin,
                    !.last = time]
  BY <1>2 DEF u
<1>6. /\ u.begin = t.begin /\ u.addr = t.addr /\ u.beats = beats /\ u.last = time
      /\ u.first = first /\ u.firstBegin = firstBegin /\ u.complete = t.complete
  BY <1>1, <1>5 DEF Txn
<1>7. Filled(t, u, time, since)
  BY <1>3, <1>4, <1>6 DEF Filled
<1>8. QED
  BY <1>6, <1>7 DEF u

\* Marking a filled transaction complete leaves what Filled says of it.
LEMMA FilledMarked ==
  ASSUME NEW t \in Txn, NEW v \in Txn, NEW time \in Nat, NEW since \in Nat,
         Filled(t, v, time, since), NEW c \in BOOLEAN
  PROVE  Filled(t, [v EXCEPT !.complete = c], time, since)
BY DEF Txn, Filled

CompletedAt(v, n) == [v EXCEPT !.complete = TRUE, !.resp = n]

LEMMA FilledAnswered ==
  ASSUME NEW t \in Txn, NEW v \in Txn, NEW time \in Nat, NEW since \in Nat,
         Filled(t, v, time, since), NEW n \in Nat
  PROVE  /\ Filled(t, CompletedAt(v, n), time, since)
         /\ CompletedAt(v, n).resp = n
BY DEF Txn, Filled, CompletedAt

LEMMA FilledWithin ==
  ASSUME NEW t \in Txn, NEW u, NEW time \in Nat, NEW since \in Nat, NEW n \in Nat,
         Filled(t, u, time, since), Within(t, n), 0 < since, since <= time,
         time <= n, t.last <= time
  PROVE  Within(u, n) /\ u.beats > 0
BY DEF Filled, Within, Txn

-----------------------------------------------------------------------------
(* Order within an id, for one direction: open and completed transactions. *)

LEMMA OrderOpened ==
  ASSUME NEW p \in SUBSET Txn, NEW c \in SUBSET Txn, NEW lo \in Nat, NEW n,
         NEW x, Opened(x, lo, n), Below(p, lo), Below(c, lo),
         SameIdInOrder(p, c)
  PROVE  SameIdInOrder(p \union {x}, c)
BY DEF SameIdInOrder, Opened, Below, Txn

LEMMA OrderReplaced ==
  ASSUME NEW p, NEW c, NEW t \in p, NEW u, u.seq = t.seq, u.id = t.id,
         SameIdInOrder(p, c)
  PROVE  SameIdInOrder((p \ {t}) \union {u}, c)
BY DEF SameIdInOrder

LEMMA OrderDropped ==
  ASSUME NEW p, NEW c, SameIdInOrder(p, c)
  PROVE  SameIdInOrder({}, c)
BY DEF SameIdInOrder

\* The oldest open transaction of its id is completed at time n.
LEMMA OrderCompleted ==
  ASSUME NEW p \in SUBSET Txn, NEW c \in SUBSET Txn, NEW t \in p, NEW u \in Txn,
         u.seq = t.seq, u.id = t.id, NEW n \in Nat, u.resp = n,
         Settled(c, n - 1), Inj(p),
         \A v \in p : v.id = t.id => t.seq <= v.seq,
         SameIdInOrder(p, c)
  PROVE  SameIdInOrder(p \ {t}, c \union {u})
<1>1. \A v \in p \ {t} : v.id = u.id => u.seq < v.seq
  BY DEF Inj, Txn
<1>2. \A w \in c : w.id = u.id => w.seq < u.seq /\ w.resp < u.resp
  BY DEF SameIdInOrder, Settled, Txn
<1>3. ASSUME NEW a \in c \union {u}, NEW v \in p \ {t}, v.id = a.id
      PROVE  a.seq < v.seq
  BY <1>1, <1>3 DEF SameIdInOrder
<1>4. ASSUME NEW a \in c \union {u}, NEW v \in c \union {u}, v.id = a.id,
             a.seq < v.seq
      PROVE  a.resp < v.resp
  BY <1>2, <1>4 DEF SameIdInOrder, Txn
<1>5. QED
  BY <1>3, <1>4 DEF SameIdInOrder

\* What was settled stays so, and a transaction completed at n joins it.
LEMMA SettledLater ==
  ASSUME NEW c \in SUBSET Txn, NEW m \in Int, NEW n \in Int, m <= n, Settled(c, m)
  PROVE  Settled(c, n)
BY DEF Settled, Txn

LEMMA SettledAdd ==
  ASSUME NEW c \in SUBSET Txn, NEW n \in Nat, Settled(c, n), NEW u \in Txn,
         Within(u, n), u.beats > 0, u.resp = n
  PROVE  Settled(c \union {u}, n)
BY DEF Settled, Within, Txn

LEMMA WithinLater ==
  ASSUME NEW t \in Txn, NEW m \in Nat, NEW n \in Nat, m <= n, Within(t, m)
  PROVE  Within(t, n)
BY DEF Within, Txn

\* The first conjunct of DataInAddressOrder, for a set of open writes.
AddressOrdered(p) ==
  \A t, u \in p :
    t.seq < u.seq => (u.complete => t.complete) /\ (u.beats > 0 => t.complete)

LEMMA AddressOpened ==
  ASSUME NEW p \in SUBSET Txn, NEW lo \in Nat, NEW n, NEW x, Opened(x, lo, n),
         Below(p, lo), AddressOrdered(p)
  PROVE  AddressOrdered(p \union {x})
<1> SUFFICES ASSUME NEW t \in p \union {x}, NEW u \in p \union {x}, t.seq < u.seq
             PROVE  (u.complete => t.complete) /\ (u.beats > 0 => t.complete)
  BY DEF AddressOrdered
<1>1. CASE u = x
  BY <1>1 DEF Opened
<1>2. CASE u \in p /\ t = x
  BY <1>2 DEF Opened, Below, Txn
<1>3. CASE u \in p /\ t \in p
  BY <1>3 DEF AddressOrdered
<1> QED
  BY <1>1, <1>2, <1>3

\* BeatTimes, for a buffer q of beats and a set p of open writes.
Queued(q, p, n) ==
  /\ \A i \in DOMAIN q : BeatWithin(q[i], n) /\ \A t \in p : t.last <= q[i].time
  /\ \A i, j \in DOMAIN q : i <= j => q[i].time <= q[j].time

LEMMA QueuedLater ==
  ASSUME NEW q \in Seq(WBeat), NEW p, NEW p2, NEW n \in Nat, Queued(q, p, n),
         \A t \in p2 : t \in p \/ t.last = 0
  PROVE  Queued(q, p2, n + 1)
<1>1. ASSUME NEW i \in DOMAIN q
      PROVE  BeatWithin(q[i], n + 1) /\ \A t \in p2 : t.last <= q[i].time
  <2>1. q[i] \in WBeat
    OBVIOUS
  <2>2. q[i].begin \in Nat /\ q[i].time \in Nat
    BY <2>1 DEF WBeat
  <2>3. BeatWithin(q[i], n) /\ \A t \in p : t.last <= q[i].time
    BY DEF Queued
  <2> QED
    BY <2>2, <2>3 DEF BeatWithin
<1> QED
  BY <1>1 DEF Queued

LEMMA QueuedAppend ==
  ASSUME NEW q \in Seq(WBeat), NEW p, NEW n \in Nat, Queued(q, p, n),
         NEW b \in WBeat, BeatWithin(b, n), b.time = n,
         \A t \in p : t.last <= n
  PROVE  Queued(Append(q, b), p, n)
<1> DEFINE r == Append(q, b)
<1>1. /\ DOMAIN q = 1 .. Len(q) /\ DOMAIN r = 1 .. Len(q) + 1 /\ Len(q) \in Nat
      /\ \A i \in DOMAIN q : r[i] = q[i]
      /\ r[Len(q) + 1] = b
  OBVIOUS
<1> HIDE DEF r
<1>2. \A i \in DOMAIN r : i \in DOMAIN q \/ i = Len(q) + 1
  BY <1>1
<1>3. \A i \in DOMAIN q : q[i].time <= n
  BY DEF Queued, BeatWithin
<1>4. \A i \in DOMAIN r : BeatWithin(r[i], n) /\ \A t \in p : t.last <= r[i].time
  BY <1>1, <1>2 DEF Queued
<1>5. ASSUME NEW i \in DOMAIN r, NEW j \in DOMAIN r, i <= j
      PROVE  r[i].time <= r[j].time
  <2>1. CASE j \in DOMAIN q
    BY <1>1, <1>5, <2>1 DEF Queued
  <2>2. CASE j = Len(q) + 1 /\ i \in DOMAIN q
    BY <1>1, <1>3, <2>2
  <2>3. CASE j = Len(q) + 1 /\ i = Len(q) + 1
    BY <1>1, <2>3
  <2> QED
    BY <1>2, <2>1, <2>2, <2>3
<1>6. Queued(r, p, n)
  BY <1>4, <1>5 DEF Queued
<1> QED
  BY <1>6 DEF r

-----------------------------------------------------------------------------
(* consume() up to drain_w_beats(). *)

LEMMA ConsumeEffect ==
  ASSUME TypeOK, BeginTimes, NEW s \in Samples, Consume(s)
  PROVE  /\ pc = "ready" /\ pc' = "drain" /\ now' = now + 1 /\ cur' = s
         /\ \/ UNCHANGED pending_writes
            \/ \E x : /\ Opened(x, next_seq, now + 1)
                      /\ pending_writes' = pending_writes \union {x}
         /\ \/ UNCHANGED pending_reads
            \/ \E x : /\ Opened(x, next_seq, now + 1)
                      /\ pending_reads' = pending_reads \union {x}
         /\ \/ UNCHANGED w_beats
            \/ \E b \in WBeat : /\ BeatWithin(b, now + 1) /\ b.time = now + 1
                                /\ w_beats' = Append(w_beats, b)
         /\ UNCHANGED <<writes, reads>>
         /\ BeginTimes'
<1> DEFINE aws == IF s.aw \in AddrBeat THEN 1 ELSE 0
           ars == IF s.ar \in AddrBeat THEN 1 ELSE 0
           ws == IF s.w \in DataBeat THEN 1 ELSE 0
           T(ch, since) == Track(ch, since, now + 1)
<1>1. /\ now \in Nat /\ next_seq \in Nat
      /\ begin.aw \in Nat /\ begin.w \in Nat /\ begin.ar \in Nat /\ begin.r \in Nat
      /\ begin.aw <= now /\ begin.w <= now /\ begin.ar <= now /\ begin.r <= now
  BY DEF TypeOK, Begin, BeginTimes
<1>2. /\ T(s.aw, begin.aw) \in Nat /\ T(s.aw, begin.aw) <= now + 1
      /\ s.aw # Idle => 0 < T(s.aw, begin.aw)
  BY <1>1, TrackWithin
<1>3. /\ T(s.ar, begin.ar) \in Nat /\ T(s.ar, begin.ar) <= now + 1
      /\ s.ar # Idle => 0 < T(s.ar, begin.ar)
  BY <1>1, TrackWithin
<1>4. /\ T(s.w, begin.w) \in Nat /\ T(s.w, begin.w) <= now + 1
      /\ s.w # Idle => 0 < T(s.w, begin.w)
  BY <1>1, TrackWithin
<1>5. /\ T(s.r, begin.r) \in Nat /\ T(s.r, begin.r) <= now + 1
      /\ s.r # Idle => 0 < T(s.r, begin.r)
  BY <1>1, TrackWithin
<1>6. Idle \notin AddrBeat /\ Idle \notin DataBeat
  BY AxiAssumption
<1>7. \/ UNCHANGED pending_writes
      \/ \E x : /\ Opened(x, next_seq, now + 1)
                /\ pending_writes' = pending_writes \union {x}
  <2>1. CASE s.aw \in AddrBeat
    <3> DEFINE x == NewTxn(next_seq + 1, s.aw, T(s.aw, begin.aw), now + 1)
    <3>1. 0 < T(s.aw, begin.aw)
      BY <1>2, <1>6, <2>1
    <3> HIDE DEF T
    <3>2. Opened(x, next_seq, now + 1)
      BY <1>1, <1>2, <2>1, <3>1, NewTxnOpened
    <3>3. pending_writes' = pending_writes \union {x}
      BY <2>1 DEF Consume, AcceptAw, T
    <3> QED
      BY <3>2, <3>3
  <2>2. CASE s.aw \notin AddrBeat
    BY <2>2 DEF Consume, AcceptAw
  <2> QED
    BY <2>1, <2>2
<1>8. \/ UNCHANGED pending_reads
      \/ \E x : /\ Opened(x, next_seq, now + 1)
                /\ pending_reads' = pending_reads \union {x}
  <2>1. CASE s.ar \in AddrBeat
    <3> DEFINE q == next_seq + aws + 1
               x == NewTxn(q, s.ar, T(s.ar, begin.ar), now + 1)
    <3>1. 0 < T(s.ar, begin.ar)
      BY <1>3, <1>6, <2>1
    <3>2. q \in Nat /\ next_seq < q
      BY <1>1
    <3>3. pending_reads' = pending_reads \union {x}
      BY <2>1 DEF Consume, AcceptAr
    <3> HIDE DEF T, q
    <3>4. Opened(x, next_seq, now + 1)
      BY <1>1, <1>3, <2>1, <3>1, <3>2, NewTxnOpened
    <3> QED
      BY <3>3, <3>4
  <2>2. CASE s.ar \notin AddrBeat
    BY <2>2 DEF Consume, AcceptAr
  <2> QED
    BY <2>1, <2>2
<1>9. \/ UNCHANGED w_beats
      \/ \E b \in WBeat : /\ BeatWithin(b, now + 1) /\ b.time = now + 1
                          /\ w_beats' = Append(w_beats, b)
  <2>1. CASE s.w \in DataBeat
    <3> DEFINE b == [begin |-> T(s.w, begin.w), time |-> now + 1, last |-> s.w.last]
    <3>1. w_beats' = Append(w_beats, b)
      BY <2>1 DEF Consume, AcceptW
    <3>2. s.w.last \in BOOLEAN /\ 0 < T(s.w, begin.w)
      BY <1>4, <1>6, <2>1 DEF DataBeat
    <3> HIDE DEF T
    <3>3. b \in WBeat /\ BeatWithin(b, now + 1) /\ b.time = now + 1
      BY <1>1, <1>4, <3>2 DEF WBeat, BeatWithin
    <3> QED
      BY <3>1, <3>3
  <2>2. CASE s.w \notin DataBeat
    BY <2>2 DEF Consume, AcceptW
  <2> QED
    BY <2>1, <2>2
<1>10. /\ pc = "ready" /\ pc' = "drain" /\ now' = now + 1 /\ cur' = s
       /\ UNCHANGED <<writes, reads>>
  BY DEF Consume
<1>11. BeginTimes'
  <2>1. /\ begin'.aw \in {0, T(s.aw, begin.aw)} /\ begin'.w \in {0, T(s.w, begin.w)}
        /\ begin'.ar \in {0, T(s.ar, begin.ar)} /\ begin'.r = T(s.r, begin.r)
    BY DEF Consume, NextBegin
  <2> HIDE DEF T
  <2> QED
    BY <1>1, <1>2, <1>3, <1>4, <1>5, <1>10, <2>1 DEF BeginTimes
<1> QED
  BY <1>7, <1>8, <1>9, <1>10, <1>11

LEMMA ConsumeOrder ==
  ASSUME TypeOK, SeqInv, OrderInv, NEW s \in Samples, Consume(s)
  PROVE  OrderInv'
<1>1. /\ pc = "ready" /\ pc' = "drain" /\ now' = now + 1
      /\ UNCHANGED <<writes, reads>> /\ BeginTimes'
  BY ConsumeEffect DEF OrderInv
<1>2. \/ UNCHANGED pending_writes
      \/ \E x : /\ Opened(x, next_seq, now + 1)
                /\ pending_writes' = pending_writes \union {x}
  BY ConsumeEffect DEF OrderInv
<1>3. \/ UNCHANGED pending_reads
      \/ \E x : /\ Opened(x, next_seq, now + 1)
                /\ pending_reads' = pending_reads \union {x}
  BY ConsumeEffect DEF OrderInv
<1>4. \/ UNCHANGED w_beats
      \/ \E b \in WBeat : /\ BeatWithin(b, now + 1) /\ b.time = now + 1
                          /\ w_beats' = Append(w_beats, b)
  BY ConsumeEffect DEF OrderInv
<1>5. /\ now \in Nat /\ next_seq \in Nat /\ w_beats \in Seq(WBeat)
      /\ pending_writes \in SUBSET Txn /\ pending_reads \in SUBSET Txn
      /\ writes \in SUBSET Txn /\ reads \in SUBSET Txn
  BY DEF TypeOK
<1>6. /\ Below(pending_writes, next_seq) /\ Below(writes, next_seq)
      /\ Below(pending_reads, next_seq) /\ Below(reads, next_seq)
  BY DEF SeqInv
<1>7. DataInAddressOrder'
  <2>1. \A t, u \in pending_writes' :
          t.seq < u.seq => (u.complete => t.complete) /\ (u.beats > 0 => t.complete)
    <3>1. AddressOrdered(pending_writes)
      BY DEF OrderInv, DataInAddressOrder, AddressOrdered
    <3>2. AddressOrdered(pending_writes')
      BY <1>2, <1>5, <1>6, <3>1, AddressOpened
    <3> QED
      BY <3>2 DEF AddressOrdered
  <2> QED
    BY <1>1, <2>1 DEF DataInAddressOrder
<1>8. SameIdOrder'
  <2>1. SameIdInOrder(pending_writes, writes) /\ SameIdInOrder(pending_reads, reads)
    BY DEF OrderInv, SameIdOrder
  <2>2. SameIdInOrder(pending_writes', writes)
    BY <1>2, <1>5, <1>6, <2>1, OrderOpened
  <2>3. SameIdInOrder(pending_reads', reads)
    BY <1>3, <1>5, <1>6, <2>1, OrderOpened
  <2> QED
    BY <1>1, <2>2, <2>3 DEF SameIdOrder
<1>9. OpenTimes'
  <2>1. \A t \in pending_writes \union pending_reads : Within(t, now + 1)
    BY <1>5, WithinLater DEF OrderInv, OpenTimes
  <2> QED
    BY <1>1, <1>2, <1>3, <2>1 DEF OpenTimes, Opened
<1>10. BeatTimes'
  <2>1. \A t \in pending_writes' : t.last \in Nat /\ t.last <= now + 1
    BY <1>1, <1>2, <1>5, <1>9 DEF OpenTimes, Within, Txn, Opened
  <2>2. Queued(w_beats, pending_writes, now)
    BY DEF OrderInv, BeatTimes, Queued
  <2>3. \A t \in pending_writes' : t \in pending_writes \/ t.last = 0
    BY <1>2 DEF Opened
  <2>4. Queued(w_beats, pending_writes', now + 1)
    BY <1>5, <2>1, <2>2, <2>3, QueuedLater
  <2>5. Queued(w_beats', pending_writes', now + 1)
    <3>1. CASE UNCHANGED w_beats
      BY <2>4, <3>1
    <3>2. ASSUME NEW b \in WBeat, BeatWithin(b, now + 1), b.time = now + 1,
                 w_beats' = Append(w_beats, b)
          PROVE  Queued(w_beats', pending_writes', now + 1)
      <4>1. now + 1 \in Nat /\ \A t \in pending_writes' : t.last <= now + 1
        BY <1>5, <2>1
      <4>2. Queued(Append(w_beats, b), pending_writes', now + 1)
        BY <1>5, <2>4, <3>2, <4>1, QueuedAppend
      <4> QED
        BY <3>2, <4>2
    <3> QED
      BY <1>4, <3>1, <3>2
  <2> QED
    BY <1>1, <2>5 DEF BeatTimes, Queued
<1>11. ClosedTimes'
  <2>1. Past' = now /\ Past = now
    BY <1>1, <1>5 DEF Past
  <2> QED
    BY <1>1, <2>1 DEF OrderInv, ClosedTimes
<1> QED
  BY <1>1, <1>7, <1>8, <1>9, <1>10, <1>11 DEF OrderInv

-----------------------------------------------------------------------------
(* One turn of drain_w_beats(). *)

LEMMA DrainEffect ==
  ASSUME TypeOK, DrainBeat
  PROVE  \E t \in pending_writes, u \in Txn :
           /\ t \in Txn /\ ~t.complete
           /\ \A v \in pending_writes : ~v.complete => t.seq <= v.seq
           /\ w_beats # <<>> /\ w_beats[1] \in WBeat
           /\ Filled(t, u, w_beats[1].time, w_beats[1].begin)
           /\ w_beats' = Tail(w_beats)
           /\ pending_writes' = (pending_writes \ {t}) \union {u}
<1> DEFINE beat == Head(w_beats)
           t == First(Unfinished)
           v == AddBeat(t, beat.time, beat.begin)
           u == [v EXCEPT !.complete = beat.last]
<1>1. w_beats # <<>> /\ beat = w_beats[1] /\ beat \in WBeat
  BY DEF TypeOK, DrainBeat
<1>2. /\ t \in pending_writes /\ t \in Txn /\ ~t.complete
      /\ \A x \in pending_writes : ~x.complete => t.seq <= x.seq
  <2>1. Unfinished \in SUBSET Txn /\ Unfinished # {}
    BY DEF TypeOK, DrainBeat, Unfinished
  <2>2. t \in Unfinished /\ \A x \in Unfinished : t.seq <= x.seq
    BY <2>1, FirstIsOldest
  <2> HIDE DEF t
  <2> QED
    BY <2>1, <2>2 DEF Unfinished
<1>3. w_beats' = Tail(w_beats) /\ pending_writes' = (pending_writes \ {t}) \union {u}
  BY DEF DrainBeat
<1>4. beat.time \in Nat /\ beat.begin \in Nat /\ beat.last \in BOOLEAN
  BY <1>1 DEF WBeat
<1> HIDE DEF t, beat
<1>5. v \in Txn /\ Filled(t, v, beat.time, beat.begin)
  BY <1>2, <1>4, AddBeatFilled, AddBeatType
<1> HIDE DEF v
<1>6. Filled(t, u, beat.time, beat.begin)
  <2> DEFINE time == beat.time
             since == beat.begin
             last == beat.last
  <2>1. time \in Nat /\ since \in Nat /\ last \in BOOLEAN /\ Filled(t, v, time, since)
    BY <1>4, <1>5
  <2> HIDE DEF time, since, last
  <2>2. Filled(t, [v EXCEPT !.complete = last], time, since)
    BY <1>2, <1>5, <2>1, FilledMarked
  <2> QED
    BY <2>2 DEF time, since, last
<1>7. u \in Txn
  BY <1>6 DEF Filled
<1> HIDE DEF u
<1> QED
  BY <1>1, <1>2, <1>3, <1>6, <1>7

LEMMA DrainOrder ==
  ASSUME TypeOK, SeqInv, OrderInv, DrainBeat
  PROVE  OrderInv'
<1>1. PICK t \in pending_writes, u \in Txn :
        /\ t \in Txn /\ ~t.complete
        /\ \A v \in pending_writes : ~v.complete => t.seq <= v.seq
        /\ w_beats # <<>> /\ w_beats[1] \in WBeat
        /\ Filled(t, u, w_beats[1].time, w_beats[1].begin)
        /\ w_beats' = Tail(w_beats)
        /\ pending_writes' = (pending_writes \ {t}) \union {u}
  BY DrainEffect
<1>2. /\ pc = "drain" /\ pc' = "drain"
      /\ UNCHANGED <<now, cur, begin, writes, pending_reads, reads>>
  BY DEF DrainBeat, readVars
<1>3. /\ now \in Nat /\ w_beats \in Seq(WBeat) /\ pending_writes \in SUBSET Txn
      /\ Inj(pending_writes)
  BY DEF TypeOK, SeqInv, Distinct
<1> DEFINE time == w_beats[1].time
           since == w_beats[1].begin
<1>4. 1 \in DOMAIN w_beats /\ time \in Nat /\ since \in Nat
  BY <1>1, <1>3 DEF WBeat
<1>5. /\ BeatWithin(w_beats[1], now)
      /\ \A v \in pending_writes : v.last <= time
      /\ \A i \in DOMAIN w_beats : time <= w_beats[i].time
  BY <1>3, <1>4 DEF OrderInv, BeatTimes
<1>6. Within(u, now) /\ u.last = time
  <2>1. Within(t, now) /\ 0 < since /\ since <= time /\ time <= now /\ t.last <= time
    BY <1>5 DEF OrderInv, OpenTimes, BeatWithin
  <2>2. Filled(t, u, time, since)
    BY <1>1
  <2> HIDE DEF time, since
  <2>3. Within(u, now)
    BY <1>1, <1>3, <1>4, <2>1, <2>2, FilledWithin
  <2> QED
    BY <2>2, <2>3 DEF Filled
<1>7. AddressOrdered(pending_writes')
  <2> SUFFICES ASSUME NEW a \in pending_writes', NEW b \in pending_writes',
                      a.seq < b.seq
               PROVE  (b.complete => a.complete) /\ (b.beats > 0 => a.complete)
    BY DEF AddressOrdered
  <2>1. u.seq = t.seq /\ t.seq \in Nat
    BY <1>1 DEF Filled, Txn
  <2>2. AddressOrdered(pending_writes)
    BY DEF OrderInv, DataInAddressOrder, AddressOrdered
  <2>3. CASE b = u
    <3>0. a # u
      BY <2>1, <2>3
    <3>1. a \in pending_writes /\ a.seq \in Nat /\ a.seq < t.seq
      BY <1>1, <1>3, <2>1, <2>3, <3>0 DEF Txn
    <3> QED
      BY <1>1, <2>1, <3>1
  <2>4. CASE a = u /\ b \in pending_writes
    <3>1. ~b.complete /\ ~(b.beats > 0)
      BY <1>1, <2>1, <2>2, <2>4 DEF AddressOrdered
    <3> QED
      BY <3>1
  <2>5. CASE a \in pending_writes /\ b \in pending_writes
    BY <2>2, <2>5 DEF AddressOrdered
  <2> QED
    BY <1>1, <2>3, <2>4, <2>5
<1>8. DataInAddressOrder'
  BY <1>2, <1>7 DEF DataInAddressOrder, AddressOrdered
<1>9. SameIdOrder'
  <2>1. u.seq = t.seq /\ u.id = t.id /\ SameIdInOrder(pending_writes, writes)
    BY <1>1 DEF Filled, OrderInv, SameIdOrder
  <2>2. SameIdInOrder(pending_writes', writes)
    BY <1>1, <2>1, OrderReplaced
  <2> QED
    BY <1>2, <2>2 DEF OrderInv, SameIdOrder
<1>10. OpenTimes'
  BY <1>1, <1>2, <1>6 DEF OrderInv, OpenTimes
<1>11. BeatTimes'
  <2>1. \A i \in DOMAIN w_beats' : i + 1 \in DOMAIN w_beats /\ w_beats'[i] = w_beats[i + 1]
    BY <1>1, <1>3
  <2>2. DOMAIN w_beats' \subseteq Nat
    BY <1>1, <1>3
  <2>3. \A v \in pending_writes', i \in DOMAIN w_beats : v.last <= w_beats[i].time
    BY <1>1, <1>5, <1>6 DEF OrderInv, BeatTimes
  <2>4. ASSUME NEW i \in DOMAIN w_beats'
        PROVE  /\ BeatWithin(w_beats'[i], now)
               /\ \A v \in pending_writes' : v.last <= w_beats'[i].time
    BY <2>1, <2>3 DEF OrderInv, BeatTimes
  <2>5. ASSUME NEW i \in DOMAIN w_beats', NEW j \in DOMAIN w_beats', i <= j
        PROVE  w_beats'[i].time <= w_beats'[j].time
    <3>1. i + 1 <= j + 1
      BY <2>2, <2>5
    <3> QED
      BY <2>1, <3>1 DEF OrderInv, BeatTimes
  <2> QED
    BY <1>2, <2>4, <2>5 DEF BeatTimes
<1>12. BeginTimes' /\ ClosedTimes'
  BY <1>2 DEF OrderInv, BeginTimes, ClosedTimes, Past
<1> QED
  BY <1>8, <1>9, <1>10, <1>11, <1>12 DEF OrderInv

-----------------------------------------------------------------------------
(* The rest of consume(): the responses. *)

\* u is t answered at n.
Answered(t, u, n) ==
  /\ u \in Txn /\ u.seq = t.seq /\ u.id = t.id
  /\ u.begin = t.begin /\ u.addr = t.addr /\ u.beats = t.beats
  /\ u.firstBegin = t.firstBegin /\ u.first = t.first /\ u.last = t.last
  /\ u.complete = t.complete /\ u.resp = n

LEMMA AnsweredWithin ==
  ASSUME NEW t \in Txn, NEW u, NEW n, Answered(t, u, n), Within(t, n)
  PROVE  Within(u, n)
BY DEF Answered, Within

LEMMA RespondWriteEffect ==
  ASSUME TypeOK, Respond
  PROVE  \/ UNCHANGED <<pending_writes, writes>>
         \/ \E t \in pending_writes, u \in Txn :
              /\ t \in Txn /\ t.complete /\ Answered(t, u, now)
              /\ \A v \in pending_writes :
                   v.complete /\ v.id = t.id => t.seq <= v.seq
              /\ pending_writes' = pending_writes \ {t}
              /\ writes' = writes \union {u}
<1>1. CASE cur.b \in Ids /\ Answerable(cur.b) # {}
  <2> DEFINE t == First(Answerable(cur.b))
             early == now <= t.addr \/ now <= t.last
             u == [t EXCEPT !.resp = now, !.violation = early]
  <2>1. /\ t \in pending_writes /\ t \in Txn /\ t.complete
        /\ \A v \in pending_writes : v.complete /\ v.id = t.id => t.seq <= v.seq
    <3>1. Answerable(cur.b) \in SUBSET Txn
      BY DEF TypeOK, Answerable
    <3>2. t \in Answerable(cur.b) /\ \A v \in Answerable(cur.b) : t.seq <= v.seq
      BY <1>1, <3>1, FirstIsOldest
    <3> HIDE DEF t
    <3> QED
      BY <3>1, <3>2 DEF Answerable
  <2>2. Answered(t, u, now)
    <3>1. early \in BOOLEAN /\ now \in Nat
      BY DEF TypeOK
    <3> HIDE DEF early, t
    <3> QED
      BY <2>1, <3>1 DEF Txn, Answered
  <2>3. pending_writes' = pending_writes \ {t} /\ writes' = writes \union {u}
    BY <1>1 DEF Respond, CompleteWrite
  <2> HIDE DEF t, u
  <2> QED
    BY <2>1, <2>2, <2>3 DEF Answered
<1>2. CASE ~(cur.b \in Ids /\ Answerable(cur.b) # {})
  BY <1>2 DEF Respond
<1> QED
  BY <1>1, <1>2

LEMMA RespondReadEffect ==
  ASSUME TypeOK, Respond
  PROVE  \/ UNCHANGED <<pending_reads, reads>>
         \/ \E t \in pending_reads, u \in Txn :
              /\ cur.r # Idle /\ t \in Txn /\ Filled(t, u, now, begin.r)
              /\ \A v \in pending_reads : v.id = t.id => t.seq <= v.seq
              /\ \/ /\ pending_reads' = (pending_reads \ {t}) \union {u}
                    /\ UNCHANGED reads
                    /\ u.complete = t.complete
                 \/ /\ pending_reads' = pending_reads \ {t}
                    /\ reads' = reads \union {u}
                    /\ u.resp = now
<1>1. CASE cur.r \in ReadBeat /\ OpenReads(cur.r.id) # {}
  <2> DEFINE t == First(OpenReads(cur.r.id))
             v == AddBeat(t, now, begin.r)
             u == [v EXCEPT !.complete = TRUE, !.resp = now]
  <2>1. /\ t \in pending_reads /\ t \in Txn
        /\ \A x \in pending_reads : x.id = t.id => t.seq <= x.seq
    <3>1. OpenReads(cur.r.id) \in SUBSET Txn
      BY DEF TypeOK, OpenReads, OfId
    <3>2. t \in OpenReads(cur.r.id) /\ \A x \in OpenReads(cur.r.id) : t.seq <= x.seq
      BY <1>1, <3>1, FirstIsOldest
    <3> HIDE DEF t
    <3> QED
      BY <3>1, <3>2 DEF OpenReads, OfId
  <2>2. now \in Nat /\ begin.r \in Nat /\ cur.r # Idle
    BY <1>1, AxiAssumption DEF TypeOK, Begin
  <2>3. CompleteRead(cur.r)
    BY <1>1 DEF Respond
  <2>4. CASE cur.r.last
    <3>1. pending_reads' = pending_reads \ {t} /\ reads' = reads \union {u}
      BY <2>3, <2>4 DEF CompleteRead
    <3> HIDE DEF t
    <3>2. v \in Txn /\ Filled(t, v, now, begin.r)
      BY <2>1, <2>2, AddBeatType, AddBeatFilled
    <3> HIDE DEF v
    <3> DEFINE since == begin.r
    <3>3. u = CompletedAt(v, now) /\ since \in Nat
      BY <2>2 DEF CompletedAt
    <3> HIDE DEF u, since
    <3>4. Filled(t, v, now, since)
      BY <3>2 DEF since
    <3>5. Filled(t, u, now, since) /\ u.resp = now
      BY <2>1, <2>2, <3>2, <3>3, <3>4, FilledAnswered
    <3>6. Filled(t, u, now, begin.r)
      BY <3>5 DEF since
    <3> QED
      BY <2>1, <2>2, <3>1, <3>5, <3>6 DEF Filled
  <2>5. CASE ~cur.r.last
    <3>1. pending_reads' = (pending_reads \ {t}) \union {v} /\ UNCHANGED reads
      BY <2>3, <2>5 DEF CompleteRead
    <3> HIDE DEF t
    <3>2. v \in Txn /\ Filled(t, v, now, begin.r) /\ v.complete = t.complete
      BY <2>1, <2>2, AddBeatType, AddBeatFilled
    <3> HIDE DEF v
    <3> QED
      BY <2>1, <2>2, <3>1, <3>2
  <2> QED
    BY <2>4, <2>5
<1>2. CASE ~(cur.r \in ReadBeat /\ OpenReads(cur.r.id) # {})
  BY <1>2 DEF Respond, readVars
<1> QED
  BY <1>1, <1>2

LEMMA RespondOrder ==
  ASSUME TypeOK, SeqInv, OrderInv, Respond
  PROVE  OrderInv'
<1>1. /\ pc = "respond" /\ pc' = "ready" /\ UNCHANGED <<now, w_beats>>
      /\ now \in Nat /\ begin \in Begin
      /\ pending_writes \in SUBSET Txn /\ pending_reads \in SUBSET Txn
      /\ writes \in SUBSET Txn /\ reads \in SUBSET Txn
      /\ Inj(pending_writes) /\ Inj(pending_reads)
  BY DEF Respond, TypeOK, SeqInv, Distinct
<1>2. Past = now - 1 /\ Past' = now
  BY <1>1 DEF Past
<1>3. /\ Settled(writes, now - 1) /\ Settled(reads, now - 1)
      /\ Settled(writes, now) /\ Settled(reads, now)
  BY <1>1, <1>2, SettledLater DEF OrderInv, ClosedTimes
<1>4. SameIdInOrder(pending_writes, writes) /\ SameIdInOrder(pending_reads, reads)
  BY DEF OrderInv, SameIdOrder
<1>5. AddressOrdered(pending_writes)
  BY DEF OrderInv, DataInAddressOrder, AddressOrdered
<1>6. /\ SameIdInOrder(pending_writes', writes') /\ Settled(writes', now)
      /\ pending_writes' \subseteq pending_writes
      /\ \A t \in pending_writes \ pending_writes' : t.complete
  <2>1. CASE UNCHANGED <<pending_writes, writes>>
    BY <1>3, <1>4, <2>1
  <2>2. ASSUME NEW t \in pending_writes, NEW u \in Txn, t \in Txn, t.complete,
               Answered(t, u, now),
               \A v \in pending_writes : v.complete /\ v.id = t.id => t.seq <= v.seq,
               pending_writes' = pending_writes \ {t}, writes' = writes \union {u}
        PROVE  /\ SameIdInOrder(pending_writes', writes') /\ Settled(writes', now)
               /\ pending_writes' \subseteq pending_writes
               /\ \A v \in pending_writes \ pending_writes' : v.complete
    <3>1. \A v \in pending_writes : v.id = t.id => t.seq <= v.seq
      <4> SUFFICES ASSUME NEW v \in pending_writes, v.id = t.id, ~(t.seq <= v.seq)
                   PROVE  FALSE
        OBVIOUS
      <4>1. v.seq < t.seq
        BY <1>1 DEF Txn
      <4>2. v.complete
        BY <1>5, <2>2, <4>1 DEF AddressOrdered
      <4> QED
        BY <2>2, <4>2
    <3>2. u.seq = t.seq /\ u.id = t.id /\ u.resp = now
      BY <2>2 DEF Answered
    <3>3. SameIdInOrder(pending_writes \ {t}, writes \union {u})
      BY <1>1, <1>3, <1>4, <3>1, <3>2, OrderCompleted
    <3>4. Within(u, now) /\ u.beats > 0
      <4>1. Within(t, now) /\ t.beats > 0
        BY <2>2 DEF OrderInv, OpenTimes, Within
      <4> QED
        BY <2>2, <4>1, AnsweredWithin DEF Answered
    <3>5. Settled(writes \union {u}, now)
      BY <1>1, <1>3, <3>2, <3>4, SettledAdd
    <3> QED
      BY <2>2, <3>3, <3>5
  <2> QED
    BY <2>1, <2>2, RespondWriteEffect
<1>7. /\ SameIdInOrder(pending_reads', reads') /\ Settled(reads', now)
      /\ \A t \in pending_reads' : Within(t, now)
  <2>0. \A t \in pending_reads : Within(t, now)
    BY DEF OrderInv, OpenTimes
  <2>1. CASE UNCHANGED <<pending_reads, reads>>
    BY <1>3, <1>4, <2>0, <2>1
  <2>2. ASSUME NEW t \in pending_reads, NEW u \in Txn, cur.r # Idle, t \in Txn,
               Filled(t, u, now, begin.r),
               \A v \in pending_reads : v.id = t.id => t.seq <= v.seq,
               \/ /\ pending_reads' = (pending_reads \ {t}) \union {u}
                  /\ UNCHANGED reads
                  /\ u.complete = t.complete
               \/ /\ pending_reads' = pending_reads \ {t}
                  /\ reads' = reads \union {u}
                  /\ u.resp = now
        PROVE  /\ SameIdInOrder(pending_reads', reads') /\ Settled(reads', now)
               /\ \A v \in pending_reads' : Within(v, now)
    <3>1. u.seq = t.seq /\ u.id = t.id
      BY <2>2 DEF Filled
    <3>2. Within(u, now) /\ u.beats > 0
      <4>1. 0 < begin.r /\ begin.r <= now /\ begin.r \in Nat
        BY <1>1, <2>2 DEF OrderInv, BeginTimes, Begin
      <4>2. Within(t, now) /\ t.last <= now
        BY <2>0 DEF Within
      <4> QED
        BY <1>1, <2>2, <4>1, <4>2, FilledWithin
    <3>3. CASE /\ pending_reads' = (pending_reads \ {t}) \union {u}
               /\ UNCHANGED reads
      BY <1>3, <1>4, <2>0, <3>1, <3>2, <3>3, OrderReplaced
    <3>4. CASE /\ pending_reads' = pending_reads \ {t}
               /\ reads' = reads \union {u}
               /\ u.resp = now
      <4>1. SameIdInOrder(pending_reads \ {t}, reads \union {u})
        BY <1>1, <1>3, <1>4, <2>2, <3>1, <3>4, OrderCompleted
      <4>2. Settled(reads \union {u}, now)
        BY <1>1, <1>3, <3>2, <3>4, SettledAdd
      <4> QED
        BY <2>0, <3>4, <4>1, <4>2
    <3> QED
      BY <2>2, <3>3, <3>4
  <2> QED
    BY <2>1, <2>2, RespondReadEffect
<1>8. DataInAddressOrder'
  <2>1. w_beats = <<>> \/ Unfinished = {}
    BY <1>1 DEF OrderInv, DataInAddressOrder
  <2>2. Unfinished' \subseteq Unfinished
    BY <1>6 DEF Unfinished
  <2> QED
    BY <1>1, <1>5, <1>6, <2>1, <2>2 DEF DataInAddressOrder, AddressOrdered
<1>9. SameIdOrder' /\ ClosedTimes'
  BY <1>2, <1>6, <1>7 DEF SameIdOrder, ClosedTimes
<1>10. OpenTimes' /\ BeatTimes'
  BY <1>1, <1>6, <1>7 DEF OrderInv, OpenTimes, BeatTimes
<1>11. BeginTimes'
  <2>1. \/ begin' = begin
        \/ begin' = [begin EXCEPT !.r = 0]
    BY DEF Respond
  <2> QED
    BY <1>1, <2>1 DEF OrderInv, BeginTimes, Begin
<1> QED
  BY <1>8, <1>9, <1>10, <1>11 DEF OrderInv

-----------------------------------------------------------------------------
(* Reset, the end of a drain and finish(). *)

LEMMA ResetOrder ==
  ASSUME TypeOK, OrderInv, NEW s \in Samples, ConsumeReset(s)
  PROVE  OrderInv'
<1>1. /\ pc = "ready" /\ pc' = "ready" /\ now' = now + 1 /\ now \in Nat
      /\ w_beats' = <<>> /\ pending_writes' = {} /\ pending_reads' = {}
      /\ UNCHANGED <<writes, reads>>
      /\ begin' = [aw |-> 0, w |-> 0, ar |-> 0, r |-> 0]
      /\ writes \in SUBSET Txn /\ reads \in SUBSET Txn
  BY DEF ConsumeReset, TypeOK
<1>2. DataInAddressOrder' /\ OpenTimes' /\ BeatTimes' /\ BeginTimes'
  BY <1>1 DEF DataInAddressOrder, OpenTimes, BeatTimes, BeginTimes
<1>3. SameIdOrder'
  BY <1>1, OrderDropped DEF OrderInv, SameIdOrder
<1>4. ClosedTimes'
  <2>1. Past = now /\ Past' = now + 1
    BY <1>1 DEF Past
  <2> QED
    BY <1>1, <2>1, SettledLater DEF OrderInv, ClosedTimes
<1> QED
  BY <1>2, <1>3, <1>4 DEF OrderInv

LEMMA DrainDoneOrder ==
  ASSUME OrderInv, DrainDone
  PROVE  OrderInv'
<1>1. /\ pc = "drain" /\ pc' = "respond" /\ (w_beats = <<>> \/ Unfinished = {})
      /\ UNCHANGED <<now, cur, begin, w_beats, pending_writes, writes,
                     pending_reads, reads>>
  BY DEF DrainDone, writeVars, readVars
<1>2. DataInAddressOrder'
  BY <1>1 DEF OrderInv, DataInAddressOrder, Unfinished
<1> QED
  BY <1>1, <1>2 DEF OrderInv, SameIdOrder, OpenTimes, BeatTimes, BeginTimes,
                    ClosedTimes, Past

LEMMA QuietOrder ==
  ASSUME OrderInv,
         pc' = pc \/ (pc = "ready" /\ pc' = "finished"),
         UNCHANGED <<now, cur, begin, w_beats, pending_writes, writes,
                     pending_reads, reads>>
  PROVE  OrderInv'
<1>1. DataInAddressOrder'
  BY DEF OrderInv, DataInAddressOrder, Unfinished
<1>2. Past' = Past
  BY DEF Past
<1> QED
  BY <1>1, <1>2 DEF OrderInv, SameIdOrder, OpenTimes, BeatTimes, BeginTimes,
                    ClosedTimes

LEMMA InitOrder == Init => OrderInv
<1> SUFFICES ASSUME Init PROVE OrderInv
  OBVIOUS
<1>1. DataInAddressOrder /\ SameIdOrder
  BY DEF Init, DataInAddressOrder, SameIdOrder, SameIdInOrder
<1>2. OpenTimes /\ BeatTimes /\ BeginTimes /\ ClosedTimes
  BY DEF Init, OpenTimes, BeatTimes, BeginTimes, ClosedTimes, Settled
<1> QED
  BY <1>1, <1>2 DEF OrderInv

LEMMA NextOrder == TrackerInv /\ OrderInv /\ [Next]_vars => OrderInv'
<1> SUFFICES ASSUME TrackerInv, OrderInv, [Next]_vars PROVE OrderInv'
  OBVIOUS
<1>0. TypeOK /\ SeqInv
  BY DEF TrackerInv
<1>1. ASSUME NEW s \in Samples, ConsumeReset(s) PROVE OrderInv'
  BY <1>0, <1>1, ResetOrder
<1>2. ASSUME NEW s \in Samples, Consume(s) PROVE OrderInv'
  BY <1>0, <1>2, ConsumeOrder
<1>3. CASE DrainBeat
  BY <1>0, <1>3, DrainOrder
<1>4. CASE DrainDone
  BY <1>4, DrainDoneOrder
<1>5. CASE Respond
  BY <1>0, <1>5, RespondOrder
<1>6. CASE Finish
  BY <1>6, QuietOrder DEF Finish, writeVars, readVars
<1>7. CASE UNCHANGED vars
  BY <1>7, QuietOrder DEF vars, writeVars, readVars
<1> QED
  BY <1>1, <1>2, <1>3, <1>4, <1>5, <1>6, <1>7 DEF Next

LEMMA OrderCorrect == Spec => [](TrackerInv /\ OrderInv)
<1>1. Init => TrackerInv /\ OrderInv
  BY InitInv, InitOrder
<1>2. TrackerInv /\ OrderInv /\ [Next]_vars => (TrackerInv /\ OrderInv)'
  BY NextInv, NextOrder
<1> QED
  BY <1>1, <1>2, PTL DEF Spec

\* drain_w_beats gives write data to writes in address order, however late
\* the addresses come and however many ids and bursts are open, and when it
\* returns no beat waits that a write could take.
THEOREM DataFollowsAddresses == Spec => []DataInAddressOrder
<1>1. OrderInv => DataInAddressOrder
  BY DEF OrderInv
<1> QED
  BY <1>1, OrderCorrect, PTL

\* complete_write and complete_read answer the transactions of an id in
\* address order and never let one overtake another, for any waveform.
THEOREM NoOvertaking == Spec => []SameIdOrder
<1>1. OrderInv => SameIdOrder
  BY DEF OrderInv
<1> QED
  BY <1>1, OrderCorrect, PTL

-----------------------------------------------------------------------------
(***************************************************************************)
(* Valid phases.  A phase begins after the earlier handshakes of its       *)
(* channel because a handshake ends the phase it belongs to: whatever was  *)
(* shaken so far was shaken before the phase that is tracked now.  For W   *)
(* this must be known of the buffered beats too, and a write is filled     *)
(* only after all older ones, also after those completed in the meantime.  *)
(***************************************************************************)
\* The begin of a phase that is valid at n, "since" being tracked before.
Valid(since, n) == IF since = 0 THEN n ELSE since

\* Time m is earlier than the phase that is tracked, if one is.
BeforePhase(m, since) == since # 0 => m < since

AddressesApart(S, since, n) ==
  /\ \A t \in S : t.addr <= n /\ BeforePhase(t.addr, since)
  /\ \A t, u \in S : t.seq < u.seq => t.addr < u.begin

WriteDataApart(S, q, since, n) ==
  /\ \A t \in S : t.last <= n /\ BeforePhase(t.last, since)
  /\ \A i \in DOMAIN q : q[i].time <= n /\ BeforePhase(q[i].time, since)
  /\ \A i, j \in DOMAIN q : i < j => q[i].time < q[j].begin
  /\ \A t \in S, i \in DOMAIN q : t.last < q[i].begin
  /\ \A t, u \in S : t.seq < u.seq /\ u.beats > 0 => t.last < u.firstBegin

ReadDataApart(S, since, n) ==
  /\ \A t \in S : t.last <= n /\ BeforePhase(t.last, since)
  /\ \A t \in S : t.beats > 0 => t.first <= t.last
  /\ \A t, u \in S : t.beats > 0 /\ u.beats > 0 =>
       /\ t.first < u.first => t.first < u.firstBegin
       /\ t.last < u.first => t.last < u.firstBegin

AllWrites == pending_writes \union writes
AllReads == pending_reads \union reads

PhaseInv ==
  /\ AddressesApart(AllWrites, begin.aw, now)
  /\ AddressesApart(AllReads, begin.ar, now)
  /\ WriteDataApart(AllWrites, w_beats, begin.w, now)
  /\ ReadDataApart(AllReads, begin.r, now)
  /\ \A t \in writes \union reads : t.beats > 0
  /\ \A t \in pending_writes, u \in writes : t.seq < u.seq => t.complete

\* Some transaction of S has the fields of x that the phases are about.
Counterpart(x, S) ==
  \E t \in S : /\ x.seq = t.seq /\ x.begin = t.begin /\ x.addr = t.addr
               /\ x.beats = t.beats /\ x.firstBegin = t.firstBegin
               /\ x.first = t.first /\ x.last = t.last

LEMMA AddressesKept ==
  ASSUME NEW S, NEW S2, NEW since, NEW n, AddressesApart(S, since, n),
         \A x \in S2 : \E t \in S : /\ x.seq = t.seq /\ x.begin = t.begin
                                    /\ x.addr = t.addr
  PROVE  AddressesApart(S2, since, n)
BY DEF AddressesApart

LEMMA WriteDataKept ==
  ASSUME NEW S, NEW S2, NEW q, NEW since, NEW n, WriteDataApart(S, q, since, n),
         \A x \in S2 : Counterpart(x, S)
  PROVE  WriteDataApart(S2, q, since, n)
BY DEF WriteDataApart, Counterpart

LEMMA ReadDataKept ==
  ASSUME NEW S, NEW S2, NEW since, NEW n, ReadDataApart(S, since, n), S2 \subseteq S
  PROVE  ReadDataApart(S2, since, n)
BY DEF ReadDataApart

\* A channel at the next sample: the phase goes on, begins or is over.
LEMMA AddressesLater ==
  ASSUME NEW S \in SUBSET Txn, NEW since \in Nat, NEW n \in Nat,
         AddressesApart(S, since, n), NEW since2 \in {0, Valid(since, n + 1)}
  PROVE  AddressesApart(S, since2, n + 1)
BY DEF AddressesApart, BeforePhase, Valid, Txn

LEMMA WriteDataLater ==
  ASSUME NEW S \in SUBSET Txn, NEW q \in Seq(WBeat), NEW since \in Nat,
         NEW n \in Nat, WriteDataApart(S, q, since, n),
         NEW since2 \in {0, Valid(since, n + 1)}
  PROVE  WriteDataApart(S, q, since2, n + 1)
<1>1. ASSUME NEW m \in Nat, m <= n, BeforePhase(m, since)
      PROVE  m <= n + 1 /\ BeforePhase(m, since2)
  BY <1>1 DEF BeforePhase, Valid
<1>2. \A t \in S : t.last \in Nat
  BY DEF Txn
<1>3. \A i \in DOMAIN q : q[i].time \in Nat
  <2>1. \A i \in DOMAIN q : q[i] \in WBeat
    OBVIOUS
  <2> QED
    BY <2>1 DEF WBeat
<1> QED
  BY <1>1, <1>2, <1>3 DEF WriteDataApart

LEMMA ReadDataLater ==
  ASSUME NEW S \in SUBSET Txn, NEW since \in Nat, NEW n \in Nat,
         ReadDataApart(S, since, n), NEW since2 \in {0, Valid(since, n + 1)}
  PROVE  ReadDataApart(S, since2, n + 1)
BY DEF ReadDataApart, BeforePhase, Valid, Txn

\* A transaction opened at n + 1 by the handshake that ends the phase.
LEMMA AddressesOpened ==
  ASSUME NEW S \in SUBSET Txn, NEW since \in Nat, NEW n \in Nat, NEW lo \in Nat,
         AddressesApart(S, since, n), Below(S, lo),
         NEW x, Opened(x, lo, n + 1), x.addr = n + 1, x.begin = Valid(since, n + 1)
  PROVE  AddressesApart(S \union {x}, 0, n + 1)
<1>1. x \in Txn /\ lo < x.seq /\ x.seq \in Nat /\ x.begin \in Nat
  BY DEF Opened, Txn
<1>2. \A t \in S : /\ t.addr \in Nat /\ t.addr <= n /\ t.addr < x.begin
                   /\ t.seq \in Nat /\ t.seq < x.seq
  BY <1>1 DEF AddressesApart, BeforePhase, Valid, Below, Txn
<1> QED
  BY <1>1, <1>2 DEF AddressesApart, BeforePhase

LEMMA WriteDataOpened ==
  ASSUME NEW S \in SUBSET Txn, NEW q \in Seq(WBeat), NEW since \in Nat,
         NEW n \in Nat, NEW lo \in Nat, WriteDataApart(S, q, since, n),
         \A i \in DOMAIN q : 0 < q[i].begin, Below(S, lo), NEW x, NEW m,
         Opened(x, lo, m)
  PROVE  WriteDataApart(S \union {x}, q, since, n)
<1>1. x \in Txn /\ lo < x.seq /\ x.seq \in Nat /\ x.beats = 0 /\ x.last = 0
  BY DEF Opened, Txn
<1>2. \A t \in S : t.seq \in Nat /\ t.seq <= lo
  BY DEF Below, Txn
<1>3. \A t \in S : t.seq < x.seq
  BY <1>1, <1>2
<1> QED
  BY <1>1, <1>2, <1>3 DEF WriteDataApart, BeforePhase

LEMMA ReadDataOpened ==
  ASSUME NEW S \in SUBSET Txn, NEW since \in Nat, NEW n \in Nat, NEW lo,
         ReadDataApart(S, since, n), NEW x, NEW m, Opened(x, lo, m)
  PROVE  ReadDataApart(S \union {x}, since, n)
<1>1. x \in Txn /\ x.beats = 0 /\ x.last = 0
  BY DEF Opened
<1> QED
  BY <1>1 DEF ReadDataApart, BeforePhase

\* A beat buffered at n, by the handshake that ends the phase.
LEMMA WriteDataAppend ==
  ASSUME NEW S \in SUBSET Txn, NEW q \in Seq(WBeat), NEW since \in Nat,
         NEW n \in Nat, WriteDataApart(S, q, since, n),
         NEW b \in WBeat, b.time = n + 1, b.begin = Valid(since, n + 1)
  PROVE  WriteDataApart(S, Append(q, b), 0, n + 1)
<1> DEFINE r == Append(q, b)
<1>1. /\ DOMAIN q = 1 .. Len(q) /\ DOMAIN r = 1 .. Len(q) + 1 /\ Len(q) \in Nat
      /\ \A i \in DOMAIN q : r[i] = q[i] /\ q[i] \in WBeat
      /\ r[Len(q) + 1] = b
  OBVIOUS
<1> HIDE DEF r
<1>2. \A i \in DOMAIN r : i \in DOMAIN q \/ i = Len(q) + 1
  BY <1>1
<1>3. ASSUME NEW m \in Nat, m <= n, BeforePhase(m, since)
      PROVE  m <= n + 1 /\ m < b.begin
  BY <1>3 DEF BeforePhase, Valid
<1>4. \A t \in S : t.last <= n + 1 /\ t.last < b.begin
  BY <1>3 DEF WriteDataApart, Txn
<1>5. \A i \in DOMAIN q : q[i].time <= n + 1 /\ q[i].time < b.begin
  <2>1. \A i \in DOMAIN q : q[i].time \in Nat
    BY <1>1 DEF WBeat
  <2> QED
    BY <1>3, <2>1 DEF WriteDataApart
<1>6. \A i \in DOMAIN r : r[i].time <= n + 1
  BY <1>1, <1>2, <1>5
<1>7. ASSUME NEW i \in DOMAIN r, NEW j \in DOMAIN r, i < j
      PROVE  r[i].time < r[j].begin
  <2>1. CASE j \in DOMAIN q
    <3>1. i \in DOMAIN q
      BY <1>1, <1>7, <2>1
    <3> QED
      BY <1>1, <1>7, <2>1, <3>1 DEF WriteDataApart
  <2>2. CASE j = Len(q) + 1
    <3>1. i \in DOMAIN q
      BY <1>1, <1>7, <2>2
    <3> QED
      BY <1>1, <1>5, <2>2, <3>1
  <2> QED
    BY <1>2, <2>1, <2>2
<1>8. \A t \in S, i \in DOMAIN r : t.last < r[i].begin
  BY <1>1, <1>2, <1>4 DEF WriteDataApart
<1>9. WriteDataApart(S, r, 0, n + 1)
  BY <1>4, <1>6, <1>7, <1>8 DEF WriteDataApart, BeforePhase
<1> QED
  BY <1>9 DEF r

\* The oldest buffered beat goes to t; no younger write has data.
LEMMA WriteDataFilled ==
  ASSUME NEW S \in SUBSET Txn, NEW q \in Seq(WBeat), q # <<>>, NEW since, NEW n,
         WriteDataApart(S, q, since, n), NEW t \in S, NEW u \in Txn,
         Filled(t, u, q[1].time, q[1].begin),
         \A v \in S : t.seq < v.seq => ~(v.beats > 0),
         NEW S2, \A x \in S2 : x \in S \/ x = u
  PROVE  WriteDataApart(S2, Tail(q), since, n)
<1> DEFINE r == Tail(q)
<1>1. \A i \in DOMAIN r : /\ i + 1 \in DOMAIN q /\ r[i] = q[i + 1] /\ i \in Nat
                          /\ 1 < i + 1
  OBVIOUS
<1>2. 1 \in DOMAIN q
  OBVIOUS
<1> HIDE DEF r
<1>3. /\ u.seq = t.seq /\ u.last = q[1].time /\ t.seq \in Nat /\ t.beats \in Nat
      /\ t.beats = 0 => u.firstBegin = q[1].begin
      /\ t.beats # 0 => u.firstBegin = t.firstBegin
  BY DEF Filled, Txn
<1>4. \A x \in S2 : x.last <= n /\ BeforePhase(x.last, since)
  BY <1>2, <1>3 DEF WriteDataApart
<1>5. \A i \in DOMAIN r : r[i].time <= n /\ BeforePhase(r[i].time, since)
  BY <1>1 DEF WriteDataApart
<1>6. ASSUME NEW i \in DOMAIN r, NEW j \in DOMAIN r, i < j
      PROVE  r[i].time < r[j].begin
  <2>1. i + 1 < j + 1
    BY <1>1, <1>6
  <2> QED
    BY <1>1, <2>1 DEF WriteDataApart
<1>7. ASSUME NEW x \in S2, NEW i \in DOMAIN r
      PROVE  x.last < r[i].begin
  <2>1. CASE x \in S
    BY <1>1, <2>1 DEF WriteDataApart
  <2>2. CASE x = u
    BY <1>1, <1>2, <1>3, <2>2 DEF WriteDataApart
  <2> QED
    BY <2>1, <2>2
<1>8. ASSUME NEW x \in S2, NEW y \in S2, x.seq < y.seq, y.beats > 0
      PROVE  x.last < y.firstBegin
  <2>1. CASE x \in S /\ y \in S
    BY <1>8, <2>1 DEF WriteDataApart
  <2>2. CASE x = u /\ y \in S
    BY <1>3, <1>8, <2>2
  <2>3. CASE x \in S /\ y = u
    <3>1. CASE t.beats = 0
      BY <1>2, <1>3, <2>3, <3>1 DEF WriteDataApart
    <3>2. CASE t.beats # 0
      BY <1>3, <1>8, <2>3, <3>2 DEF WriteDataApart
    <3> QED
      BY <3>1, <3>2
  <2>4. CASE x = u /\ y = u
    BY <1>3, <1>8, <2>4
  <2> QED
    BY <2>1, <2>2, <2>3, <2>4
<1>9. WriteDataApart(S2, r, since, n)
  BY <1>4, <1>5, <1>6, <1>7, <1>8 DEF WriteDataApart
<1> QED
  BY <1>9 DEF r

\* A read beat at n, by the handshake that ends the phase.
LEMMA ReadDataFilled ==
  ASSUME NEW S \in SUBSET Txn, NEW since \in Nat, NEW n \in Nat, 0 < since,
         since <= n, ReadDataApart(S, since, n), NEW t \in S, NEW u \in Txn,
         Filled(t, u, n, since), NEW S2, \A x \in S2 : x \in S \/ x = u
  PROVE  ReadDataApart(S2, 0, n)
<1>1. /\ u.last = n /\ t.beats \in Nat
      /\ t.beats = 0 => u.first = n /\ u.firstBegin = since
      /\ t.beats # 0 => u.first = t.first /\ u.firstBegin = t.firstBegin
  BY DEF Filled, Txn
<1>2. \A x \in S : /\ x.last < since /\ x.beats \in Nat /\ x.first \in Nat
                   /\ x.last \in Nat
                   /\ x.beats > 0 => x.first <= x.last
  BY DEF ReadDataApart, BeforePhase, Txn
<1>3. u.first <= n /\ u.first \in Nat
  BY <1>1, <1>2 DEF Txn
<1>4. \A x \in S2 : x.last <= n /\ (x.beats > 0 => x.first <= x.last)
  BY <1>1, <1>2, <1>3
<1>5. ASSUME NEW x \in S2, NEW y \in S2, x.beats > 0, y.beats > 0
      PROVE  /\ x.first < y.first => x.first < y.firstBegin
             /\ x.last < y.first => x.last < y.firstBegin
  <2>1. CASE x \in S /\ y \in S
    BY <1>5, <2>1 DEF ReadDataApart
  <2>2. CASE x \in S /\ y = u
    <3>1. CASE t.beats = 0
      BY <1>1, <1>2, <1>5, <2>2, <3>1
    <3>2. CASE t.beats # 0
      BY <1>1, <1>5, <2>2, <3>2 DEF ReadDataApart
    <3> QED
      BY <3>1, <3>2
  <2>3. CASE x = u /\ y \in S
    <3>1. y.first < n /\ ~(u.last < y.first)
      BY <1>1, <1>2, <1>5, <2>3
    <3>2. CASE t.beats = 0
      BY <1>1, <2>3, <3>1, <3>2
    <3>3. CASE t.beats # 0
      BY <1>1, <1>5, <2>3, <3>1, <3>3 DEF ReadDataApart
    <3> QED
      BY <3>2, <3>3
  <2>4. CASE x = u /\ y = u
    BY <1>1, <1>3, <2>4
  <2> QED
    BY <2>1, <2>2, <2>3, <2>4
<1> QED
  BY <1>4, <1>5 DEF ReadDataApart, BeforePhase

\* A transaction that an address handshake opens, its phase tracked by "since".
OpenedBy(x, seq, since, n) ==
  Opened(x, seq, n) /\ x.addr = n /\ x.begin = Valid(since, n)

LEMMA NewTxnOpenedBy ==
  ASSUME NEW low \in Nat, NEW seq \in Nat, low < seq, NEW a \in AddrBeat,
         NEW since \in Nat, NEW n \in Nat, since <= n, 0 < n
  PROVE  OpenedBy(NewTxn(seq, a, Track(a, since, n), n), low, since, n)
<1>1. Track(a, since, n) = Valid(since, n)
  BY AxiAssumption DEF Track, Valid
<1> DEFINE b == Valid(since, n)
<1>2. b \in Nat /\ 0 < b /\ b <= n
  BY DEF Valid
<1> HIDE DEF b
<1>3. Opened(NewTxn(seq, a, b, n), low, n)
  BY <1>2, NewTxnOpened
<1>4. NewTxn(seq, a, b, n).addr = n /\ NewTxn(seq, a, b, n).begin = b
  BY DEF NewTxn
<1> QED
  BY <1>1, <1>3, <1>4 DEF OpenedBy, b

LEMMA TrackCases ==
  ASSUME NEW input, NEW since \in Nat, NEW n \in Nat
  PROVE  Track(input, since, n) \in {0, Valid(since, n)}
BY DEF Track, Valid

\* Per channel: a handshake uses up the phase, or the phase is tracked on.
LEMMA ConsumePhaseEffect ==
  ASSUME TypeOK, BeginTimes, NEW s \in Samples, Consume(s)
  PROVE  /\ \/ /\ UNCHANGED pending_writes
               /\ begin'.aw \in {0, Valid(begin.aw, now + 1)}
            \/ /\ begin'.aw = 0
               /\ \E x : /\ OpenedBy(x, next_seq, begin.aw, now + 1)
                         /\ pending_writes' = pending_writes \union {x}
         /\ \/ /\ UNCHANGED pending_reads
               /\ begin'.ar \in {0, Valid(begin.ar, now + 1)}
            \/ /\ begin'.ar = 0
               /\ \E x : /\ OpenedBy(x, next_seq, begin.ar, now + 1)
                         /\ pending_reads' = pending_reads \union {x}
         /\ \/ /\ UNCHANGED w_beats
               /\ begin'.w \in {0, Valid(begin.w, now + 1)}
            \/ /\ begin'.w = 0
               /\ \E b \in WBeat : /\ b.time = now + 1
                                   /\ b.begin = Valid(begin.w, now + 1)
                                   /\ w_beats' = Append(w_beats, b)
         /\ begin'.r \in {0, Valid(begin.r, now + 1)}
<1> DEFINE aws == IF s.aw \in AddrBeat THEN 1 ELSE 0
           ars == IF s.ar \in AddrBeat THEN 1 ELSE 0
           ws == IF s.w \in DataBeat THEN 1 ELSE 0
<1>1. /\ now \in Nat /\ next_seq \in Nat
      /\ begin.aw \in Nat /\ begin.w \in Nat /\ begin.ar \in Nat /\ begin.r \in Nat
      /\ begin.aw <= now /\ begin.w <= now /\ begin.ar <= now /\ begin.r <= now
  BY DEF TypeOK, Begin, BeginTimes
<1>2. /\ begin'.aw = NextBegin(aws = 1, s.aw, begin.aw)
      /\ begin'.w = NextBegin(ws = 1, s.w, begin.w)
      /\ begin'.ar = NextBegin(ars = 1, s.ar, begin.ar)
      /\ begin'.r = Track(s.r, begin.r, now + 1)
  BY DEF Consume
<1>3. \/ /\ UNCHANGED pending_writes
         /\ begin'.aw \in {0, Valid(begin.aw, now + 1)}
      \/ /\ begin'.aw = 0
         /\ \E x : /\ OpenedBy(x, next_seq, begin.aw, now + 1)
                   /\ pending_writes' = pending_writes \union {x}
  <2> DEFINE since == begin.aw
  <2>0. since \in Nat /\ since <= now
    BY <1>1
  <2>1. CASE s.aw \in AddrBeat
    <3> DEFINE x == NewTxn(next_seq + 1, s.aw, Track(s.aw, since, now + 1), now + 1)
    <3>1. pending_writes' = pending_writes \union {x} /\ begin'.aw = 0
      BY <1>2, <2>1 DEF Consume, AcceptAw, NextBegin
    <3> HIDE DEF since
    <3>2. OpenedBy(x, next_seq, since, now + 1)
      BY <1>1, <2>0, <2>1, NewTxnOpenedBy
    <3> QED
      BY <3>1, <3>2 DEF since
  <2>2. CASE s.aw \notin AddrBeat
    <3>1. UNCHANGED pending_writes /\ begin'.aw = Track(s.aw, since, now + 1)
      BY <1>2, <2>2 DEF Consume, AcceptAw, NextBegin
    <3> QED
      BY <1>1, <3>1, TrackCases
  <2> QED
    BY <2>1, <2>2
<1>4. \/ /\ UNCHANGED pending_reads
         /\ begin'.ar \in {0, Valid(begin.ar, now + 1)}
      \/ /\ begin'.ar = 0
         /\ \E x : /\ OpenedBy(x, next_seq, begin.ar, now + 1)
                   /\ pending_reads' = pending_reads \union {x}
  <2> DEFINE since == begin.ar
             seq == next_seq + aws + 1
  <2>0. since \in Nat /\ since <= now /\ seq \in Nat /\ next_seq < seq
    BY <1>1
  <2>1. CASE s.ar \in AddrBeat
    <3> DEFINE x == NewTxn(seq, s.ar, Track(s.ar, since, now + 1), now + 1)
    <3>1. pending_reads' = pending_reads \union {x} /\ begin'.ar = 0
      BY <1>2, <2>1 DEF Consume, AcceptAr, NextBegin
    <3> HIDE DEF since, seq
    <3>2. OpenedBy(x, next_seq, since, now + 1)
      BY <1>1, <2>0, <2>1, NewTxnOpenedBy
    <3> QED
      BY <3>1, <3>2 DEF since
  <2>2. CASE s.ar \notin AddrBeat
    <3>1. UNCHANGED pending_reads /\ begin'.ar = Track(s.ar, since, now + 1)
      BY <1>2, <2>2 DEF Consume, AcceptAr, NextBegin
    <3> QED
      BY <1>1, <3>1, TrackCases
  <2> QED
    BY <2>1, <2>2
<1>5. \/ /\ UNCHANGED w_beats
         /\ begin'.w \in {0, Valid(begin.w, now + 1)}
      \/ /\ begin'.w = 0
         /\ \E b \in WBeat : /\ b.time = now + 1
                             /\ b.begin = Valid(begin.w, now + 1)
                             /\ w_beats' = Append(w_beats, b)
  <2> DEFINE v == Valid(begin.w, now + 1)
             b == [begin |-> v, time |-> now + 1, last |-> s.w.last]
  <2>1. CASE s.w \in DataBeat
    <3>1. Track(s.w, begin.w, now + 1) = v
      BY <2>1, AxiAssumption DEF Track, Valid
    <3>2. w_beats' = Append(w_beats, b) /\ begin'.w = 0
      BY <1>2, <2>1, <3>1 DEF Consume, AcceptW, NextBegin
    <3>3. s.w.last \in BOOLEAN /\ v \in Nat
      BY <1>1, <2>1 DEF DataBeat, Valid
    <3> HIDE DEF v
    <3>4. b \in WBeat /\ b.time = now + 1 /\ b.begin = v
      BY <1>1, <3>3 DEF WBeat
    <3> QED
      BY <3>2, <3>4 DEF v
  <2>2. CASE s.w \notin DataBeat
    <3>1. UNCHANGED w_beats /\ begin'.w = Track(s.w, begin.w, now + 1)
      BY <1>2, <2>2 DEF Consume, AcceptW, NextBegin
    <3> QED
      BY <1>1, <3>1, TrackCases
  <2> QED
    BY <2>1, <2>2
<1>6. begin'.r \in {0, Valid(begin.r, now + 1)}
  BY <1>1, <1>2, TrackCases
<1> QED
  BY <1>3, <1>4, <1>5, <1>6

LEMMA ConsumePhases ==
  ASSUME TypeOK, SeqInv, OrderInv, PhaseInv, NEW s \in Samples, Consume(s)
  PROVE  PhaseInv'
<1>1. /\ now' = now + 1 /\ UNCHANGED <<writes, reads>> /\ now \in Nat
      /\ next_seq \in Nat /\ w_beats \in Seq(WBeat)
      /\ AllWrites \in SUBSET Txn /\ AllReads \in SUBSET Txn
      /\ begin.aw \in Nat /\ begin.w \in Nat /\ begin.ar \in Nat /\ begin.r \in Nat
      /\ BeginTimes
  BY DEF Consume, TypeOK, Begin, AllWrites, AllReads, OrderInv
<1>2. Below(AllWrites, next_seq) /\ Below(AllReads, next_seq)
  BY DEF SeqInv, AllWrites, AllReads, Below
<1>3. \/ /\ UNCHANGED pending_writes
         /\ begin'.aw \in {0, Valid(begin.aw, now + 1)}
      \/ /\ begin'.aw = 0
         /\ \E x : /\ OpenedBy(x, next_seq, begin.aw, now + 1)
                   /\ pending_writes' = pending_writes \union {x}
  BY <1>1, ConsumePhaseEffect
<1>4. \/ /\ UNCHANGED pending_reads
         /\ begin'.ar \in {0, Valid(begin.ar, now + 1)}
      \/ /\ begin'.ar = 0
         /\ \E x : /\ OpenedBy(x, next_seq, begin.ar, now + 1)
                   /\ pending_reads' = pending_reads \union {x}
  BY <1>1, ConsumePhaseEffect
<1>5. \/ /\ UNCHANGED w_beats
         /\ begin'.w \in {0, Valid(begin.w, now + 1)}
      \/ /\ begin'.w = 0
         /\ \E b \in WBeat : /\ b.time = now + 1
                             /\ b.begin = Valid(begin.w, now + 1)
                             /\ w_beats' = Append(w_beats, b)
  BY <1>1, ConsumePhaseEffect
<1>6. begin'.r \in {0, Valid(begin.r, now + 1)}
  BY <1>1, ConsumePhaseEffect
<1>7. AddressesApart(AllWrites', begin'.aw, now')
  <2> DEFINE since == begin.aw
             since2 == begin'.aw
  <2>0. since \in Nat /\ AddressesApart(AllWrites, since, now)
    BY <1>1 DEF PhaseInv
  <2>1. CASE UNCHANGED pending_writes /\ since2 \in {0, Valid(since, now + 1)}
    <3> HIDE DEF since, since2
    <3>1. AddressesApart(AllWrites, since2, now + 1)
      BY <1>1, <2>0, <2>1, AddressesLater
    <3> QED
      BY <1>1, <2>1, <3>1 DEF since2, AllWrites
  <2>2. ASSUME begin'.aw = 0, NEW x, OpenedBy(x, next_seq, since, now + 1),
               pending_writes' = pending_writes \union {x}
        PROVE  AddressesApart(AllWrites', begin'.aw, now')
    <3>1. AllWrites' = AllWrites \union {x}
      BY <1>1, <2>2 DEF AllWrites
    <3> HIDE DEF since, since2
    <3>2. AddressesApart(AllWrites \union {x}, 0, now + 1)
      BY <1>1, <1>2, <2>0, <2>2, AddressesOpened DEF OpenedBy
    <3> QED
      BY <1>1, <2>2, <3>1, <3>2
  <2> QED
    BY <1>3, <2>1, <2>2
<1>8. AddressesApart(AllReads', begin'.ar, now')
  <2> DEFINE since == begin.ar
             since2 == begin'.ar
  <2>0. since \in Nat /\ AddressesApart(AllReads, since, now)
    BY <1>1 DEF PhaseInv
  <2>1. CASE UNCHANGED pending_reads /\ since2 \in {0, Valid(since, now + 1)}
    <3> HIDE DEF since, since2
    <3>1. AddressesApart(AllReads, since2, now + 1)
      BY <1>1, <2>0, <2>1, AddressesLater
    <3> QED
      BY <1>1, <2>1, <3>1 DEF since2, AllReads
  <2>2. ASSUME begin'.ar = 0, NEW x, OpenedBy(x, next_seq, since, now + 1),
               pending_reads' = pending_reads \union {x}
        PROVE  AddressesApart(AllReads', begin'.ar, now')
    <3>1. AllReads' = AllReads \union {x}
      BY <1>1, <2>2 DEF AllReads
    <3> HIDE DEF since, since2
    <3>2. AddressesApart(AllReads \union {x}, 0, now + 1)
      BY <1>1, <1>2, <2>0, <2>2, AddressesOpened DEF OpenedBy
    <3> QED
      BY <1>1, <2>2, <3>1, <3>2
  <2> QED
    BY <1>4, <2>1, <2>2
<1>9. WriteDataApart(AllWrites', w_beats', begin'.w, now')
  <2> DEFINE since == begin.w
             since2 == begin'.w
  <2>0. since \in Nat /\ WriteDataApart(AllWrites, w_beats, since, now)
    BY <1>1 DEF PhaseInv
  <2>1. WriteDataApart(AllWrites', w_beats, since, now)
    <3>1. CASE UNCHANGED pending_writes
      BY <1>1, <2>0, <3>1 DEF AllWrites
    <3>2. ASSUME NEW x, OpenedBy(x, next_seq, begin.aw, now + 1),
                 pending_writes' = pending_writes \union {x}
          PROVE  WriteDataApart(AllWrites', w_beats, since, now)
      <4>1. AllWrites' = AllWrites \union {x}
        BY <1>1, <3>2 DEF AllWrites
      <4>2. \A i \in DOMAIN w_beats : 0 < w_beats[i].begin
        BY DEF OrderInv, BeatTimes, BeatWithin
      <4>3. Opened(x, next_seq, now + 1)
        BY <3>2 DEF OpenedBy
      <4> HIDE DEF since
      <4>4. WriteDataApart(AllWrites \union {x}, w_beats, since, now)
        BY <1>1, <1>2, <2>0, <4>2, <4>3, WriteDataOpened
      <4> QED
        BY <4>1, <4>4
    <3> QED
      BY <1>3, <3>1, <3>2
  <2>2. AllWrites' \in SUBSET Txn
    BY <1>1, <1>3 DEF AllWrites, OpenedBy, Opened
  <2>3. CASE UNCHANGED w_beats /\ since2 \in {0, Valid(since, now + 1)}
    <3> HIDE DEF since, since2
    <3>1. WriteDataApart(AllWrites', w_beats, since2, now + 1)
      BY <1>1, <2>0, <2>1, <2>2, <2>3, WriteDataLater
    <3> QED
      BY <1>1, <2>3, <3>1 DEF since2
  <2>4. ASSUME begin'.w = 0, NEW b \in WBeat, b.time = now + 1,
               b.begin = Valid(since, now + 1), w_beats' = Append(w_beats, b)
        PROVE  WriteDataApart(AllWrites', w_beats', begin'.w, now')
    <3> HIDE DEF since, since2
    <3>1. WriteDataApart(AllWrites', Append(w_beats, b), 0, now + 1)
      BY <1>1, <2>0, <2>1, <2>2, <2>4, WriteDataAppend
    <3> QED
      BY <1>1, <2>4, <3>1
  <2> QED
    BY <1>5, <2>3, <2>4
<1>10. ReadDataApart(AllReads', begin'.r, now')
  <2> DEFINE since == begin.r
             since2 == begin'.r
  <2>0. since \in Nat /\ since2 \in {0, Valid(since, now + 1)}
    BY <1>1, <1>6
  <2>1. ReadDataApart(AllReads, since, now)
    BY DEF PhaseInv
  <2>2. ReadDataApart(AllReads', since, now)
    <3>1. CASE UNCHANGED pending_reads
      BY <1>1, <2>1, <3>1 DEF AllReads
    <3>2. ASSUME NEW x, OpenedBy(x, next_seq, begin.ar, now + 1),
                 pending_reads' = pending_reads \union {x}
          PROVE  ReadDataApart(AllReads', since, now)
      <4>1. AllReads' = AllReads \union {x} /\ Opened(x, next_seq, now + 1)
        BY <1>1, <3>2 DEF AllReads, OpenedBy
      <4> HIDE DEF since, since2
      <4>2. ReadDataApart(AllReads \union {x}, since, now)
        BY <1>1, <2>0, <2>1, <4>1, ReadDataOpened
      <4> QED
        BY <4>1, <4>2
    <3> QED
      BY <1>4, <3>1, <3>2
  <2>3. AllReads' \in SUBSET Txn
    BY <1>1, <1>4 DEF AllReads, OpenedBy, Opened
  <2> HIDE DEF since, since2
  <2>4. ReadDataApart(AllReads', since2, now + 1)
    BY <1>1, <2>0, <2>2, <2>3, ReadDataLater
  <2> QED
    BY <1>1, <2>4 DEF since2
<1>11. \A t \in pending_writes', u \in writes' : t.seq < u.seq => t.complete
  <2> SUFFICES ASSUME NEW t \in pending_writes', NEW u \in writes, t.seq < u.seq
               PROVE  t.complete
    BY <1>1
  <2>1. CASE t \in pending_writes
    BY <2>1 DEF PhaseInv
  <2>2. CASE t \notin pending_writes
    <3>1. next_seq < t.seq /\ t.seq \in Nat
      BY <1>3, <2>2 DEF OpenedBy, Opened, Txn
    <3>2. u.seq <= next_seq /\ u.seq \in Nat
      BY <1>1, <1>2 DEF AllWrites, Below, Txn
    <3> QED
      BY <1>1, <3>1, <3>2
  <2> QED
    BY <2>1, <2>2
<1>12. \A t \in writes' \union reads' : t.beats > 0
  BY <1>1 DEF PhaseInv
<1> QED
  BY <1>7, <1>8, <1>9, <1>10, <1>11, <1>12 DEF PhaseInv

LEMMA DrainPhases ==
  ASSUME TypeOK, SeqInv, OrderInv, PhaseInv, DrainBeat
  PROVE  PhaseInv'
<1>1. PICK t \in pending_writes, u \in Txn :
        /\ t \in Txn /\ ~t.complete
        /\ \A v \in pending_writes : ~v.complete => t.seq <= v.seq
        /\ w_beats # <<>> /\ w_beats[1] \in WBeat
        /\ Filled(t, u, w_beats[1].time, w_beats[1].begin)
        /\ w_beats' = Tail(w_beats)
        /\ pending_writes' = (pending_writes \ {t}) \union {u}
  BY DrainEffect
<1>2. UNCHANGED <<now, begin, writes, pending_reads, reads>>
  BY DEF DrainBeat, readVars
<1>3. /\ t \in AllWrites /\ AllWrites \in SUBSET Txn /\ w_beats \in Seq(WBeat)
      /\ \A x \in AllWrites' : x \in AllWrites \/ x = u
      /\ \A x \in pending_writes' : x \in pending_writes \/ x = u
  BY <1>1, <1>2 DEF AllWrites, TypeOK
<1>4. u.seq = t.seq /\ u.begin = t.begin /\ u.addr = t.addr
  BY <1>1 DEF Filled
<1>5. AddressesApart(AllWrites', begin'.aw, now')
  BY <1>2, <1>3, <1>4, AddressesKept DEF PhaseInv
<1>6. WriteDataApart(AllWrites', w_beats', begin'.w, now')
  <2>1. ASSUME NEW v \in AllWrites, t.seq < v.seq PROVE ~(v.beats > 0)
    BY <1>1, <2>1 DEF PhaseInv, OrderInv, DataInAddressOrder, AllWrites
  <2>2. WriteDataApart(AllWrites', Tail(w_beats), begin.w, now)
    BY <1>1, <1>3, <2>1, WriteDataFilled DEF PhaseInv
  <2> QED
    BY <1>1, <1>2, <2>2
<1>7. \A a \in pending_writes', b \in writes : a.seq < b.seq => a.complete
  BY <1>1, <1>3, <1>4 DEF PhaseInv
<1>8. AllReads' = AllReads
  BY <1>2 DEF AllReads
<1> QED
  BY <1>2, <1>5, <1>6, <1>7, <1>8 DEF PhaseInv

LEMMA RespondPhases ==
  ASSUME TypeOK, SeqInv, OrderInv, PhaseInv, Respond
  PROVE  PhaseInv'
<1>1. /\ pc = "respond" /\ UNCHANGED <<now, w_beats>> /\ now \in Nat
      /\ begin \in Begin /\ begin.r \in Nat
      /\ begin'.aw = begin.aw /\ begin'.ar = begin.ar /\ begin'.w = begin.w
      /\ AllWrites \in SUBSET Txn /\ AllReads \in SUBSET Txn
  BY DEF Respond, TypeOK, Begin, AllWrites, AllReads
<1>2. /\ \A x \in AllWrites' : Counterpart(x, AllWrites)
      /\ \A x \in writes' : x.beats > 0
      /\ \A a \in pending_writes', b \in writes' : a.seq < b.seq => a.complete
  <2>1. CASE UNCHANGED <<pending_writes, writes>>
    BY <2>1 DEF PhaseInv, AllWrites, Counterpart
  <2>2. ASSUME NEW t \in pending_writes, NEW u \in Txn, t.complete,
               Answered(t, u, now), pending_writes' = pending_writes \ {t},
               writes' = writes \union {u}
        PROVE  /\ \A x \in AllWrites' : Counterpart(x, AllWrites)
               /\ \A x \in writes' : x.beats > 0
               /\ \A a \in pending_writes', b \in writes' : a.seq < b.seq => a.complete
    <3>1. Counterpart(u, AllWrites)
      BY <2>2 DEF Answered, Counterpart, AllWrites
    <3>2. \A x \in AllWrites : Counterpart(x, AllWrites)
      BY DEF Counterpart
    <3>3. \A x \in AllWrites' : Counterpart(x, AllWrites)
      BY <2>2, <3>1, <3>2 DEF AllWrites
    <3>4. u.beats > 0
      BY <2>2 DEF Answered, OrderInv, OpenTimes, Within
    <3>5. ASSUME NEW a \in pending_writes, a.seq < u.seq PROVE a.complete
      BY <2>2, <3>5 DEF Answered, OrderInv, DataInAddressOrder
    <3> QED
      BY <2>2, <3>3, <3>4, <3>5 DEF PhaseInv
  <2> QED
    BY <2>1, <2>2, RespondWriteEffect
<1>3. /\ AddressesApart(AllReads', begin.ar, now)
      /\ ReadDataApart(AllReads', begin'.r, now)
      /\ \A x \in reads' : x.beats > 0
  <2>1. CASE UNCHANGED <<pending_reads, reads>>
    <3>1. AllReads' = AllReads
      BY <2>1 DEF AllReads
    <3>2. begin'.r \in {0, begin.r}
      BY <1>1 DEF Respond, Begin
    <3>3. ReadDataApart(AllReads, begin'.r, now)
      BY <3>2 DEF PhaseInv, ReadDataApart, BeforePhase
    <3> QED
      BY <2>1, <3>1, <3>3 DEF PhaseInv
  <2>2. ASSUME NEW t \in pending_reads, NEW u \in Txn, cur.r # Idle, t \in Txn,
               Filled(t, u, now, begin.r),
               \/ /\ pending_reads' = (pending_reads \ {t}) \union {u}
                  /\ UNCHANGED reads
               \/ /\ pending_reads' = pending_reads \ {t}
                  /\ reads' = reads \union {u},
               begin'.r = 0
        PROVE  /\ AddressesApart(AllReads', begin.ar, now)
               /\ ReadDataApart(AllReads', begin'.r, now)
               /\ \A x \in reads' : x.beats > 0
    <3>1. t \in AllReads /\ \A x \in AllReads' : x \in AllReads \/ x = u
      BY <2>2 DEF AllReads
    <3>2. u.seq = t.seq /\ u.begin = t.begin /\ u.addr = t.addr /\ u.beats > 0
      BY <2>2 DEF Filled, Txn
    <3>3. AddressesApart(AllReads', begin.ar, now)
      BY <3>1, <3>2, AddressesKept DEF PhaseInv
    <3> DEFINE since == begin.r
    <3>4. /\ 0 < since /\ since <= now /\ since \in Nat
          /\ ReadDataApart(AllReads, since, now) /\ Filled(t, u, now, since)
      BY <1>1, <2>2 DEF OrderInv, BeginTimes, PhaseInv
    <3> HIDE DEF since
    <3>5. ReadDataApart(AllReads', 0, now)
      BY <1>1, <3>1, <3>4, ReadDataFilled
    <3>6. \A x \in reads' : x.beats > 0
      BY <2>2, <3>2 DEF PhaseInv
    <3> QED
      BY <2>2, <3>3, <3>5, <3>6
  <2>3. UNCHANGED <<pending_reads, reads>> \/ begin'.r = 0
    BY <1>1 DEF Respond, Begin, readVars
  <2> QED
    BY <2>1, <2>2, <2>3, RespondReadEffect
<1>4. AddressesApart(AllWrites', begin'.aw, now')
  <2>1. \A x \in AllWrites' : \E t \in AllWrites :
          x.seq = t.seq /\ x.begin = t.begin /\ x.addr = t.addr
    BY <1>2 DEF Counterpart
  <2> QED
    BY <1>1, <2>1, AddressesKept DEF PhaseInv
<1>5. WriteDataApart(AllWrites', w_beats', begin'.w, now')
  BY <1>1, <1>2, WriteDataKept DEF PhaseInv
<1> QED
  BY <1>1, <1>2, <1>3, <1>4, <1>5 DEF PhaseInv

LEMMA ResetPhases ==
  ASSUME TypeOK, PhaseInv, NEW s \in Samples, ConsumeReset(s)
  PROVE  PhaseInv'
<1>1. /\ now' = now + 1 /\ now \in Nat /\ w_beats' = <<>> /\ pending_writes' = {}
      /\ pending_reads' = {} /\ UNCHANGED <<writes, reads>>
      /\ begin' = [aw |-> 0, w |-> 0, ar |-> 0, r |-> 0]
      /\ AllWrites' \subseteq AllWrites /\ AllReads' \subseteq AllReads
      /\ AllWrites \in SUBSET Txn /\ AllReads \in SUBSET Txn
  BY DEF ConsumeReset, TypeOK, AllWrites, AllReads
<1>2. /\ begin'.aw = 0 /\ begin'.w = 0 /\ begin'.ar = 0 /\ begin'.r = 0
  BY <1>1
<1>3. \A t \in Txn : t.last \in Nat /\ t.addr \in Nat
  BY DEF Txn
<1>4. AddressesApart(AllWrites', 0, now + 1) /\ AddressesApart(AllReads', 0, now + 1)
  BY <1>1, <1>3 DEF PhaseInv, AddressesApart, BeforePhase
<1>5. WriteDataApart(AllWrites', <<>>, 0, now + 1)
  BY <1>1, <1>3 DEF PhaseInv, WriteDataApart, BeforePhase
<1>6. ReadDataApart(AllReads', 0, now + 1)
  BY <1>1, <1>3 DEF PhaseInv, ReadDataApart, BeforePhase
<1> QED
  BY <1>1, <1>2, <1>4, <1>5, <1>6 DEF PhaseInv

LEMMA InitPhases == Init => PhaseInv
<1> SUFFICES ASSUME Init PROVE PhaseInv
  OBVIOUS
<1>1. AllWrites = {} /\ AllReads = {} /\ w_beats = <<>> /\ writes = {} /\ reads = {}
  BY DEF Init, AllWrites, AllReads
<1> QED
  BY <1>1 DEF PhaseInv, AddressesApart, WriteDataApart, ReadDataApart

LEMMA NextPhases == TrackerInv /\ OrderInv /\ PhaseInv /\ [Next]_vars => PhaseInv'
<1> SUFFICES ASSUME TrackerInv, OrderInv, PhaseInv, [Next]_vars PROVE PhaseInv'
  OBVIOUS
<1>0. TypeOK /\ SeqInv
  BY DEF TrackerInv
<1>1. ASSUME NEW s \in Samples, ConsumeReset(s) PROVE PhaseInv'
  BY <1>0, <1>1, ResetPhases
<1>2. ASSUME NEW s \in Samples, Consume(s) PROVE PhaseInv'
  BY <1>0, <1>2, ConsumePhases
<1>3. CASE DrainBeat
  BY <1>0, <1>3, DrainPhases
<1>4. CASE DrainDone \/ Finish \/ UNCHANGED vars
  <2>1. UNCHANGED <<now, begin, w_beats, pending_writes, writes, pending_reads, reads>>
    BY <1>4 DEF DrainDone, Finish, vars, writeVars, readVars
  <2> QED
    BY <2>1 DEF PhaseInv, AllWrites, AllReads
<1>5. CASE Respond
  BY <1>0, <1>5, RespondPhases
<1> QED
  BY <1>1, <1>2, <1>3, <1>4, <1>5 DEF Next

LEMMA PhasesCorrect == Spec => [](OrderInv /\ PhaseInv)
<1>1. Init => TrackerInv /\ OrderInv /\ PhaseInv
  BY InitInv, InitOrder, InitPhases
<1>2. TrackerInv /\ OrderInv /\ PhaseInv /\ [Next]_vars
        => (TrackerInv /\ OrderInv /\ PhaseInv)'
  BY NextInv, NextOrder, NextPhases
<1> QED
  BY <1>1, <1>2, PTL DEF Spec

\* The times of every completed transaction are ordered, so every latency and
\* phase length the reports compute from them is a difference of the right
\* sign; and a valid phase never reaches back over an earlier handshake of its
\* channel, whatever is stalled, buffered or dropped by a reset.
THEOREM TimesAreOrdered == Spec => []TimesOrdered
<1>1. ASSUME OrderInv, PhaseInv PROVE TimesOrdered
  <2>1. PhasesApart
    BY <1>1 DEF PhaseInv, AllWrites, AllReads, AddressesApart, WriteDataApart,
                ReadDataApart, PhasesApart
  <2> QED
    BY <1>1, <2>1 DEF OrderInv, ClosedTimes, Settled, TimesOrdered
<1> QED
  BY <1>1, PhasesCorrect, PTL
=============================================================================
