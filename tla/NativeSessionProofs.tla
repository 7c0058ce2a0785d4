------------------------ MODULE NativeSessionProofs ------------------------
(***************************************************************************)
(* What the lease, the generations and the marker guarantee for any number *)
(* of helpers, local or remote, of pids and of session.open attempts.      *)
(*                                                                         *)
(* SessionInv holds whatever crashes, fails or is reused.  QuietInv is the *)
(* part that needs helpers that neither crash nor lose a write, and, for   *)
(* the engines, run on the engine's host.                                  *)
(***************************************************************************)
EXTENDS NativeSession, TLAPS

\* The places a helper reaches only with the lease, ...
Opening == {"marker", "spawn", "record", "await", "finalize"}
Stopping == {"quit", "wait", "check", "term", "termWait", "kill", "killWait",
             "remoteWait"}
Removing == {"purge", "remove"}
Containing == {"cCheck", "cTerm", "cTermWait", "cKill", "cKillWait", "cTomb"}
Leased == Opening \union {"mark"} \union Stopping \union Removing \union Containing

\* ... those at which its copy of the record names a process, and those
\* between its write of cleanup_failed and its return.
WithPid == {"record", "await", "finalize"} \union Stopping \union Containing
Blocked == Stopping \union Removing \union Containing

NoEngineOf(gen) == \A p \in Pids : IsEngine(p) => procs[p].gen # gen
OnlyAt(gen, pid) == \A p \in Pids : IsEngine(p) /\ procs[p].gen = gen => p = pid

\* No generation is in use that was not drawn.
GensDrawn ==
  /\ reg # None => reg.gen <= nextGen
  /\ \A h \in Helpers : helper[h].sess.gen <= nextGen /\ helper[h].want.gen <= nextGen
  /\ \A p \in Pids : procs[p].gen <= nextGen

\* The lease is exclusive, and held exactly between Reserve, Close or Contain
\* and the return.
LeaseHeld == \A h \in Helpers : helper[h].pc \in Leased <=> lease = h

\* What the record says is so.
RecordInv ==
  reg # None =>
    /\ reg.pid # None => OnlyAt(reg.gen, reg.pid)
    /\ reg.state = "active" => marker = reg.gen /\ reg.pid # None
    /\ reg.state = "terminated_on_timeout" => NoEngineOf(reg.gen)

\* What the holder of the lease may rely on at each of its places.
HolderInv(h) ==
  LET sess == helper[h].sess
      pc == helper[h].pc
  IN pc \in Leased =>
       /\ reg # None /\ reg.gen = sess.gen
       /\ reg.pid # None => sess.pid = reg.pid
       /\ sess.pid # None => OnlyAt(sess.gen, sess.pid)
       /\ pc \in WithPid => sess.pid # None
       /\ pc \in Opening => reg.state = "opening" /\ sess.state = "opening"
       /\ pc \in {"marker", "spawn"} =>
            reg.pid = None /\ sess.pid = None /\ NoEngineOf(sess.gen)
       /\ pc \in Opening \ {"marker"} => marker = sess.gen
       /\ pc \in Blocked => reg.state = "cleanup_failed" /\ reg.pid = sess.pid
       /\ pc = "remoteWait" => h \in RemoteHelpers
       /\ pc \in Removing /\ h \notin RemoteHelpers /\ sess.pid # None =>
            NoEngineOf(sess.gen)
       /\ pc = "cTomb" => NoEngineOf(sess.gen)

\* A record that was active once names its engine for good.
ContainInv(h) ==
  helper[h].pc = "contain" /\ reg # None /\ reg.gen = helper[h].want.gen =>
    reg.pid # None

SessionInv ==
  /\ TypeOK
  /\ GensDrawn
  /\ LeaseHeld
  /\ RecordInv
  /\ \A h \in Helpers : HolderInv(h) /\ ContainInv(h)

-----------------------------------------------------------------------------
\* Without crashes and lost writes only the helper that is about to write the
\* marker sees one of another generation.
MarkerFits ==
  reg # None => marker = reg.gen \/ \E h \in Helpers : helper[h].pc = "marker"

\* All engines that run are of the record's generation, and a record or the
\* holder's copy names each of them.
EnginesKnown ==
  \A p \in Pids : IsEngine(p) =>
    /\ reg # None /\ procs[p].gen = reg.gen
    /\ reg.pid = p \/ \E h \in Helpers : helper[h].pc \in Leased /\ helper[h].sess.pid = p

\* Every engine has left its startup and serves the endpoint.
EnginesServe ==
  \A p \in Pids : IsEngine(p) => procs[p].state # "starting" /\ endpoint = p

ServedInv ==
  /\ reg # None /\ reg.state = "active" => EnginesServe
  /\ \A h \in Helpers : helper[h].pc = "finalize" => EnginesServe

\* A gc that saw an active record as stale will find no engine if it still
\* finds that record active.
GcInv(h) ==
  /\ helper[h].pc = "gcClose" /\ helper[h].want.state = "active" /\ reg # None
       /\ reg.gen = helper[h].want.gen =>
         /\ reg.state # "opening"
         /\ reg.state = "active" => \A p \in Pids : ~IsEngine(p)
  /\ helper[h].pc = "mark" /\ helper[h].op = "gc" /\ reg.state = "active" =>
       \A p \in Pids : ~IsEngine(p)

QuietInv == EnginesKnown /\ ServedInv /\ \A h \in Helpers : GcInv(h)
-----------------------------------------------------------------------------
(***************************************************************************)
(* The shapes of a step.                                                   *)
(***************************************************************************)
\* No engine appears, and none starts again or changes its generation.
NoNewEngine ==
  /\ procs' \in [Pids -> Proc]
  /\ \A p \in Pids :
       /\ procs'[p].gen = procs[p].gen \/ procs'[p].gen = 0
       /\ IsEngine(p)' => IsEngine(p) /\ procs'[p].gen = procs[p].gen
       /\ procs'[p].state = "starting" => procs[p].state = "starting"

OthersStay(h) ==
  /\ helper' \in [Helpers -> Helper]
  /\ \A k \in Helpers \ {h} : helper'[k] = helper[k]

\* h goes on at the place to with what it knows.
MovesTo(h, to) ==
  /\ OthersStay(h)
  /\ helper'[h].pc = to /\ helper'[h].op = helper[h].op
  /\ helper'[h].sess = helper[h].sess /\ helper'[h].want = helper[h].want

\* h is idle again and the lease free.
Returns(h) ==
  /\ OthersStay(h)
  /\ helper'[h].pc = "idle"
  /\ helper'[h].sess = NoRecord /\ helper'[h].want = NoRecord
  /\ lease' = None

\* The record stays or goes, or one of a fresh generation appears; a record
\* that names its engine goes on naming it.
RecordKept ==
  /\ reg' \in Record \union {None}
  /\ \/ reg' = None
     \/ reg'.gen > nextGen
     \/ reg # None /\ reg'.gen = reg.gen /\ (reg.pid # None => reg'.pid # None)

LEMMA NoNewEngineKeeps ==
  ASSUME NoNewEngine, NEW gen, NEW pid
  PROVE  /\ NoEngineOf(gen) => NoEngineOf(gen)'
         /\ OnlyAt(gen, pid) => OnlyAt(gen, pid)'
  BY DEF NoNewEngine, NoEngineOf, OnlyAt

LEMMA SameProcs ==
  ASSUME TypeOK, UNCHANGED procs
  PROVE  NoNewEngine
  BY DEF TypeOK, NoNewEngine, IsEngine

LEMMA RecordFields ==
  ASSUME NEW r \in Record
  PROVE  /\ r # None /\ r.gen \in Gens /\ r.gen \in Nat /\ r.gen \in 0 .. MaxGen /\ r.gen # 0
         /\ r.state \in RecordState /\ r.pid \in Pids \union {None}
  BY NoneIsNoRecord, NativeAssumption DEF Record, Gens

LEMMA GotoMoves ==
  ASSUME TypeOK, NEW h \in Helpers, NEW to \in HelperPc, Goto(h, to)
  PROVE  MovesTo(h, to)
<1>1. helper[h] \in Helper
  BY DEF TypeOK
<1>2. [helper[h] EXCEPT !.pc = to] \in Helper
  BY <1>1 DEF Helper
<1>3. helper' = [helper EXCEPT ![h] = [helper[h] EXCEPT !.pc = to]]
  BY DEF Goto
<1>4. QED
  BY <1>1, <1>2, <1>3 DEF TypeOK, MovesTo, OthersStay, Helper

LEMMA ReturnReturns ==
  ASSUME TypeOK, NEW h \in Helpers, Return(h)
  PROVE  Returns(h)
<1>1. helper[h] \in Helper /\ helper[h].owned \in SUBSET Pids
  BY DEF TypeOK, Helper
<1>2. [IdleHelper EXCEPT !.owned = helper[h].owned] \in Helper
  BY <1>1 DEF Helper, IdleHelper, HelperPc
<1>3. QED
  BY <1>2 DEF Return, Returns, OthersStay, TypeOK, IdleHelper

\* A process that ends is no engine afterwards.
LEMMA EndedFits ==
  ASSUME TypeOK, NEW p \in Pids
  PROVE  /\ Ended(p) \in Proc /\ FreeProc \in Proc
         /\ Ended(p).state \notin EngineState /\ FreeProc.state \notin EngineState
         /\ Ended(p).gen \in {procs[p].gen, 0} /\ FreeProc.gen = 0
<1>1. procs[p] \in Proc
  BY DEF TypeOK
<1>2. FreeProc \in Proc /\ FreeProc.state \notin EngineState /\ FreeProc.gen = 0
  BY NativeAssumption DEF FreeProc, Proc, EngineState
<1>3. QED
  BY <1>1, <1>2 DEF Ended, Proc, EngineState

\* One process is replaced by something that is no engine.
LEMMA OneProcEnds ==
  ASSUME TypeOK, NEW p \in Pids, NEW end \in Proc,
         \/ end.state \notin EngineState
         \/ IsEngine(p) /\ end.gen = procs[p].gen /\ end.state # "starting",
         end.gen \in {procs[p].gen, 0},
         procs' = [procs EXCEPT ![p] = end]
  PROVE  NoNewEngine
  BY DEF TypeOK, NoNewEngine, IsEngine, EngineState

LEMMA ReapMoves ==
  ASSUME TypeOK, NEW h \in Helpers, NEW p \in Pids, NEW to \in HelperPc,
         ~IsEngine(p), ReapAndGoto(h, p, to)
  PROVE  MovesTo(h, to) /\ NoNewEngine /\ ~IsEngine(p)'
<1>1. helper[h] \in Helper /\ helper[h].owned \in SUBSET Pids
  BY DEF TypeOK, Helper
<1>2. MovesTo(h, to)
  <2>1. [helper[h] EXCEPT !.pc = to, !.owned = @ \ {p}] \in Helper
    BY <1>1 DEF Helper
  <2>2. helper' = [helper EXCEPT ![h] = [helper[h] EXCEPT !.pc = to, !.owned = @ \ {p}]]
    BY DEF ReapAndGoto
  <2>3. QED
    BY <1>1, <2>1, <2>2 DEF TypeOK, MovesTo, OthersStay, Helper
<1>3. Reaped(h, p) \in Proc /\ Reaped(h, p).state \notin EngineState
        /\ Reaped(h, p).gen \in {procs[p].gen, 0}
  BY EndedFits DEF Reaped, IsEngine, TypeOK
<1>4. procs' = [procs EXCEPT ![p] = Reaped(h, p)]
  BY DEF ReapAndGoto
<1>5. NoNewEngine
  BY <1>3, <1>4, OneProcEnds
<1>6. QED
  BY <1>2, <1>3, <1>4, <1>5 DEF IsEngine, TypeOK
-----------------------------------------------------------------------------
(***************************************************************************)
(* What keeps SessionInv.                                                  *)
(***************************************************************************)
\* A step of the holder, or of a helper that takes the free lease: the others
\* hold nothing, so only what contain relies on can reach them.
LEMMA LeasedStepKeeps ==
  ASSUME SessionInv, NEW h \in Helpers, lease \in {h, None}, OthersStay(h),
         lease' = IF helper'[h].pc \in Leased THEN h ELSE None,
         nextGen' \in 0 .. MaxGen, nextGen <= nextGen', marker' \in 0 .. MaxGen,
         endpoint' \in Pids \union {None}, procs' \in [Pids -> Proc],
         \A p \in Pids : procs'[p].gen <= nextGen',
         helper'[h].sess.gen <= nextGen', helper'[h].want.gen <= nextGen',
         reg' # None => reg'.gen <= nextGen',
         RecordKept, RecordInv', HolderInv(h)', ContainInv(h)'
  PROVE  SessionInv'
<1> USE DEF SessionInv
<1>t. TypeOK /\ GensDrawn /\ LeaseHeld /\ nextGen \in Nat /\ nextGen' \in Nat
  BY NativeAssumption DEF TypeOK
<1>1. TypeOK'
  BY DEF TypeOK, RecordKept, OthersStay
<1>2. GensDrawn'
  <2>1. ASSUME NEW k \in Helpers, k # h
        PROVE  helper'[k].sess.gen <= nextGen' /\ helper'[k].want.gen <= nextGen'
    <3>1. /\ helper'[k] = helper[k] /\ helper[k] \in Helper
          /\ helper[k].sess.gen <= nextGen /\ helper[k].want.gen <= nextGen
      BY <2>1, <1>t DEF OthersStay, GensDrawn, TypeOK
    <3>2. helper[k].sess.gen \in Nat /\ helper[k].want.gen \in Nat
      BY <3>1, RecordFields DEF Helper, NoRecord
    <3>3. QED
      BY <3>1, <3>2, <1>t
  <2>2. QED
    BY <2>1 DEF GensDrawn
<1>3. LeaseHeld'
  BY <1>t, NativeAssumption DEF LeaseHeld, OthersStay
<1>4. ASSUME NEW k \in Helpers, k # h
      PROVE  HolderInv(k)' /\ ContainInv(k)'
  <2>1. helper'[k] = helper[k] /\ helper[k].pc \notin Leased
    BY <1>4, <1>t, NativeAssumption DEF OthersStay, LeaseHeld
  <2>2. HolderInv(k)'
    BY <2>1 DEF HolderInv, Leased
  <2>3. ContainInv(k)'
    <3>1. ContainInv(k) /\ helper[k].want.gen <= nextGen /\ helper[k] \in Helper
      BY <1>t DEF GensDrawn, TypeOK
    <3>2. helper[k].want.gen \in Nat
      BY <3>1, RecordFields DEF Helper, NoRecord
    <3>3. reg' # None => reg'.gen \in Nat
      BY RecordFields DEF RecordKept
    <3>4. QED
      BY <2>1, <3>1, <3>2, <3>3, <1>t DEF ContainInv, RecordKept
  <2>4. QED
    BY <2>2, <2>3
<1>5. QED
  BY <1>1, <1>2, <1>3, <1>4

\* The generations a step that draws none leaves behind.
LEMMA GensStay ==
  ASSUME TypeOK, GensDrawn, UNCHANGED nextGen, NoNewEngine
  PROVE  /\ nextGen \in Nat /\ \A p \in Pids : procs'[p].gen <= nextGen'
         /\ nextGen' \in 0 .. MaxGen /\ nextGen <= nextGen'
  BY NativeAssumption DEF TypeOK, GensDrawn, NoNewEngine

\* The holder goes on to a place where it knows no more than the step proved.
LEMMA MoveKeeps ==
  ASSUME SessionInv, NEW h \in Helpers, NEW to \in Leased, helper[h].pc \in Leased,
         MovesTo(h, to), UNCHANGED <<nextGen, lease, reg, marker>>, NoNewEngine,
         endpoint' \in Pids \union {None},
         to \in Opening => helper[h].pc \in Opening \ {"marker", "spawn"}
                           /\ to \notin {"marker", "spawn"},
         to \in WithPid => helper[h].sess.pid # None,
         to \in Blocked => helper[h].pc \in Blocked,
         to = "remoteWait" => h \in RemoteHelpers,
         to = "cTomb" \/ (to \in Removing /\ h \notin RemoteHelpers
                          /\ helper[h].sess.pid # None) => NoEngineOf(helper[h].sess.gen)'
  PROVE  SessionInv'
<1> USE DEF SessionInv
<1>t. TypeOK /\ GensDrawn /\ LeaseHeld /\ RecordInv /\ HolderInv(h)
  OBVIOUS
<1>1. lease = h /\ lease' = h
  BY <1>t DEF LeaseHeld
<1>2. RecordInv'
  BY <1>t, NoNewEngineKeeps DEF RecordInv
<1>3. HolderInv(h)'
  <2>1. helper[h].sess.pid # None => OnlyAt(helper[h].sess.gen, helper[h].sess.pid)'
    BY <1>t DEF HolderInv, MovesTo, NoNewEngine, OnlyAt
  <2>2. helper'[h].pc = to /\ helper'[h].sess = helper[h].sess
    BY DEF MovesTo
  <2>3. QED
    BY <1>t, <2>1, <2>2 DEF HolderInv, Opening
<1>4. ContainInv(h)'
  BY DEF ContainInv, MovesTo, Leased, Opening, Stopping, Removing, Containing
<1>5. RecordKept
  BY <1>t, NativeAssumption DEF RecordKept, TypeOK
<1>6. QED
  BY <1>1, <1>2, <1>3, <1>4, <1>5, <1>t, GensStay, LeasedStepKeeps
     DEF MovesTo, GensDrawn, TypeOK, NoNewEngine

\* The holder returns and leaves a record that is sound.
LEMMA ReturnKeeps ==
  ASSUME SessionInv, NEW h \in Helpers, lease \in {h, None},
         Returns(h), UNCHANGED <<nextGen, marker, procs>>,
         endpoint' \in Pids \union {None},
         reg' # None => reg'.gen <= nextGen, RecordKept, RecordInv'
  PROVE  SessionInv'
<1> USE DEF SessionInv
<1>t. TypeOK /\ GensDrawn
  OBVIOUS
<1>1. HolderInv(h)' /\ ContainInv(h)'
  BY DEF HolderInv, ContainInv, Returns, Leased, Opening, Stopping, Removing, Containing
<1>2. lease' = IF helper'[h].pc \in Leased THEN h ELSE None
  BY DEF Returns, Leased, Opening, Stopping, Removing, Containing
<1>3. helper'[h].sess.gen <= nextGen' /\ helper'[h].want.gen <= nextGen'
  BY <1>t, NativeAssumption DEF Returns, NoRecord, TypeOK
<1>4. NoNewEngine
  BY <1>t, SameProcs
<1>5. OthersStay(h)
  BY DEF Returns
<1>6. QED
  BY <1>1, <1>2, <1>3, <1>4, <1>5, <1>t, GensStay, LeasedStepKeeps DEF TypeOK

\* The same when the record stays as it is.
LEMMA PlainReturnKeeps ==
  ASSUME SessionInv, NEW h \in Helpers, lease \in {h, None},
         Returns(h), UNCHANGED <<nextGen, marker, procs, reg>>,
         endpoint' \in Pids \union {None}
  PROVE  SessionInv'
<1> USE DEF SessionInv
<1>t. TypeOK /\ GensDrawn /\ RecordInv
  OBVIOUS
<1>1. RecordInv'
  BY <1>t, SameProcs, NoNewEngineKeeps DEF RecordInv
<1>2. RecordKept /\ (reg' # None => reg'.gen <= nextGen)
  BY <1>t, NativeAssumption DEF RecordKept, TypeOK, GensDrawn
<1>3. QED
  BY <1>1, <1>2, ReturnKeeps

\* A step that neither needs nor touches the lease: processes come to their
\* end, and every helper stays where it is or ends up without the lease.
LEMMA UnleasedStepKeeps ==
  ASSUME SessionInv, helper' \in [Helpers -> Helper], NoNewEngine,
         UNCHANGED <<nextGen, reg, marker>>, endpoint' \in Pids \union {None},
         lease' \in Helpers \union {None},
         \A k \in Helpers :
           \/ /\ helper'[k].pc = helper[k].pc /\ helper'[k].sess = helper[k].sess
              /\ helper'[k].want = helper[k].want /\ (lease' = k <=> lease = k)
           \/ /\ helper'[k].pc \notin Leased /\ helper'[k].sess.gen <= nextGen
              /\ helper'[k].want.gen <= nextGen /\ lease' # k
              /\ ContainInv(k)'
  PROVE  SessionInv'
<1> USE DEF SessionInv
<1>t. TypeOK /\ GensDrawn /\ LeaseHeld /\ RecordInv
  OBVIOUS
<1>1. TypeOK'
  BY <1>t DEF TypeOK, NoNewEngine
<1>2. GensDrawn'
  <2>1. /\ reg' # None => reg'.gen <= nextGen'
        /\ \A p \in Pids : procs'[p].gen <= nextGen'
    BY <1>t, GensStay DEF GensDrawn
  <2>2. \A k \in Helpers : helper'[k].sess.gen <= nextGen' /\ helper'[k].want.gen <= nextGen'
    BY <1>t DEF GensDrawn
  <2>3. QED
    BY <2>1, <2>2 DEF GensDrawn
<1>3. LeaseHeld'
  BY <1>t DEF LeaseHeld
<1>4. RecordInv'
  BY <1>t, NoNewEngineKeeps DEF RecordInv
<1>5. ASSUME NEW k \in Helpers, helper'[k].pc = helper[k].pc,
             helper'[k].sess = helper[k].sess, helper'[k].want = helper[k].want
      PROVE  HolderInv(k)' /\ ContainInv(k)'
  <2>1. HolderInv(k) /\ ContainInv(k)
    OBVIOUS
  <2>2. /\ helper[k].sess.pid # None /\ OnlyAt(helper[k].sess.gen, helper[k].sess.pid) =>
             OnlyAt(helper[k].sess.gen, helper[k].sess.pid)'
        /\ NoEngineOf(helper[k].sess.gen) => NoEngineOf(helper[k].sess.gen)'
    BY <1>5 DEF NoNewEngine, OnlyAt, NoEngineOf
  <2>3. QED
    BY <2>1, <2>2, <1>5 DEF HolderInv, ContainInv
<1>6. \A k \in Helpers : HolderInv(k)' /\ ContainInv(k)'
  BY <1>5 DEF HolderInv
<1>7. QED
  BY <1>1, <1>2, <1>3, <1>4, <1>6

-----------------------------------------------------------------------------
(***************************************************************************)
(* The steps without the lease.                                            *)
(***************************************************************************)
LEMMA ProcessStepShrinks ==
  ASSUME TypeOK, NEW p \in Pids, ProcessStep(p)
  PROVE  /\ NoNewEngine /\ endpoint' \in Pids \union {None}
         /\ UNCHANGED <<nextGen, lease, reg, marker, helper>>
<1>1. /\ endpoint' \in Pids \union {None}
      /\ UNCHANGED <<nextGen, lease, reg, marker, helper>>
  BY DEF TypeOK, ProcessStep, EngineServes, EngineHangs, EngineEnds, AlienStarts, AlienEnds
<1>p. procs[p] \in Proc /\ procs \in [Pids -> Proc]
  BY DEF TypeOK
<1>2. CASE EngineServes(p) \/ EngineHangs(p) \/ AlienStarts(p)
  <2>1. PICK new \in {"serving", "hung", "alien"} :
          /\ new # "alien" => IsEngine(p)
          /\ procs' = [procs EXCEPT ![p].state = new]
    BY <1>2 DEF EngineServes, EngineHangs, AlienStarts, IsEngine, EngineState
  <2>2. [procs[p] EXCEPT !.state = new] \in Proc
    BY <1>p DEF Proc, EngineState
  <2>3. procs' = [procs EXCEPT ![p] = [procs[p] EXCEPT !.state = new]]
    BY <2>1
  <2>4. QED
    BY <1>1, <1>p, <2>1, <2>2, <2>3, OneProcEnds DEF EngineState, Proc
<1>3. CASE \E unlinked \in BOOLEAN : EngineEnds(p, unlinked)
  BY <1>3, <1>1, EndedFits, OneProcEnds DEF EngineEnds
<1>4. CASE AlienEnds(p)
  BY <1>4, <1>1, EndedFits, OneProcEnds DEF AlienEnds
<1>5. QED
  BY <1>2, <1>3, <1>4 DEF ProcessStep

LEMMA ProcessStepKeeps ==
  ASSUME SessionInv, NEW p \in Pids, ProcessStep(p)
  PROVE  SessionInv'
  BY ProcessStepShrinks, UnleasedStepKeeps DEF SessionInv, TypeOK

\* gc and a timed out request remember what they read of the record.
LEMMA SnapshotMoves ==
  ASSUME SessionInv, NEW h \in Helpers, GcSnapshot(h) \/ RequestTimesOut(h)
  PROVE  /\ helper[h].pc = "idle" /\ reg \in Record
         /\ OthersStay(h)
         /\ helper'[h].want = reg /\ helper'[h].sess = helper[h].sess
         /\ \/ helper'[h].pc = "gcClose" /\ LooksStale(h)
            \/ helper'[h].pc = "contain" /\ reg.state = "active"
         /\ UNCHANGED <<nextGen, lease, reg, marker, endpoint, procs>>
<1>1. /\ TypeOK /\ helper[h] \in Helper /\ reg \in Record /\ helper[h].pc = "idle"
  BY NoneIsNoRecord DEF SessionInv, TypeOK, GcSnapshot, RequestTimesOut
<1>2. CASE GcSnapshot(h)
  BY <1>2, <1>1 DEF GcSnapshot, TypeOK, Helper, HelperPc, OthersStay
<1>3. CASE RequestTimesOut(h)
  BY <1>3, <1>1 DEF RequestTimesOut, TypeOK, Helper, HelperPc, OthersStay
<1>4. QED
  BY <1>2, <1>3

LEMMA SnapshotKeeps ==
  ASSUME SessionInv, NEW h \in Helpers, GcSnapshot(h) \/ RequestTimesOut(h)
  PROVE  SessionInv'
<1>1. TypeOK /\ GensDrawn /\ LeaseHeld /\ RecordInv
  BY DEF SessionInv
<1>2. /\ helper'[h].pc \in {"gcClose", "contain"} /\ helper'[h].want = reg /\ reg # None
      /\ helper'[h].sess = helper[h].sess /\ OthersStay(h) /\ helper[h].pc = "idle"
      /\ UNCHANGED <<nextGen, lease, reg, marker, endpoint, procs>>
      /\ helper'[h].pc = "contain" => reg.state = "active"
  BY SnapshotMoves, NoneIsNoRecord
<1>3. lease # h /\ helper'[h].pc \notin Leased
  BY <1>1, <1>2 DEF LeaseHeld, Leased, Opening, Stopping, Removing, Containing
<1>4. ContainInv(h)'
  BY <1>1, <1>2 DEF ContainInv, RecordInv
<1>5. helper'[h].sess.gen <= nextGen /\ helper'[h].want.gen <= nextGen
  BY <1>1, <1>2 DEF GensDrawn
<1>6. QED
  BY <1>1, <1>2, <1>3, <1>4, <1>5, SameProcs, UnleasedStepKeeps DEF TypeOK, OthersStay

LEMMA AdoptedShrinks ==
  ASSUME TypeOK, NEW h \in Helpers, procs' = Adopted(h)
  PROVE  NoNewEngine
<1>1. \A p \in Pids : procs[p] \in Proc
  BY DEF TypeOK
<1>2. FreeProc \in Proc /\ FreeProc.state \notin EngineState /\ FreeProc.gen = 0
  BY NativeAssumption DEF FreeProc, Proc, EngineState
<1>3. ASSUME NEW p \in Pids
      PROVE  /\ Adopted(h)[p] \in Proc
             /\ Adopted(h)[p].gen = procs[p].gen \/ Adopted(h)[p].gen = 0
             /\ Adopted(h)[p].state \in EngineState =>
                  procs[p].state \in EngineState /\ Adopted(h)[p].gen = procs[p].gen
             /\ Adopted(h)[p].state = "starting" => procs[p].state = "starting"
  BY <1>1, <1>2 DEF Adopted, Proc, EngineState
<1>4. Adopted(h) \in [Pids -> Proc]
  BY <1>3 DEF Adopted
<1>5. QED
  BY <1>3, <1>4 DEF NoNewEngine, IsEngine

\* A helper that ends: its lease is dropped, its children go to init.
LEMMA EndKeeps ==
  ASSUME SessionInv, NEW h \in Helpers,
         \/ \E p \in Pids : DestroyReap(h, p)
         \/ HelperExits(h) \/ HelperCrashes(h)
  PROVE  SessionInv'
<1> USE DEF SessionInv
<1>1. TypeOK /\ GensDrawn /\ LeaseHeld /\ helper[h] \in Helper /\ nextGen \in Nat
  BY NativeAssumption DEF TypeOK
<1>2. CASE \E p \in Pids : DestroyReap(h, p)
  <2>1. PICK p \in Pids : DestroyReap(h, p)
    BY <1>2
  <2>2. [helper[h] EXCEPT !.owned = @ \ {p}] \in Helper
    BY <1>1 DEF Helper
  <2>3. helper' = [helper EXCEPT ![h] = [helper[h] EXCEPT !.owned = @ \ {p}]]
    BY <2>1 DEF DestroyReap
  <2>4. /\ helper' \in [Helpers -> Helper]
        /\ \A k \in Helpers : /\ helper'[k].pc = helper[k].pc
                              /\ helper'[k].sess = helper[k].sess
                              /\ helper'[k].want = helper[k].want
    BY <1>1, <2>2, <2>3 DEF TypeOK, Helper
  <2>5. NoNewEngine
    BY <2>1, <1>1, EndedFits, OneProcEnds DEF DestroyReap
  <2>6. QED
    BY <2>1, <2>4, <2>5, <1>1, UnleasedStepKeeps DEF DestroyReap, TypeOK
<1>3. CASE HelperExits(h)
  BY <1>3, <1>1, AdoptedShrinks, UnleasedStepKeeps DEF HelperExits, TypeOK
<1>4. CASE HelperCrashes(h)
  <2>1. IdleHelper \in Helper /\ IdleHelper.pc = "idle" /\ IdleHelper.sess.gen = 0
          /\ IdleHelper.want.gen = 0
    BY DEF IdleHelper, Helper, HelperPc, NoRecord
  <2>2. /\ helper' \in [Helpers -> Helper] /\ helper'[h] = IdleHelper
        /\ \A k \in Helpers \ {h} : helper'[k] = helper[k]
    BY <1>4, <1>1, <2>1 DEF HelperCrashes, TypeOK
  <2>3. ContainInv(h)' /\ helper'[h].pc \notin Leased
    BY <2>1, <2>2 DEF ContainInv, Leased, Opening, Stopping, Removing, Containing
  <2>4. /\ lease' \in Helpers \union {None} /\ lease' # h
        /\ \A k \in Helpers \ {h} : lease' = k <=> lease = k
    BY <1>4, <1>1, NativeAssumption DEF HelperCrashes, TypeOK
  <2>5. NoNewEngine
    BY <1>4, <1>1, AdoptedShrinks DEF HelperCrashes
  <2>6. UNCHANGED <<nextGen, reg, marker, endpoint>>
    BY <1>4 DEF HelperCrashes
  <2>7. QED
    BY <1>1, <2>1, <2>2, <2>3, <2>4, <2>5, <2>6, UnleasedStepKeeps DEF TypeOK
<1>5. QED
  BY <1>2, <1>3, <1>4
-----------------------------------------------------------------------------
(***************************************************************************)
(* The steps under the lease that leave the record alone.                  *)
(***************************************************************************)
\* What the holder knows, spelled out for a leaf.
LEMMA HolderFacts ==
  ASSUME SessionInv, NEW h \in Helpers, helper[h].pc \in Leased
  PROVE  /\ TypeOK /\ lease = h /\ HolderInv(h)
         /\ helper[h] \in Helper /\ reg \in Record /\ helper[h].sess \in Record
         /\ helper[h].sess.pid # None => helper[h].sess.pid \in Pids
<1>1. /\ TypeOK /\ HolderInv(h) /\ lease = h /\ helper[h] \in Helper
      /\ reg # None /\ reg.gen = helper[h].sess.gen
  BY DEF SessionInv, TypeOK, LeaseHeld, HolderInv
<1>2. reg \in Record
  BY <1>1 DEF TypeOK
<1>3. helper[h].sess \in Record
  BY <1>1, <1>2, RecordFields DEF Helper, NoRecord
<1>4. QED
  BY <1>1, <1>2, <1>3, RecordFields

\* Steps to a place of the same stage, on nothing but the holder's decision.
Decides(h) ==
  \/ SpawnFails(h) \/ ServerReady(h) \/ StartTimeout(h) \/ FinalizeFails(h)
  \/ WaitTimeout(h, "wait", "check") \/ WaitTimeout(h, "termWait", "kill")
  \/ WaitTimeout(h, "cTermWait", "cKill")

LEMMA DecidesMoves ==
  ASSUME TypeOK, NEW h \in Helpers, Decides(h)
  PROVE  /\ UNCHANGED <<nextGen, lease, reg, marker, endpoint, procs>>
         /\ \/ helper[h].pc \in Opening /\ MovesTo(h, "mark")
            \/ helper[h].pc = "await" /\ Answers /\ MovesTo(h, "finalize")
            \/ helper[h].pc = "wait" /\ MovesTo(h, "check")
            \/ helper[h].pc = "termWait" /\ MovesTo(h, "kill")
            \/ helper[h].pc = "cTermWait" /\ MovesTo(h, "cKill")
<1> USE GotoMoves DEF HelperPc, Opening
<1>1. CASE SpawnFails(h)
  BY <1>1 DEF SpawnFails
<1>2. CASE ServerReady(h)
  BY <1>2 DEF ServerReady
<1>3. CASE StartTimeout(h) \/ FinalizeFails(h)
  BY <1>3 DEF StartTimeout, FinalizeFails
<1>4. CASE WaitTimeout(h, "wait", "check") \/ WaitTimeout(h, "termWait", "kill")
           \/ WaitTimeout(h, "cTermWait", "cKill")
  BY <1>4 DEF WaitTimeout
<1>5. QED
  BY <1>1, <1>2, <1>3, <1>4 DEF Decides

LEMMA DecidesKeeps ==
  ASSUME SessionInv, NEW h \in Helpers, Decides(h)
  PROVE  SessionInv'
<1> USE DEF Leased, Opening, Stopping, Removing, Containing, WithPid, Blocked
<1>t. TypeOK
  BY DEF SessionInv
<1>1. helper[h].pc \in Leased
  BY <1>t, DecidesMoves
<1>2. HolderInv(h)
  BY DEF SessionInv
<1>3. helper[h].pc \in WithPid => helper[h].sess.pid # None
  BY <1>1, <1>2 DEF HolderInv
<1>4. PICK to \in Leased :
        /\ MovesTo(h, to)
        /\ \/ to = "mark"
           \/ to = "finalize" /\ helper[h].pc = "await"
           \/ /\ to \in {"check", "kill", "cKill"}
              /\ helper[h].pc \in {"wait", "termWait", "cTermWait"}
  BY <1>t, DecidesMoves
<1>5. UNCHANGED <<nextGen, lease, reg, marker, endpoint, procs>>
  BY <1>t, DecidesMoves
<1>6. NoNewEngine
  BY <1>t, <1>5, SameProcs
<1>7. endpoint' \in Pids \union {None}
  BY <1>t, <1>5 DEF TypeOK
<1>8. QED
  BY <1>1, <1>3, <1>4, <1>5, <1>6, <1>7, MoveKeeps

\* Waits that see the end of the process: nothing of the generation is left.
Waited(h) ==
  \/ WaitOver(h, "wait", "purge") \/ WaitOver(h, "termWait", "purge")
  \/ WaitOver(h, "killWait", "purge")
  \/ h \notin RemoteHelpers /\ WaitOver(h, "cCheck", "cTomb")
  \/ WaitOver(h, "cTermWait", "cTomb") \/ WaitOver(h, "cKillWait", "cTomb")

LEMMA WaitedMoves ==
  ASSUME SessionInv, NEW h \in Helpers, Waited(h)
  PROVE  /\ helper[h].pc \in {"wait", "termWait", "killWait", "cCheck", "cTermWait", "cKillWait"}
         /\ \/ MovesTo(h, "purge")
            \/ MovesTo(h, "cTomb")
         /\ NoNewEngine /\ NoEngineOf(helper[h].sess.gen)'
         /\ UNCHANGED <<nextGen, lease, reg, marker, endpoint>>
<1>1. PICK to \in {"purge", "cTomb"} :
        /\ Gone(h, helper[h].sess.pid) /\ ReapAndGoto(h, helper[h].sess.pid, to)
        /\ UNCHANGED <<nextGen, lease, reg, marker, endpoint>>
        /\ helper[h].pc \in {"wait", "termWait", "killWait", "cCheck", "cTermWait", "cKillWait"}
  BY DEF Waited, WaitOver
<1>2. helper[h].pc \in Leased /\ helper[h].pc \in WithPid
  BY <1>1 DEF Leased, WithPid, Stopping, Containing
<1>3. /\ TypeOK /\ HolderInv(h) /\ helper[h].sess.pid \in Pids
      /\ OnlyAt(helper[h].sess.gen, helper[h].sess.pid)
  BY <1>2, HolderFacts DEF HolderInv
<1>4. MovesTo(h, to) /\ NoNewEngine /\ ~IsEngine(helper[h].sess.pid)'
  <2>0. to \in HelperPc
    BY DEF HelperPc
  <2> DEFINE p == helper[h].sess.pid
  <2>1. ~IsEngine(p)
    BY <1>1 DEF Gone, IsEngine, EngineState
  <2>2. MovesTo(h, to) /\ NoNewEngine /\ procs'[p].state \notin EngineState
    BY <1>1, <1>3, <2>0, <2>1, ReapMoves DEF IsEngine
  <2>3. QED
    BY <2>2 DEF IsEngine, MovesTo
<1>5. NoEngineOf(helper[h].sess.gen)'
  BY <1>3, <1>4 DEF NoEngineOf, OnlyAt, NoNewEngine, MovesTo
<1>6. QED
  BY <1>1, <1>4, <1>5

LEMMA WaitedKeeps ==
  ASSUME SessionInv, NEW h \in Helpers, Waited(h)
  PROVE  SessionInv'
<1> USE DEF Leased, Opening, Stopping, Removing, Containing, WithPid, Blocked
<1>1. helper[h].pc \in Leased /\ helper[h].pc \in WithPid /\ helper[h].pc \in Blocked
  BY WaitedMoves
<1>2. helper[h].sess.pid # None /\ endpoint \in Pids \union {None}
  BY <1>1, HolderFacts DEF HolderInv, TypeOK
<1>3. QED
  BY <1>1, <1>2, WaitedMoves, MoveKeeps

\* SIGTERM, SIGKILL and the quit request change processes only.
Signals(h) ==
  \/ \E dies \in BOOLEAN :
       \/ SendSignal(h, "term", "termWait", dies) \/ SendSignal(h, "kill", "killWait", dies)
       \/ SendSignal(h, "cTerm", "cTermWait", dies) \/ SendSignal(h, "cKill", "cKillWait", dies)
  \/ SendQuit(h)

LEMMA SignalsMoves ==
  ASSUME SessionInv, NEW h \in Helpers, Signals(h)
  PROVE  /\ helper[h].pc \in {"term", "kill", "cTerm", "cKill", "quit"}
         /\ \/ \E to \in {"wait", "termWait", "killWait", "cTermWait", "cKillWait"} : MovesTo(h, to)
            \/ h \in RemoteHelpers /\ MovesTo(h, "remoteWait")
         /\ NoNewEngine
         /\ UNCHANGED <<nextGen, lease, reg, marker, endpoint>>
<1>t. TypeOK
  BY DEF SessionInv
<1>1. CASE SendQuit(h)
  <2>1. endpoint \in Pids /\ procs[endpoint].state = "serving"
    BY <1>1, <1>t DEF SendQuit, Answers, TypeOK
  <2>2. procs[endpoint] \in Proc /\ IsEngine(endpoint)
    BY <2>1, <1>t DEF TypeOK, IsEngine, EngineState
  <2>3. [procs[endpoint] EXCEPT !.state = "quitting"] \in Proc
    BY <2>2 DEF Proc, EngineState
  <2>4. procs' = [procs EXCEPT ![endpoint] = [procs[endpoint] EXCEPT !.state = "quitting"]]
    BY <1>1 DEF SendQuit
  <2>5. NoNewEngine
    BY <1>t, <2>1, <2>2, <2>3, <2>4, OneProcEnds DEF Proc
  <2>6. QED
    BY <1>1, <2>5, <1>t, GotoMoves DEF SendQuit, HelperPc
<1>2. CASE \E dies \in BOOLEAN :
             \/ SendSignal(h, "term", "termWait", dies) \/ SendSignal(h, "kill", "killWait", dies)
             \/ SendSignal(h, "cTerm", "cTermWait", dies) \/ SendSignal(h, "cKill", "cKillWait", dies)
  <2>1. PICK dies \in BOOLEAN, to \in {"termWait", "killWait", "cTermWait", "cKillWait"} :
          /\ helper[h].pc \in {"term", "kill", "cTerm", "cKill"}
          /\ Signal(helper[h].sess.pid, dies) /\ Goto(h, to)
          /\ UNCHANGED <<nextGen, lease, reg, marker, endpoint>>
    BY <1>2 DEF SendSignal
  <2>2. helper[h].pc \in Leased /\ helper[h].pc \in WithPid
    BY <2>1 DEF Leased, WithPid, Stopping, Containing
  <2>3. helper[h].sess.pid \in Pids
    BY <2>2, HolderFacts DEF HolderInv
  <2>4. NoNewEngine
    BY <1>t, <2>1, <2>3, EndedFits, OneProcEnds, SameProcs DEF Signal
  <2>5. QED
    BY <2>1, <2>4, <1>t, GotoMoves DEF HelperPc
<1>3. QED
  BY <1>1, <1>2 DEF Signals

LEMMA SignalsKeeps ==
  ASSUME SessionInv, NEW h \in Helpers, Signals(h)
  PROVE  SessionInv'
<1> USE DEF Leased, Opening, Stopping, Removing, Containing, WithPid, Blocked
<1>1. helper[h].pc \in Leased /\ helper[h].pc \in WithPid /\ helper[h].pc \in Blocked
  BY SignalsMoves
<1>2. helper[h].sess.pid # None /\ endpoint \in Pids \union {None}
  BY <1>1, HolderFacts DEF HolderInv, TypeOK
<1>3. QED
  BY <1>1, <1>2, SignalsMoves, MoveKeeps
\* The child has exited before the engine answered.
LEMMA ChildExitedMoves ==
  ASSUME SessionInv, NEW h \in Helpers, ChildExited(h)
  PROVE  /\ helper[h].pc = "await" /\ MovesTo(h, "mark") /\ NoNewEngine
         /\ UNCHANGED <<nextGen, lease, reg, marker, endpoint>>
<1>1. helper[h].pc \in Leased /\ helper[h].pc \in WithPid
  BY DEF ChildExited, Leased, Opening, WithPid
<1>2. TypeOK /\ helper[h].sess.pid \in Pids
  BY <1>1, HolderFacts DEF HolderInv
<1>3. ~IsEngine(helper[h].sess.pid)
  BY DEF ChildExited, IsEngine, EngineState
<1>4. QED
  BY <1>2, <1>3, ReapMoves DEF ChildExited, HelperPc

LEMMA ChildExitedKeeps ==
  ASSUME SessionInv, NEW h \in Helpers, ChildExited(h)
  PROVE  SessionInv'
<1> USE DEF Leased, Opening, Stopping, Removing, Containing, WithPid, Blocked
<1>1. helper[h].pc \in Leased
  BY ChildExitedMoves
<1>2. endpoint \in Pids \union {None}
  BY <1>1, HolderFacts DEF TypeOK
<1>3. QED
  BY <1>1, <1>2, ChildExitedMoves, MoveKeeps

\* Steps that decide whether the engine counts as stopped, or give up.
Judges(h) ==
  \/ QuitFails(h) \/ RemoteWait(h) \/ Check(h) \/ ContainCheck(h)
  \/ ContainRemote(h) \/ GiveUp(h, "killWait") \/ GiveUp(h, "cKillWait")

LEMMA JudgesMoves ==
  ASSUME SessionInv, NEW h \in Helpers, Judges(h)
  PROVE  /\ helper[h].pc \in Stopping \union {"cCheck", "cKillWait"}
         /\ \/ Returns(h)
            \/ /\ UNCHANGED lease
               /\ \/ \E to \in {"wait", "term", "cTerm"} : MovesTo(h, to)
                  \/ MovesTo(h, "purge") /\ h \in RemoteHelpers
                  \/ /\ MovesTo(h, "purge") \/ MovesTo(h, "cTomb")
                     /\ NoEngineOf(helper[h].sess.gen)'
         /\ UNCHANGED <<nextGen, reg, marker, endpoint, procs>>
<1>t. TypeOK
  BY DEF SessionInv
<1>w. helper[h].pc \in Stopping \union {"cCheck", "cKillWait"}
  BY DEF Judges, QuitFails, RemoteWait, Check, ContainCheck, ContainRemote, GiveUp, Stopping
<1>l. /\ helper[h].pc \in Leased /\ HolderInv(h) /\ helper[h].sess.pid # None
      /\ helper[h].sess.pid \in Pids /\ OnlyAt(helper[h].sess.gen, helper[h].sess.pid)
  <2>1. helper[h].pc \in Leased /\ helper[h].pc \in WithPid
    BY <1>w DEF Leased, WithPid, Containing
  <2>2. QED
    BY <2>1, HolderFacts DEF HolderInv
<1>p. "purge" \in HelperPc /\ "wait" \in HelperPc /\ "term" \in HelperPc
        /\ "cTerm" \in HelperPc /\ "cTomb" \in HelperPc
  BY DEF HelperPc
<1>s. ASSUME NEW to, UNCHANGED procs, MovesTo(h, to), ~IsEngine(helper[h].sess.pid)
      PROVE  NoEngineOf(helper[h].sess.gen)'
  BY <1>s, <1>l DEF NoEngineOf, OnlyAt, IsEngine, MovesTo
<1>1. CASE QuitFails(h)
  BY <1>1, <1>w, <1>t, <1>p, GotoMoves, ReturnReturns DEF QuitFails
<1>2. CASE RemoteWait(h)
  <2>1. h \in RemoteHelpers
    BY <1>2, <1>l DEF RemoteWait, HolderInv
  <2>2. QED
    BY <1>2, <2>1, <1>w, <1>t, <1>p, GotoMoves, ReturnReturns DEF RemoteWait
<1>3. CASE Check(h)
  BY <1>3, <1>w, <1>t, <1>p, <1>s, GotoMoves, ReturnReturns DEF Check
<1>4. CASE ContainCheck(h)
  BY <1>4, <1>w, <1>t, <1>p, <1>s, GotoMoves DEF ContainCheck
<1>5. CASE ContainRemote(h) \/ GiveUp(h, "killWait") \/ GiveUp(h, "cKillWait")
  BY <1>5, <1>w, <1>t, ReturnReturns DEF ContainRemote, GiveUp
<1>6. QED
  BY <1>1, <1>2, <1>3, <1>4, <1>5 DEF Judges

LEMMA JudgesKeeps ==
  ASSUME SessionInv, NEW h \in Helpers, Judges(h)
  PROVE  SessionInv'
<1> USE DEF Leased, Opening, Stopping, Removing, Containing, WithPid, Blocked
<1>1. helper[h].pc \in Leased /\ helper[h].pc \in WithPid /\ helper[h].pc \in Blocked
  BY JudgesMoves
<1>2. /\ helper[h].sess.pid # None /\ endpoint \in Pids \union {None} /\ lease = h
      /\ TypeOK
  BY <1>1, HolderFacts DEF HolderInv, TypeOK
<1>3. UNCHANGED <<nextGen, reg, marker, endpoint, procs>>
  BY JudgesMoves
<1>4. CASE Returns(h)
  BY <1>2, <1>3, <1>4, PlainReturnKeeps
<1>5. ASSUME NEW to \in {"wait", "term", "cTerm", "purge", "cTomb"}, MovesTo(h, to),
             UNCHANGED lease,
             to \in {"wait", "term", "cTerm"} \/ (to = "purge" /\ h \in RemoteHelpers)
               \/ NoEngineOf(helper[h].sess.gen)'
      PROVE  SessionInv'
  BY <1>1, <1>2, <1>3, <1>5, SameProcs, MoveKeeps
<1>6. QED
  BY <1>4, <1>5, JudgesMoves

\* The artifacts of the generation go, and the lease with them if one stays.
Purges(h) == Purge(h) \/ \E removed \in BOOLEAN : PurgeFails(h, removed)

LEMMA PurgesMoves ==
  ASSUME TypeOK, NEW h \in Helpers, Purges(h)
  PROVE  /\ helper[h].pc = "purge"
         /\ Returns(h) \/ (UNCHANGED lease /\ MovesTo(h, "remove"))
         /\ endpoint' \in {endpoint, None}
         /\ UNCHANGED <<nextGen, reg, marker, procs>>
  BY GotoMoves, ReturnReturns DEF Purges, Purge, PurgeFails, HelperPc

LEMMA PurgesKeeps ==
  ASSUME SessionInv, NEW h \in Helpers, Purges(h)
  PROVE  SessionInv'
<1> USE DEF Leased, Opening, Stopping, Removing, Containing, WithPid, Blocked
<1>t. TypeOK
  BY DEF SessionInv
<1>1. helper[h].pc = "purge" /\ helper[h].pc \in Leased
  BY <1>t, PurgesMoves
<1>2. endpoint \in Pids \union {None} /\ lease = h /\ HolderInv(h)
  BY <1>1, HolderFacts DEF TypeOK
<1>3. endpoint' \in Pids \union {None} /\ UNCHANGED <<nextGen, reg, marker, procs>>
  BY <1>t, <1>2, PurgesMoves
<1>4. CASE Returns(h)
  BY <1>2, <1>3, <1>4, PlainReturnKeeps
<1>5. CASE UNCHANGED lease /\ MovesTo(h, "remove")
  <2>1. h \notin RemoteHelpers /\ helper[h].sess.pid # None => NoEngineOf(helper[h].sess.gen)'
    BY <1>1, <1>2, <1>3, <1>5 DEF HolderInv, NoEngineOf, IsEngine, MovesTo
  <2>2. QED
    BY <1>1, <1>2, <1>3, <1>5, <1>t, <2>1, SameProcs, MoveKeeps
<1>6. QED
  BY <1>t, <1>4, <1>5, PurgesMoves
-----------------------------------------------------------------------------
(***************************************************************************)
(* The steps that take the lease.                                          *)
(***************************************************************************)
\* A reservation of a fresh generation, with or without its helper.
LEMMA ReserveKeeps ==
  ASSUME SessionInv, NEW h \in Helpers,
         (\E detached \in BOOLEAN : OpenReserve(h, detached)) \/ ReserveFails(h)
  PROVE  SessionInv'
<1> USE DEF SessionInv
<1>t. /\ TypeOK /\ GensDrawn /\ LeaseHeld /\ helper[h] \in Helper
      /\ nextGen \in Nat /\ MaxGen \in Nat
  BY NativeAssumption DEF TypeOK
<1>1. /\ helper[h].pc = "idle" /\ lease = None /\ nextGen < MaxGen /\ nextGen' = nextGen + 1
      /\ reg' = NewRecord /\ UNCHANGED <<marker, endpoint, procs>>
  BY DEF OpenReserve, ReserveFails, NameFree
<1>2. NewRecord \in Record /\ NewRecord # None
  BY <1>t, <1>1, NoneIsNoRecord DEF NewRecord, Record, Gens, RecordState
<1>3. /\ NewRecord.gen = nextGen + 1 /\ NewRecord.pid = None
      /\ NewRecord.state = "opening"
  BY DEF NewRecord
<1>4. RecordKept /\ RecordInv'
  BY <1>1, <1>2, <1>3, <1>t DEF RecordKept, RecordInv
<1>5. /\ nextGen' \in 0 .. MaxGen /\ nextGen <= nextGen' /\ reg'.gen <= nextGen'
      /\ marker' \in 0 .. MaxGen /\ endpoint' \in Pids \union {None}
      /\ procs' \in [Pids -> Proc] /\ \A p \in Pids : procs'[p].gen <= nextGen'
  <2>1. \A p \in Pids : procs[p].gen \in Nat /\ procs[p].gen <= nextGen
    BY <1>t DEF TypeOK, Proc, GensDrawn
  <2>2. QED
    BY <2>1, <1>1, <1>3, <1>t DEF TypeOK
<1>6. helper[h].sess.gen <= nextGen' /\ helper[h].want.gen <= nextGen'
  <2>1. helper[h].sess.gen \in Nat /\ helper[h].want.gen \in Nat
    BY <1>t, RecordFields DEF Helper, NoRecord
  <2>2. QED
    BY <2>1, <1>1, <1>t DEF GensDrawn
<1>7. CASE ReserveFails(h)
  <2>1. /\ OthersStay(h) /\ helper'[h] = helper[h] /\ lease' = None
    BY <1>7, <1>1, <1>t DEF ReserveFails, OthersStay, TypeOK
  <2>2. HolderInv(h)' /\ ContainInv(h)' /\ helper'[h].pc \notin Leased
    BY <2>1, <1>1 DEF HolderInv, ContainInv, Leased, Opening, Stopping, Removing, Containing
  <2>3. QED
    BY <1>1, <1>4, <1>5, <1>6, <2>1, <2>2, LeasedStepKeeps
<1>8. CASE \E detached \in BOOLEAN : OpenReserve(h, detached)
  <2>1. PICK detached \in BOOLEAN : OpenReserve(h, detached)
    BY <1>8
  <2>2. /\ OthersStay(h) /\ helper'[h].pc = "marker" /\ helper'[h].sess = NewRecord
        /\ helper'[h].want = helper[h].want /\ lease' = h
    BY <2>1, <1>2, <1>t DEF OpenReserve, OthersStay, TypeOK, Helper, HelperPc
  <2>3. NoEngineOf(nextGen + 1)
    <3>1. \A p \in Pids : procs[p].gen \in Nat /\ procs[p].gen <= nextGen
      BY <1>t DEF TypeOK, Proc, GensDrawn
    <3>2. QED
      BY <3>1, <1>t DEF NoEngineOf
  <2>4. NoEngineOf(helper[h].sess.gen)'
    BY <2>2, <2>3, <1>1, <1>3 DEF NoEngineOf, IsEngine
  <2>5. HolderInv(h)' /\ ContainInv(h)' /\ helper'[h].pc \in Leased
    BY <2>2, <2>4, <1>1, <1>2, <1>3
       DEF HolderInv, ContainInv, Leased, Opening, Stopping, Removing, Containing, WithPid, Blocked
  <2>6. helper'[h].sess.gen <= nextGen'
    BY <2>2, <1>1, <1>3, <1>t
  <2>7. QED
    BY <1>1, <1>4, <1>5, <1>6, <2>2, <2>5, <2>6, LeasedStepKeeps
<1>9. QED
  BY <1>7, <1>8

\* close, kill, gc and the destructor take the lease and start from the
\* record they find.
Takes(h) ==
  /\ lease = None /\ reg # None /\ lease' = h
  /\ OthersStay(h)
  /\ helper'[h].pc = "mark" /\ helper'[h].sess = reg /\ helper'[h].want = helper[h].want
  /\ UNCHANGED <<nextGen, reg, marker, endpoint, procs>>

LEMMA TakesKeeps ==
  ASSUME SessionInv, NEW h \in Helpers, Takes(h)
  PROVE  SessionInv'
<1> USE DEF SessionInv
<1>t. TypeOK /\ GensDrawn /\ RecordInv
  OBVIOUS
<1>1. HolderInv(h)' /\ ContainInv(h)' /\ helper'[h].pc \in Leased
  <2>1. reg.pid # None => OnlyAt(reg.gen, reg.pid)'
    BY <1>t DEF Takes, RecordInv, OnlyAt, IsEngine
  <2>2. QED
    BY <2>1 DEF Takes, HolderInv, ContainInv, Leased, Opening, Stopping, Removing,
                Containing, WithPid, Blocked
<1>2. RecordInv'
  BY <1>t, SameProcs, NoNewEngineKeeps DEF RecordInv, Takes
<1>3. RecordKept
  BY <1>t, NativeAssumption DEF RecordKept, TypeOK, Takes
<1>4. NoNewEngine
  BY <1>t, SameProcs DEF Takes
<1>5. QED
  BY <1>1, <1>2, <1>3, <1>4, <1>t, GensStay, LeasedStepKeeps DEF Takes, TypeOK, GensDrawn

LEMMA CloseTakes ==
  ASSUME TypeOK, NEW h \in Helpers,
         \/ \E force, retire \in BOOLEAN : Close(h, force, retire)
         \/ DestroyClose(h)
  PROVE  Takes(h) /\ helper'[h].op = "close"
<1>1. helper[h] \in Helper /\ reg \in Record
  BY DEF TypeOK, Close, DestroyClose
<1>2. CASE \E force, retire \in BOOLEAN : Close(h, force, retire)
  <2>1. PICK force \in BOOLEAN, retire \in BOOLEAN : Close(h, force, retire)
    BY <1>2
  <2>2. QED
    BY <2>1, <1>1 DEF Close, Takes, OthersStay, TypeOK, Helper, HelperPc
<1>3. CASE DestroyClose(h)
  BY <1>3, <1>1 DEF DestroyClose, Takes, OthersStay, TypeOK, Helper, HelperPc
<1>4. QED
  BY <1>2, <1>3

LEMMA GcCloseTakes ==
  ASSUME TypeOK, NEW h \in Helpers, GcClose(h)
  PROVE  /\ helper[h].pc = "gcClose" /\ lease = None
         /\ \/ StillAsSeen(helper[h].want) /\ Takes(h) /\ helper'[h].op = helper[h].op
            \/ Returns(h) /\ UNCHANGED <<nextGen, reg, marker, endpoint, procs>>
<1>1. helper[h] \in Helper
  BY DEF TypeOK
<1>2. CASE StillAsSeen(helper[h].want)
  <2>1. reg \in Record
    BY <1>2 DEF StillAsSeen, TypeOK
  <2>2. QED
    BY <1>1, <1>2, <2>1 DEF GcClose, StillAsSeen, Takes, OthersStay, TypeOK, Helper, HelperPc
<1>3. CASE ~StillAsSeen(helper[h].want)
  BY <1>3, ReturnReturns DEF GcClose
<1>4. QED
  BY <1>2, <1>3

LEMMA TakingKeeps ==
  ASSUME SessionInv, NEW h \in Helpers,
         \/ \E force, retire \in BOOLEAN : Close(h, force, retire)
         \/ DestroyClose(h) \/ GcClose(h)
  PROVE  SessionInv'
<1>t. TypeOK /\ endpoint \in Pids \union {None}
  BY DEF SessionInv, TypeOK
<1>1. CASE GcClose(h)
  BY <1>1, <1>t, GcCloseTakes, TakesKeeps, PlainReturnKeeps
<1>2. CASE (\E force, retire \in BOOLEAN : Close(h, force, retire)) \/ DestroyClose(h)
  BY <1>2, <1>t, CloseTakes, TakesKeeps
<1>3. QED
  BY <1>1, <1>2
-----------------------------------------------------------------------------
(***************************************************************************)
(* The steps under the lease that write the marker, a process or the       *)
(* record.                                                                 *)
(***************************************************************************)
LEMMA WriteMarkerMoves ==
  ASSUME SessionInv, NEW h \in Helpers, WriteMarker(h)
  PROVE  /\ helper[h].pc = "marker" /\ MovesTo(h, "spawn") /\ marker' = helper[h].sess.gen
         /\ UNCHANGED <<nextGen, lease, reg, endpoint, procs>>
  BY GotoMoves DEF WriteMarker, SessionInv, HelperPc

\* The marker is written while the record is opening, so no active record
\* loses its marker.
LEMMA WriteMarkerKeeps ==
  ASSUME SessionInv, NEW h \in Helpers, WriteMarker(h)
  PROVE  SessionInv'
<1>1. helper[h].pc \in Leased /\ helper[h].pc = "marker"
  BY WriteMarkerMoves DEF Leased, Opening
<1>2. /\ TypeOK /\ lease = h /\ HolderInv(h) /\ reg \in Record /\ helper[h].sess \in Record
      /\ GensDrawn /\ RecordInv /\ reg.state = "opening"
  BY <1>1, HolderFacts DEF SessionInv, HolderInv, Opening
<1>3. RecordInv'
  BY <1>2, WriteMarkerMoves, SameProcs, NoNewEngineKeeps DEF RecordInv
<1>4. HolderInv(h)' /\ helper'[h].pc \in Leased /\ ContainInv(h)'
  <2>1. /\ helper'[h].pc = "spawn" /\ helper'[h].sess = helper[h].sess
        /\ helper[h].sess.pid = None /\ reg.pid = None /\ reg.gen = helper[h].sess.gen
        /\ helper[h].sess.state = "opening" /\ reg # None
    BY <1>1, <1>2, WriteMarkerMoves DEF HolderInv, MovesTo, Opening
  <2>2. NoEngineOf(helper[h].sess.gen)'
    BY <2>1, <1>1, <1>2, WriteMarkerMoves DEF HolderInv, NoEngineOf, IsEngine
  <2>3. QED
    BY <2>1, <2>2, <1>2, WriteMarkerMoves
       DEF HolderInv, ContainInv, Leased, Opening, WithPid, Blocked, Stopping, Removing, Containing
<1>5. RecordKept /\ marker' \in 0 .. MaxGen
  BY <1>2, WriteMarkerMoves, RecordFields, NativeAssumption DEF RecordKept
<1>6. NoNewEngine
  BY <1>2, WriteMarkerMoves, SameProcs
<1>7. QED
  BY <1>2, <1>3, <1>4, <1>5, <1>6, WriteMarkerMoves, GensStay, LeasedStepKeeps
     DEF MovesTo, GensDrawn, TypeOK

LEMMA SpawnMoves ==
  ASSUME SessionInv, NEW h \in Helpers, NEW p \in Pids, Spawn(h, p)
  PROVE  /\ helper[h].pc = "spawn" /\ helper'[h].pc = "record" /\ OthersStay(h)
         /\ helper'[h].sess = [helper[h].sess EXCEPT !.pid = p]
         /\ helper'[h].want = helper[h].want /\ helper'[h].op = helper[h].op
         /\ procs' = [procs EXCEPT ![p] = [state |-> "starting",
                                           gen |-> helper[h].sess.gen, parent |-> h]]
         /\ procs' \in [Pids -> Proc]
         /\ UNCHANGED <<nextGen, lease, reg, marker, endpoint>>
<1>1. helper[h].pc \in Leased
  BY DEF Spawn, Leased, Opening
<1>2. TypeOK /\ helper[h] \in Helper /\ helper[h].sess \in Record
  BY <1>1, HolderFacts
<1>3. [helper[h].sess EXCEPT !.pid = p] \in Record
  BY <1>2 DEF Record
<1>4. [helper[h] EXCEPT !.pc = "record", !.sess = [@ EXCEPT !.pid = p],
                        !.owned = @ \union {p}] \in Helper
  BY <1>2, <1>3 DEF Helper, HelperPc
<1>5. helper' = [helper EXCEPT ![h] = [helper[h] EXCEPT !.pc = "record",
                   !.sess = [@ EXCEPT !.pid = p], !.owned = @ \union {p}]]
  BY DEF Spawn
<1>6. /\ OthersStay(h) /\ helper'[h].pc = "record"
      /\ helper'[h].sess = [helper[h].sess EXCEPT !.pid = p]
      /\ helper'[h].want = helper[h].want /\ helper'[h].op = helper[h].op
  BY <1>2, <1>4, <1>5 DEF OthersStay, TypeOK, Helper
<1>7. [state |-> "starting", gen |-> helper[h].sess.gen, parent |-> h] \in Proc
  BY <1>2, RecordFields DEF Proc, EngineState
<1>8. QED
  BY <1>2, <1>6, <1>7 DEF Spawn, TypeOK

\* The one engine of the generation starts.
LEMMA SpawnKeeps ==
  ASSUME SessionInv, NEW h \in Helpers, NEW p \in Pids, Spawn(h, p)
  PROVE  SessionInv'
<1>m. /\ helper[h].pc = "spawn" /\ helper'[h].pc = "record" /\ OthersStay(h)
      /\ helper'[h].sess = [helper[h].sess EXCEPT !.pid = p]
      /\ helper'[h].want = helper[h].want
      /\ procs' = [procs EXCEPT ![p] = [state |-> "starting",
                                        gen |-> helper[h].sess.gen, parent |-> h]]
      /\ procs' \in [Pids -> Proc]
      /\ UNCHANGED <<nextGen, lease, reg, marker, endpoint>>
  BY SpawnMoves
<1>1. helper[h].pc \in Leased /\ helper[h].pc = "spawn"
  BY <1>m DEF Leased, Opening
<1>2. /\ TypeOK /\ lease = h /\ HolderInv(h) /\ reg \in Record /\ helper[h].sess \in Record
      /\ GensDrawn /\ RecordInv /\ reg.state = "opening" /\ reg.pid = None /\ reg # None
      /\ reg.gen = helper[h].sess.gen /\ NoEngineOf(helper[h].sess.gen)
      /\ marker = helper[h].sess.gen /\ helper[h].sess.state = "opening"
  BY <1>1, HolderFacts DEF SessionInv, HolderInv, Opening
<1>3. /\ helper'[h].sess.gen = helper[h].sess.gen /\ helper'[h].sess.pid = p
      /\ helper'[h].sess.state = "opening" /\ helper'[h].pc = "record" /\ p # None
  BY <1>2, <1>m, NativeAssumption DEF Record
<1>4. RecordInv'
  BY <1>2, <1>m DEF RecordInv
<1>5. OnlyAt(helper[h].sess.gen, helper[h].sess.pid)'
  BY <1>2, <1>3, <1>m DEF OnlyAt, NoEngineOf, IsEngine, TypeOK
<1>6. HolderInv(h)' /\ helper'[h].pc \in Leased /\ ContainInv(h)'
  BY <1>2, <1>3, <1>5, <1>m
     DEF HolderInv, ContainInv, Leased, Opening, WithPid, Blocked, Stopping, Removing, Containing
<1>7. RecordKept
  BY <1>2, <1>m DEF RecordKept
<1>8. \A q \in Pids : procs'[q].gen <= nextGen'
  BY <1>2, <1>m DEF GensDrawn, TypeOK
<1>9. /\ nextGen' \in 0 .. MaxGen /\ nextGen <= nextGen' /\ reg'.gen <= nextGen'
      /\ helper'[h].sess.gen <= nextGen' /\ helper'[h].want.gen <= nextGen'
  BY <1>2, <1>3, <1>m, NativeAssumption DEF GensDrawn, TypeOK
<1>10. QED
  BY <1>2, <1>4, <1>6, <1>7, <1>8, <1>9, <1>m, LeasedStepKeeps DEF TypeOK

\* The holder rewrites the record from its copy with a new state.
Rewrites(h, state) == reg' = [helper[h].sess EXCEPT !.state = state]

LEMMA RewriteFits ==
  ASSUME SessionInv, NEW h \in Helpers, helper[h].pc \in Leased,
         NEW state \in RecordState, Rewrites(h, state), UNCHANGED <<marker, procs>>,
         state = "active" => marker = helper[h].sess.gen /\ helper[h].sess.pid # None,
         state = "terminated_on_timeout" => NoEngineOf(helper[h].sess.gen)
  PROVE  /\ RecordKept /\ RecordInv' /\ reg' \in Record /\ reg' # None
         /\ reg'.gen = helper[h].sess.gen /\ reg'.pid = helper[h].sess.pid
         /\ reg'.state = state /\ reg'.gen <= nextGen
<1>1. /\ TypeOK /\ HolderInv(h) /\ reg \in Record /\ helper[h].sess \in Record /\ GensDrawn
  BY HolderFacts DEF SessionInv
<1>2. /\ reg' \in Record /\ reg'.gen = helper[h].sess.gen
      /\ reg'.pid = helper[h].sess.pid /\ reg'.state = state
  BY <1>1 DEF Rewrites, Record
<1>3. reg' # None /\ reg # None
  BY <1>1, <1>2, NoneIsNoRecord
<1>4. RecordKept
  BY <1>1, <1>2, <1>3 DEF RecordKept, HolderInv
<1>5. reg'.gen <= nextGen
  BY <1>2 , <1>1 DEF GensDrawn
<1>6. RecordInv'
  <2>1. reg'.pid # None => OnlyAt(reg.gen, reg.pid)'
    BY <1>1, <1>2 DEF HolderInv, OnlyAt, IsEngine
  <2>2. state = "terminated_on_timeout" => NoEngineOf(reg.gen)'
    BY <1>2 DEF NoEngineOf, IsEngine
  <2>3. QED
    BY <1>2, <2>1, <2>2 DEF RecordInv
<1>7. QED
  BY <1>2, <1>3, <1>4, <1>5, <1>6

\* It goes on after that.
LEMMA RewriteMoveKeeps ==
  ASSUME SessionInv, NEW h \in Helpers, helper[h].pc \in Leased,
         NEW state \in RecordState, Rewrites(h, state),
         UNCHANGED <<nextGen, lease, marker, endpoint, procs>>,
         state = "active" => marker = helper[h].sess.gen /\ helper[h].sess.pid # None,
         state # "terminated_on_timeout",
         NEW to \in Leased, MovesTo(h, to),
         \/ to = "mark"
         \/ to = "await" /\ helper[h].pc = "record" /\ state = "opening"
         \/ to = "quit" /\ helper[h].sess.pid # None /\ state = "cleanup_failed"
         \/ to = "purge" /\ helper[h].sess.pid = None /\ state = "cleanup_failed"
  PROVE  SessionInv'
<1>1. /\ TypeOK /\ lease = h /\ HolderInv(h) /\ reg \in Record /\ helper[h].sess \in Record
      /\ GensDrawn
  BY HolderFacts DEF SessionInv
<1>2. /\ RecordKept /\ RecordInv' /\ reg' # None
      /\ reg'.gen = helper[h].sess.gen /\ reg'.pid = helper[h].sess.pid
      /\ reg'.state = state /\ reg'.gen <= nextGen
  BY RewriteFits
<1>3. helper'[h].pc = to /\ helper'[h].sess = helper[h].sess
      /\ helper'[h].want = helper[h].want /\ OthersStay(h)
  BY DEF MovesTo
<1>4. helper[h].sess.pid # None => OnlyAt(helper[h].sess.gen, helper[h].sess.pid)'
  BY <1>1, <1>3 DEF HolderInv, OnlyAt, IsEngine
<1>5. to = "await" => /\ marker = helper[h].sess.gen /\ helper[h].sess.state = "opening"
                      /\ helper[h].sess.pid # None
  BY <1>1 DEF HolderInv, Opening, WithPid
<1>6. HolderInv(h)' /\ ContainInv(h)'
  BY <1>2, <1>3, <1>4, <1>5
     DEF HolderInv, ContainInv, Leased, Opening, WithPid, Blocked, Stopping, Removing, Containing
<1>7. NoNewEngine
  BY <1>1, SameProcs
<1>8. QED
  BY <1>1, <1>2, <1>3, <1>6, <1>7, GensStay, LeasedStepKeeps DEF GensDrawn, TypeOK
\* It returns after that.
LEMMA RewriteReturnKeeps ==
  ASSUME SessionInv, NEW h \in Helpers, helper[h].pc \in Leased,
         NEW state \in RecordState, Rewrites(h, state),
         UNCHANGED <<nextGen, marker, endpoint, procs>>,
         state = "active" => marker = helper[h].sess.gen /\ helper[h].sess.pid # None,
         state = "terminated_on_timeout" => NoEngineOf(helper[h].sess.gen),
         Returns(h)
  PROVE  SessionInv'
<1>1. TypeOK /\ lease = h /\ endpoint' \in Pids \union {None}
  BY HolderFacts DEF TypeOK
<1>2. RecordKept /\ RecordInv' /\ reg'.gen <= nextGen
  BY RewriteFits
<1>3. QED
  BY <1>1, <1>2, ReturnKeeps

\* The record is removed, and the holder returns.
LEMMA RemoveReturnKeeps ==
  ASSUME SessionInv, NEW h \in Helpers, helper[h].pc \in Leased, reg' = None,
         UNCHANGED <<nextGen, marker, endpoint, procs>>, Returns(h)
  PROVE  SessionInv'
<1>1. TypeOK /\ lease = h /\ endpoint' \in Pids \union {None}
  BY HolderFacts DEF TypeOK
<1>2. QED
  BY <1>1, ReturnKeeps DEF RecordKept, RecordInv

LEMMA SameState ==
  ASSUME NEW r \in Record
  PROVE  [r EXCEPT !.state = r.state] = r
  BY DEF Record

\* Writes of the record that succeed.
Writes(h) ==
  RecordPid(h) \/ Mark(h) \/ Finalize(h) \/ Remove(h) \/ ContainTombstone(h)

LEMMA WritesMoves ==
  ASSUME SessionInv, NEW h \in Helpers, Writes(h)
  PROVE  /\ helper[h].pc \in Leased
         /\ UNCHANGED <<nextGen, marker, endpoint, procs>>
         /\ \/ /\ helper[h].pc = "record" /\ Rewrites(h, "opening") /\ MovesTo(h, "await")
               /\ UNCHANGED lease
            \/ /\ helper[h].pc = "mark" /\ Rewrites(h, "cleanup_failed") /\ UNCHANGED lease
               /\ \/ helper[h].sess.pid = None /\ MovesTo(h, "purge")
                  \/ helper[h].sess.pid # None /\ MovesTo(h, "quit")
            \/ helper[h].pc = "finalize" /\ Rewrites(h, "active") /\ Returns(h)
            \/ helper[h].pc = "remove" /\ reg' = None /\ Returns(h)
            \/ helper[h].pc = "cTomb" /\ Rewrites(h, "terminated_on_timeout") /\ Returns(h)
<1>1. helper[h].pc \in Leased
  BY DEF Writes, RecordPid, Mark, Finalize, Remove, ContainTombstone, Leased, Opening,
         Removing, Containing
<1>2. /\ TypeOK /\ lease = h /\ HolderInv(h) /\ helper[h] \in Helper
      /\ reg \in Record /\ helper[h].sess \in Record
      /\ reg # None /\ reg.gen = helper[h].sess.gen
  BY <1>1, HolderFacts DEF HolderInv
<1>3. {"await", "mark", "purge", "quit"} \subseteq HelperPc
  BY DEF HelperPc
<1>4. CASE RecordPid(h)
  <2>1. reg.state = "opening" /\ helper[h].sess.state = "opening"
    BY <1>1, <1>2, <1>4 DEF HolderInv, RecordPid, Opening
  <2>2. reg' = helper[h].sess /\ Goto(h, "await")
    BY <1>2, <1>4, <2>1 DEF RecordPid
  <2>3. QED
    BY <1>1, <1>2, <1>3, <1>4, <2>1, <2>2, SameState, GotoMoves DEF RecordPid, Rewrites
<1>5. CASE Mark(h)
  <2>1. /\ reg' = Failed(helper[h].sess) /\ UNCHANGED lease
        /\ Goto(h, IF helper[h].sess.pid = None THEN "purge" ELSE "quit")
    BY <1>2, <1>5 DEF Mark
  <2>2. QED
    BY <1>1, <1>2, <1>3, <1>5, <2>1, GotoMoves DEF Mark, Rewrites, Failed
<1>6. CASE Finalize(h)
  <2> DEFINE own == IF helper[h].detached THEN {} ELSE helper[h].owned
  <2>1. [IdleHelper EXCEPT !.owned = own] \in Helper
    BY <1>2 DEF Helper, IdleHelper, HelperPc
  <2>2. helper' = [helper EXCEPT ![h] = [IdleHelper EXCEPT !.owned = own]]
    BY <1>6 DEF Finalize
  <2>3. Returns(h)
    BY <2>1, <2>2, <1>2, <1>6 DEF Finalize, Returns, OthersStay, TypeOK, IdleHelper
  <2>4. QED
    BY <1>1, <1>6, <2>3 DEF Finalize, Rewrites
<1>7. CASE Remove(h)
  BY <1>1, <1>2, <1>7, ReturnReturns DEF Remove
<1>8. CASE ContainTombstone(h)
  BY <1>1, <1>2, <1>8, ReturnReturns DEF ContainTombstone, Rewrites
<1>9. QED
  BY <1>4, <1>5, <1>6, <1>7, <1>8 DEF Writes

LEMMA WritesKeeps ==
  ASSUME SessionInv, NEW h \in Helpers, Writes(h)
  PROVE  SessionInv'
<1>1. helper[h].pc \in Leased /\ UNCHANGED <<nextGen, marker, endpoint, procs>>
  BY WritesMoves
<1>2. HolderInv(h)
  BY <1>1, HolderFacts
<1>3. {"opening", "active", "cleanup_failed", "terminated_on_timeout"} \subseteq RecordState
        /\ {"await", "purge", "quit"} \subseteq Leased
  BY DEF RecordState, Leased, Opening, Stopping, Removing
<1>4. helper[h].pc = "finalize" => marker = helper[h].sess.gen /\ helper[h].sess.pid # None
  BY <1>1, <1>2 DEF HolderInv, Opening, WithPid
<1>5. helper[h].pc = "cTomb" => NoEngineOf(helper[h].sess.gen)
  BY <1>1, <1>2 DEF HolderInv
<1>6. CASE helper[h].pc = "record" /\ Rewrites(h, "opening") /\ MovesTo(h, "await")
           /\ UNCHANGED lease
  BY <1>1, <1>3, <1>6, RewriteMoveKeeps
<1>7. CASE /\ helper[h].pc = "mark" /\ Rewrites(h, "cleanup_failed") /\ UNCHANGED lease
           /\ \/ helper[h].sess.pid = None /\ MovesTo(h, "purge")
              \/ helper[h].sess.pid # None /\ MovesTo(h, "quit")
  BY <1>1, <1>3, <1>7, RewriteMoveKeeps
<1>8. CASE helper[h].pc = "finalize" /\ Rewrites(h, "active") /\ Returns(h)
  BY <1>1, <1>3, <1>4, <1>8, RewriteReturnKeeps
<1>9. CASE helper[h].pc = "remove" /\ reg' = None /\ Returns(h)
  BY <1>1, <1>9, RemoveReturnKeeps
<1>10. CASE helper[h].pc = "cTomb" /\ Rewrites(h, "terminated_on_timeout") /\ Returns(h)
  BY <1>1, <1>3, <1>5, <1>10, RewriteReturnKeeps
<1>11. QED
  BY <1>6, <1>7, <1>8, <1>9, <1>10, WritesMoves

\* The marker cannot be written.
LEMMA MarkerFailsKeeps ==
  ASSUME SessionInv, NEW h \in Helpers,
         NEW left \in {None, helper[h].sess, Failed(helper[h].sess)}, MarkerFails(h, left)
  PROVE  SessionInv'
<1>1. helper[h].pc \in Leased /\ UNCHANGED <<nextGen, marker, endpoint, procs>>
        /\ reg' = left /\ helper[h].pc = "marker"
  BY DEF MarkerFails, Leased, Opening
<1>2. TypeOK /\ HolderInv(h) /\ helper[h].sess \in Record /\ helper[h].sess.state = "opening"
  BY <1>1, HolderFacts DEF HolderInv, Opening
<1>3. Returns(h)
  BY <1>2, ReturnReturns DEF MarkerFails
<1>4. {"opening", "cleanup_failed"} \subseteq RecordState
  BY DEF RecordState
<1>5. CASE left = None
  BY <1>1, <1>3, <1>5, RemoveReturnKeeps
<1>6. CASE left = helper[h].sess
  <2>1. Rewrites(h, "opening")
    BY <1>1, <1>2, <1>6, SameState DEF Rewrites
  <2>2. QED
    BY <1>1, <1>3, <1>4, <2>1, RewriteReturnKeeps
<1>7. CASE left = Failed(helper[h].sess)
  <2>1. Rewrites(h, "cleanup_failed")
    BY <1>1, <1>7 DEF Rewrites, Failed
  <2>2. QED
    BY <1>1, <1>3, <1>4, <2>1, RewriteReturnKeeps
<1>8. QED
  BY <1>5, <1>6, <1>7

\* The record of the generation the request was sent to is blocked.
LEMMA FailedRecordFits ==
  ASSUME SessionInv, reg # None, reg' = Failed(reg), UNCHANGED <<marker, procs>>
  PROVE  /\ RecordKept /\ RecordInv' /\ reg' \in Record /\ reg' # None
         /\ reg'.gen = reg.gen /\ reg'.pid = reg.pid /\ reg'.state = "cleanup_failed"
         /\ reg'.gen <= nextGen
<1>1. TypeOK /\ GensDrawn /\ RecordInv /\ reg \in Record
  BY DEF SessionInv, TypeOK
<1>2. /\ reg' \in Record /\ reg'.gen = reg.gen /\ reg'.pid = reg.pid
      /\ reg'.state = "cleanup_failed"
  BY <1>1 DEF Failed, Record, RecordState
<1>3. reg'.pid # None => OnlyAt(reg.gen, reg.pid)'
  BY <1>1, <1>2 DEF RecordInv, OnlyAt, IsEngine
<1>4. RecordInv'
  BY <1>2, <1>3 DEF RecordInv
<1>5. QED
  BY <1>1, <1>2, <1>4, NoneIsNoRecord DEF RecordKept, GensDrawn

LEMMA ContainKeeps ==
  ASSUME SessionInv, NEW h \in Helpers, Contain(h)
  PROVE  SessionInv'
<1>t. TypeOK /\ GensDrawn /\ RecordInv /\ ContainInv(h) /\ helper[h] \in Helper
        /\ endpoint \in Pids \union {None}
  BY DEF SessionInv, TypeOK
<1>1. helper[h].pc = "contain" /\ lease = None /\ UNCHANGED <<nextGen, marker, endpoint, procs>>
  BY DEF Contain
<1>2. CASE reg # None /\ reg.gen = helper[h].want.gen
  <2>1. reg' = Failed(reg) /\ lease' = h
          /\ helper' = [helper EXCEPT ![h].pc = "cCheck", ![h].sess = reg']
    BY <1>2 DEF Contain
  <2>2. /\ RecordKept /\ RecordInv' /\ reg' \in Record /\ reg' # None
        /\ reg'.gen = reg.gen /\ reg'.pid = reg.pid /\ reg'.state = "cleanup_failed"
        /\ reg'.gen <= nextGen
    BY <1>1, <1>2, <2>1, FailedRecordFits
  <2>3. /\ OthersStay(h) /\ helper'[h].pc = "cCheck" /\ helper'[h].sess = reg'
        /\ helper'[h].want = helper[h].want
    BY <2>1, <2>2, <1>t DEF OthersStay, TypeOK, Helper, HelperPc
  <2>4. reg.pid # None
    BY <1>t, <1>1, <1>2 DEF ContainInv
  <2>5. OnlyAt(helper[h].sess.gen, helper[h].sess.pid)'
    BY <1>1, <1>2, <1>t, <2>2, <2>3, <2>4 DEF RecordInv, OnlyAt, IsEngine
  <2>6. HolderInv(h)' /\ ContainInv(h)' /\ helper'[h].pc \in Leased
    BY <2>2, <2>3, <2>4, <2>5
       DEF HolderInv, ContainInv, Leased, Opening, WithPid, Blocked, Stopping, Removing, Containing
  <2>7. NoNewEngine
    BY <1>1, <1>t, SameProcs
  <2>8. QED
    BY <1>t, <1>1, <2>1, <2>2, <2>3, <2>6, <2>7, GensStay, LeasedStepKeeps DEF GensDrawn, TypeOK
<1>3. CASE ~(reg # None /\ reg.gen = helper[h].want.gen)
  <2>1. Returns(h) /\ UNCHANGED reg
    BY <1>3, <1>t, ReturnReturns DEF Contain
  <2>2. QED
    BY <1>1, <1>t, <2>1, PlainReturnKeeps
<1>4. QED
  BY <1>2, <1>3
\* A write of the record reports a failure, with or without its effect.
LEMMA StoreFailsKeeps ==
  ASSUME SessionInv, NEW h \in Helpers, NEW renamed \in BOOLEAN, StoreFails(h, renamed)
  PROVE  SessionInv'
<1>t. TypeOK /\ helper[h] \in Helper /\ endpoint \in Pids \union {None} /\ reg \in Record
  BY DEF SessionInv, TypeOK, StoreFails
<1>1. /\ UNCHANGED <<nextGen, marker, endpoint, procs>> /\ reg # None
      /\ reg' = IF renamed THEN Stored(h) ELSE reg
  BY DEF StoreFails
<1>s. {"opening", "active", "cleanup_failed", "terminated_on_timeout"} \subseteq RecordState
  BY DEF RecordState
<1>2. CASE helper[h].pc = "contain"
  <2>1. lease = None /\ Return(h)
    BY <1>2 DEF StoreFails
  <2>2. Returns(h)
    BY <2>1, <1>t, ReturnReturns
  <2>3. CASE renamed
    <3>1. reg' = Failed(reg)
      BY <1>1, <1>2, <2>3 DEF Stored
    <3>2. QED
      BY <3>1, <1>1, <1>t, <2>1, <2>2, FailedRecordFits, ReturnKeeps
  <2>4. CASE ~renamed
    BY <2>4, <1>1, <1>t, <2>1, <2>2, PlainReturnKeeps
  <2>5. QED
    BY <2>3, <2>4
<1>3. CASE helper[h].pc \in {"record", "finalize"}
  <2>1. helper[h].pc \in Leased /\ "mark" \in Leased /\ "mark" \in HelperPc
    BY <1>3 DEF Leased, Opening, HelperPc
  <2>2. /\ HolderInv(h) /\ helper[h].sess \in Record /\ helper[h].sess.state = "opening"
        /\ marker = helper[h].sess.gen /\ helper[h].sess.pid # None
    BY <1>3, <2>1, HolderFacts DEF HolderInv, Opening, WithPid
  <2>3. MovesTo(h, "mark") /\ UNCHANGED lease
    BY <1>3, <1>t, <2>1, GotoMoves DEF StoreFails
  <2>4. CASE renamed /\ helper[h].pc = "record"
    <3>1. Rewrites(h, "opening")
      BY <1>1, <2>2, <2>4, SameState DEF Stored, Rewrites
    <3>2. QED
      BY <3>1, <1>1, <1>s, <2>1, <2>3, RewriteMoveKeeps
  <2>5. CASE renamed /\ helper[h].pc = "finalize"
    <3>1. Rewrites(h, "active")
      BY <1>1, <2>5 DEF Stored, Rewrites
    <3>2. QED
      BY <3>1, <1>1, <1>s, <2>1, <2>2, <2>3, RewriteMoveKeeps
  <2>6. CASE ~renamed
    <3>1. UNCHANGED reg
      BY <1>1, <2>6
    <3>2. /\ "mark" \notin Opening /\ "mark" \notin WithPid /\ "mark" \notin Blocked
          /\ "mark" \notin Removing
      BY DEF Opening, WithPid, Blocked, Stopping, Removing, Containing
    <3>3. QED
      BY <3>1, <3>2, <1>1, <1>t, <2>1, <2>3, SameProcs, MoveKeeps
  <2>7. QED
    BY <1>3, <2>4, <2>5, <2>6
<1>4. CASE helper[h].pc \in {"mark", "remove", "cTomb"}
  <2>1. helper[h].pc \in Leased
    BY <1>4 DEF Leased, Removing, Containing
  <2>2. /\ HolderInv(h) /\ lease = h
        /\ helper[h].pc = "cTomb" => NoEngineOf(helper[h].sess.gen)
    BY <2>1, HolderFacts DEF HolderInv
  <2>3. Returns(h)
    BY <1>4, <1>t, ReturnReturns DEF StoreFails
  <2>4. CASE ~renamed
    BY <2>4, <1>1, <1>t, <2>2, <2>3, PlainReturnKeeps
  <2>5. CASE renamed /\ helper[h].pc = "mark"
    <3>1. Rewrites(h, "cleanup_failed")
      BY <1>1, <2>5 DEF Stored, Rewrites, Failed
    <3>2. QED
      BY <3>1, <1>1, <1>s, <2>1, <2>3, RewriteReturnKeeps
  <2>6. CASE renamed /\ helper[h].pc = "remove"
    <3>1. reg' = None
      BY <1>1, <2>6 DEF Stored
    <3>2. QED
      BY <3>1, <1>1, <2>1, <2>3, RemoveReturnKeeps
  <2>7. CASE renamed /\ helper[h].pc = "cTomb"
    <3>1. Rewrites(h, "terminated_on_timeout")
      BY <1>1, <2>7 DEF Stored, Rewrites
    <3>2. QED
      BY <3>1, <1>1, <1>s, <2>1, <2>2, <2>3, <2>7, RewriteReturnKeeps
  <2>8. QED
    BY <1>4, <2>4, <2>5, <2>6, <2>7
<1>5. QED
  BY <1>2, <1>3, <1>4 DEF StoreFails

-----------------------------------------------------------------------------
(***************************************************************************)
(* The steps of a helper by the shape they have here.                      *)
(***************************************************************************)
LEMMA HelperShapes ==
  ASSUME NEW h \in Helpers, HelperStarts(h) \/ HelperStep(h) \/ HelperEnds(h)
  PROVE  \/ (\E detached \in BOOLEAN : OpenReserve(h, detached)) \/ ReserveFails(h)
         \/ (\E force, retire \in BOOLEAN : Close(h, force, retire)) \/ DestroyClose(h)
         \/ GcClose(h)
         \/ GcSnapshot(h) \/ RequestTimesOut(h)
         \/ WriteMarker(h)
         \/ \E left \in {None, helper[h].sess, Failed(helper[h].sess)} : MarkerFails(h, left)
         \/ \E p \in Pids : Spawn(h, p)
         \/ Decides(h) \/ Waited(h) \/ Signals(h) \/ ChildExited(h) \/ Judges(h)
         \/ Purges(h) \/ Writes(h) \/ Contain(h)
         \/ \E renamed \in BOOLEAN : StoreFails(h, renamed)
         \/ (\E p \in Pids : DestroyReap(h, p)) \/ HelperExits(h) \/ HelperCrashes(h)
<1>1. CASE HelperStarts(h)
  BY <1>1 DEF HelperStarts
<1>2. CASE HelperStep(h)
  BY <1>2 DEF HelperStep, Decides, Waited, Signals, Judges, Purges, Writes
<1>3. CASE HelperEnds(h)
  BY <1>3 DEF HelperEnds
<1>4. QED
  BY <1>1, <1>2, <1>3

LEMMA SessionInit == Init => SessionInv
<1> SUFFICES ASSUME Init PROVE SessionInv
  OBVIOUS
<1>1. IdleHelper \in Helper /\ FreeProc \in Proc
  BY NativeAssumption DEF IdleHelper, Helper, HelperPc, NoRecord, FreeProc, Proc
<1>2. TypeOK
  BY <1>1, NativeAssumption DEF Init, TypeOK
<1>3. GensDrawn
  BY DEF Init, GensDrawn, IdleHelper, NoRecord, FreeProc
<1>4. LeaseHeld
  BY NativeAssumption DEF Init, LeaseHeld, IdleHelper, Leased, Opening, Stopping, Removing, Containing
<1>5. RecordInv /\ \A h \in Helpers : HolderInv(h) /\ ContainInv(h)
  BY DEF Init, RecordInv, HolderInv, ContainInv, IdleHelper, Leased, Opening, Stopping,
         Removing, Containing
<1>6. QED
  BY <1>2, <1>3, <1>4, <1>5 DEF SessionInv

LEMMA SessionStep == SessionInv /\ [Next]_vars => SessionInv'
<1> SUFFICES ASSUME SessionInv, [Next]_vars PROVE SessionInv'
  OBVIOUS
<1>1. ASSUME NEW h \in Helpers, HelperStarts(h) \/ HelperStep(h) \/ HelperEnds(h)
      PROVE  SessionInv'
  BY <1>1, HelperShapes, ReserveKeeps, TakingKeeps, SnapshotKeeps, WriteMarkerKeeps,
     MarkerFailsKeeps, SpawnKeeps, DecidesKeeps, WaitedKeeps, SignalsKeeps, ChildExitedKeeps,
     JudgesKeeps, PurgesKeeps, WritesKeeps, ContainKeeps, StoreFailsKeeps, EndKeeps
<1>2. ASSUME NEW p \in Pids, ProcessStep(p)
      PROVE  SessionInv'
  BY <1>2, ProcessStepKeeps
<1>3. CASE UNCHANGED vars
  BY <1>3, SameProcs, UnleasedStepKeeps DEF vars, SessionInv, TypeOK
<1>4. QED
  BY <1>1, <1>2, <1>3 DEF Next

\* The session lifecycle keeps its state well typed, the lease exclusive and
\* the record, the marker and the holder's copy in agreement, for any number
\* of helpers that crash anywhere, writes that fail and pids that are reused.
THEOREM LifecycleInvariant == Spec => []SessionInv
  BY SessionInit, SessionStep, PTL DEF Spec

\* A record that clients may use names its engine and has its marker: it can
\* always be cleaned up again (finalize_opening, write_session_generation).
THEOREM ActiveIsCleanable == Spec => []ActiveCleanable
<1>1. SessionInv => ActiveCleanable
  BY DEF SessionInv, RecordInv, ActiveCleanable
<1>2. QED
  BY <1>1, LifecycleInvariant, PTL

\* cleanup_session_locked on the engine's host removes a record that names an
\* engine only when no engine of its generation is left.
THEOREM CleanupProvesDeath == Spec => []CleanedMeansStopped
<1>1. SessionInv => CleanedMeansStopped
  <2> SUFFICES ASSUME SessionInv, NEW h \in Helpers \ RemoteHelpers,
                      helper[h].pc \in {"purge", "remove"}, helper[h].sess.pid # None
               PROVE  NoEngineOf(helper[h].sess.gen)
    BY DEF CleanedMeansStopped, NoEngineOf
  <2>1. helper[h].pc \in Removing /\ helper[h].pc \in Leased
    BY DEF Removing, Leased
  <2>2. QED
    BY <2>1 DEF SessionInv, HolderInv
<1>2. QED
  BY <1>1, LifecycleInvariant, PTL

\* terminate_on_timeout leaves its tombstone only on a generation without a
\* running engine, and none of that generation starts later.
THEOREM TombstoneIsSound == Spec => []TombstoneSound
<1>1. SessionInv => TombstoneSound
  BY DEF SessionInv, RecordInv, TombstoneSound, NoEngineOf
<1>2. QED
  BY <1>1, LifecycleInvariant, PTL
-----------------------------------------------------------------------------
(***************************************************************************)
(* Helpers that neither crash nor lose a write.                            *)
(***************************************************************************)
\* What every step that is left does to the marker and to the record.
LEMMA QuietShapes ==
  ASSUME SessionInv, ~HelpersCrash, ~IoFaults, NEW h \in Helpers,
         HelperStarts(h) \/ HelperStep(h) \/ HelperEnds(h)
  PROVE  \/ \E detached \in BOOLEAN : OpenReserve(h, detached)
         \/ (\E force, retire \in BOOLEAN : Close(h, force, retire)) \/ DestroyClose(h)
         \/ GcClose(h) \/ GcSnapshot(h) \/ RequestTimesOut(h) \/ WriteMarker(h)
         \/ \E p \in Pids : Spawn(h, p)
         \/ Decides(h) \/ Waited(h) \/ Signals(h) \/ ChildExited(h) \/ Judges(h)
         \/ Purges(h) \/ Writes(h) \/ Contain(h)
         \/ (\E p \in Pids : DestroyReap(h, p)) \/ HelperExits(h)
<1>1. /\ ~ReserveFails(h) /\ ~HelperCrashes(h)
      /\ ~\E left \in {None, helper[h].sess, Failed(helper[h].sess)} : MarkerFails(h, left)
      /\ ~\E renamed \in BOOLEAN : StoreFails(h, renamed)
  BY DEF ReserveFails, HelperCrashes, MarkerFails, StoreFails
<1>2. QED
  BY <1>1, HelperShapes

\* The helper that writes the marker is the only one that ends the time
\* between the reservation and the marker.
MarkerFrame(h) ==
  /\ helper[h].pc # "marker" /\ OthersStay(h) /\ UNCHANGED marker
  /\ reg' = None \/ (reg # None /\ reg' # None /\ reg'.gen = reg.gen)

LEMMA OtherStepsFrame ==
  ASSUME SessionInv, ~IoFaults, NEW h \in Helpers,
         \/ (\E force, retire \in BOOLEAN : Close(h, force, retire)) \/ DestroyClose(h)
         \/ GcClose(h) \/ GcSnapshot(h) \/ RequestTimesOut(h)
         \/ \E p \in Pids : Spawn(h, p)
         \/ Decides(h) /\ helper[h].pc # "marker"
         \/ Waited(h) \/ Signals(h) \/ ChildExited(h) \/ Judges(h)
         \/ Purges(h) \/ Writes(h) \/ Contain(h)
         \/ (\E p \in Pids : DestroyReap(h, p)) \/ HelperExits(h)
  PROVE  MarkerFrame(h)
<1>t. TypeOK
  BY DEF SessionInv
<1> USE DEF MarkerFrame
<1>1. CASE (\E force, retire \in BOOLEAN : Close(h, force, retire)) \/ DestroyClose(h)
  BY <1>1, <1>t, CloseTakes DEF Takes, Close, DestroyClose
<1>2. CASE GcClose(h)
  BY <1>2, <1>t, GcCloseTakes DEF Takes, Returns
<1>3. CASE GcSnapshot(h) \/ RequestTimesOut(h)
  BY <1>3, SnapshotMoves
<1>4. CASE \E p \in Pids : Spawn(h, p)
  BY <1>4, SpawnMoves
<1>5. CASE Decides(h) /\ helper[h].pc # "marker"
  BY <1>5, <1>t, DecidesMoves DEF MovesTo
<1>6. CASE Waited(h) \/ Signals(h) \/ ChildExited(h)
  BY <1>6, WaitedMoves, SignalsMoves, ChildExitedMoves DEF MovesTo
<1>7. CASE Judges(h)
  BY <1>7, JudgesMoves DEF MovesTo, Returns, Stopping
<1>8. CASE Purges(h)
  BY <1>8, <1>t, PurgesMoves DEF MovesTo, Returns
<1>9. CASE Writes(h)
  <2>1. helper[h].pc \in Leased /\ UNCHANGED <<marker, procs>>
    BY <1>9, WritesMoves
  <2>2. /\ reg \in Record /\ helper[h].sess \in Record /\ reg.gen = helper[h].sess.gen
    BY <2>1, HolderFacts DEF HolderInv
  <2>3. \A state \in RecordState : Rewrites(h, state) => reg' \in Record /\ reg'.gen = reg.gen
    BY <2>2 DEF Rewrites, Record
  <2>4. QED
    BY <1>9, <2>1, <2>2, <2>3, NoneIsNoRecord, WritesMoves DEF MovesTo, Returns, RecordState
<1>10. CASE Contain(h)
  <2>1. OthersStay(h) /\ helper[h].pc = "contain" /\ UNCHANGED marker
    <3>1. CASE reg # None /\ reg.gen = helper[h].want.gen
      <4>1. reg \in Record /\ helper[h] \in Helper
        BY <3>1, <1>t DEF TypeOK
      <4>2. Failed(reg) \in Record
        BY <4>1 DEF Failed, Record, RecordState
      <4>3. QED
        BY <1>10, <3>1, <4>1, <4>2, <1>t DEF Contain, OthersStay, TypeOK, Helper, HelperPc
    <3>2. CASE ~(reg # None /\ reg.gen = helper[h].want.gen)
      BY <1>10, <3>2, <1>t, ReturnReturns DEF Contain, Returns
    <3>3. QED
      BY <3>1, <3>2
  <2>2. UNCHANGED procs /\ (UNCHANGED reg \/ (reg # None /\ reg' = Failed(reg)))
    BY <1>10 DEF Contain
  <2>3. QED
    BY <2>1, <2>2, <1>10, FailedRecordFits DEF Contain
<1>11. CASE \E p \in Pids : DestroyReap(h, p)
  BY <1>11, <1>t DEF DestroyReap, OthersStay, TypeOK, Helper
<1>12. CASE HelperExits(h)
  BY <1>12, <1>t DEF HelperExits, OthersStay, TypeOK
<1>13. QED
  BY <1>1, <1>2, <1>3, <1>4, <1>5, <1>6, <1>7, <1>8, <1>9, <1>10, <1>11, <1>12

LEMMA MarkerStep ==
  ASSUME ~HelpersCrash, ~IoFaults
  PROVE  SessionInv /\ MarkerFits /\ [Next]_vars => MarkerFits'
<1> SUFFICES ASSUME SessionInv, MarkerFits, [Next]_vars PROVE MarkerFits'
  OBVIOUS
<1>t. TypeOK
  BY DEF SessionInv
<1>1. ASSUME NEW h \in Helpers, MarkerFrame(h)
      PROVE  MarkerFits'
  BY <1>1 DEF MarkerFrame, MarkerFits, OthersStay
<1>2. ASSUME NEW h \in Helpers, \E detached \in BOOLEAN : OpenReserve(h, detached)
      PROVE  MarkerFits'
  <2>1. helper[h] \in Helper
    BY <1>t DEF TypeOK
  <2>2. helper'[h].pc = "marker"
    BY <1>2, <1>t, <2>1 DEF OpenReserve, TypeOK, Helper
  <2>3. QED
    BY <2>2 DEF MarkerFits
<1>3. ASSUME NEW h \in Helpers, WriteMarker(h)
      PROVE  MarkerFits'
  <2>1. helper[h].pc \in Leased
    BY <1>3 DEF WriteMarker, Leased, Opening
  <2>2. reg.gen = helper[h].sess.gen
    BY <2>1, HolderFacts DEF HolderInv
  <2>3. QED
    BY <1>3, <2>2 DEF WriteMarker, MarkerFits
<1>4. ASSUME NEW h \in Helpers, HelperStarts(h) \/ HelperStep(h) \/ HelperEnds(h)
      PROVE  MarkerFits'
  <2>1. Decides(h) => helper[h].pc # "marker"
    BY DEF Decides, SpawnFails, ServerReady, StartTimeout, FinalizeFails, WaitTimeout
  <2>2. QED
    BY <1>1, <1>2, <1>3, <1>4, <2>1, QuietShapes, OtherStepsFrame
<1>5. ASSUME NEW p \in Pids, ProcessStep(p)
      PROVE  MarkerFits'
  BY <1>5, <1>t, ProcessStepShrinks DEF MarkerFits
<1>6. CASE UNCHANGED vars
  BY <1>6 DEF vars, MarkerFits
<1>7. QED
  BY <1>4, <1>5, <1>6 DEF Next

\* Where helpers neither crash nor lose a write, a cleanup that has come to
\* the artifacts finds the marker of its generation and can remove them: the
\* name becomes free again.  Remote helpers and reused pids do not matter.
THEOREM CleanupAlwaysCompletes ==
  ASSUME ~HelpersCrash, ~IoFaults
  PROVE  Spec => []CleanupCompletes
<1>1. Init => MarkerFits
  BY DEF Init, MarkerFits
<1>2. SessionInv /\ MarkerFits => CleanupCompletes
  <2> SUFFICES ASSUME SessionInv, MarkerFits, NEW h \in Helpers, helper[h].pc = "purge"
               PROVE  marker = helper[h].sess.gen
    BY DEF CleanupCompletes
  <2>1. helper[h].pc \in Leased /\ "marker" \in Leased
    BY DEF Leased, Removing, Opening
  <2>2. lease = h /\ reg # None /\ reg.gen = helper[h].sess.gen
    BY <2>1, HolderFacts DEF HolderInv
  <2>3. \A k \in Helpers : helper[k].pc # "marker"
    BY <2>1, <2>2 DEF SessionInv, LeaseHeld
  <2>4. QED
    BY <2>2, <2>3 DEF MarkerFits
<1>3. QED
  BY <1>1, <1>2, SessionInit, SessionStep, MarkerStep, PTL DEF Spec
-----------------------------------------------------------------------------
(***************************************************************************)
(* The same with every helper on the engine's host: one engine per name.   *)
(***************************************************************************)
LEMMA EnginesUnique ==
  ASSUME SessionInv, EnginesKnown, NEW p \in Pids, NEW q \in Pids, IsEngine(p), IsEngine(q)
  PROVE  p = q
<1>1. reg # None /\ procs[p].gen = reg.gen /\ procs[q].gen = reg.gen
  BY DEF EnginesKnown
<1>2. CASE reg.pid # None
  BY <1>1, <1>2 DEF SessionInv, RecordInv, OnlyAt
<1>3. CASE reg.pid = None
  <2>1. PICK h \in Helpers : helper[h].pc \in Leased /\ helper[h].sess.pid = p
    BY <1>3, NativeAssumption DEF EnginesKnown
  <2>2. PICK k \in Helpers : helper[k].pc \in Leased /\ helper[k].sess.pid = q
    BY <1>3, NativeAssumption DEF EnginesKnown
  <2>3. h = k
    BY <2>1, <2>2 DEF SessionInv, LeaseHeld
  <2>4. QED
    BY <2>1, <2>2, <2>3
<1>4. QED
  BY <1>2, <1>3

\* The record takes a step that no snapshot of an active record minds.
RecordMoves ==
  \/ UNCHANGED reg
  \/ reg' = None
  \/ reg'.gen > nextGen
  \/ /\ reg # None /\ reg'.gen = reg.gen
     /\ reg.state = "opening" \/ reg'.state \in {"cleanup_failed", "terminated_on_timeout"}

\* A gc that does not move itself.
LEMMA GcStays ==
  ASSUME SessionInv, NEW k \in Helpers, GcInv(k),
         helper'[k].pc = helper[k].pc, helper'[k].want = helper[k].want,
         helper'[k].op = helper[k].op,
         RecordMoves, reg' \in Record \union {None},
         NoNewEngine \/ (reg # None /\ reg.state = "opening" /\ UNCHANGED reg),
         helper[k].pc = "mark" => UNCHANGED reg /\ NoNewEngine
  PROVE  GcInv(k)'
<1>1. /\ helper[k].want.gen <= nextGen /\ helper[k] \in Helper /\ nextGen \in Nat
  BY NativeAssumption DEF SessionInv, GensDrawn, TypeOK
<1>2. helper[k].want.gen \in Nat
  BY <1>1, RecordFields DEF Helper, NoRecord
<1>3. reg' # None => reg'.gen \in Nat
  BY RecordFields
<1>4. CASE helper[k].pc = "gcClose"
  BY <1>1, <1>2, <1>3, <1>4 DEF GcInv, RecordMoves, NoNewEngine
<1>5. CASE helper[k].pc # "gcClose"
  BY <1>5 DEF GcInv, NoNewEngine
<1>6. QED
  BY <1>4, <1>5

\* No engine is added and the others are known as before.
LEMMA KnownStays ==
  ASSUME SessionInv, EnginesKnown, NoNewEngine, UNCHANGED reg,
         \A k \in Helpers : helper[k].pc \in Leased =>
           \/ helper'[k].pc \in Leased /\ helper'[k].sess = helper[k].sess
           \/ reg.pid = helper[k].sess.pid
  PROVE  EnginesKnown'
<1> SUFFICES ASSUME NEW p \in Pids, IsEngine(p)'
             PROVE  /\ reg' # None /\ procs'[p].gen = reg'.gen
                    /\ \/ reg'.pid = p
                       \/ \E k \in Helpers : helper'[k].pc \in Leased /\ helper'[k].sess.pid = p
  BY DEF EnginesKnown
<1>1. IsEngine(p) /\ procs'[p].gen = procs[p].gen
  BY DEF NoNewEngine
<1>2. QED
  BY <1>1 DEF EnginesKnown

\* Engines that serve the endpoint go on doing so, or are gone.
LEMMA ServeStays ==
  ASSUME NoNewEngine, UNCHANGED endpoint, EnginesServe
  PROVE  EnginesServe'
<1>1. \A p \in Pids : IsEngine(p)' => IsEngine(p)
  BY DEF NoNewEngine
<1>2. \A p \in Pids : procs'[p].state = "starting" => procs[p].state = "starting"
  BY DEF NoNewEngine
<1>3. QED
  BY <1>1, <1>2 DEF EnginesServe

LEMMA QuietProcess ==
  ASSUME SessionInv, QuietInv, NEW p \in Pids, ProcessStep(p)
  PROVE  QuietInv'
<1>t. TypeOK /\ EnginesKnown /\ ServedInv
  BY DEF SessionInv, QuietInv
<1>1. NoNewEngine /\ UNCHANGED <<nextGen, lease, reg, marker, helper>>
  BY <1>t, ProcessStepShrinks
<1>2. EnginesKnown'
  BY <1>t, <1>1, KnownStays
<1>3. EnginesServe => EnginesServe'
  <2>1. CASE UNCHANGED endpoint
    BY <1>1, <2>1, ServeStays
  <2>2. CASE EngineServes(p)
    BY <2>2 DEF EngineServes, EnginesServe, IsEngine, EngineState
  <2>3. CASE \E unlinked \in BOOLEAN : EngineEnds(p, unlinked)
    <3>1. IsEngine(p) /\ procs' = [procs EXCEPT ![p] = Ended(p)]
      BY <2>3 DEF EngineEnds
    <3>2. ~IsEngine(p)'
      BY <1>t, <3>1, EndedFits DEF IsEngine, TypeOK
    <3>3. \A q \in Pids : ~IsEngine(q)'
      BY <1>1, <1>t, <3>1, <3>2, EnginesUnique DEF NoNewEngine
    <3>4. QED
      BY <3>3 DEF EnginesServe
  <2>4. QED
    BY <2>1, <2>2, <2>3 DEF ProcessStep, EngineHangs, AlienStarts, AlienEnds
<1>4. ServedInv'
  BY <1>t, <1>1, <1>3 DEF ServedInv
<1>5. \A k \in Helpers : GcInv(k)'
  BY <1>1, <1>t, GcStays DEF QuietInv, RecordMoves, TypeOK
<1>6. QED
  BY <1>2, <1>4, <1>5 DEF QuietInv

\* A helper step that leaves the record, the endpoint and the engines alone:
\* h keeps what it knows, or holds no lease and has no snapshot afterwards.
LEMMA QuietPlain ==
  ASSUME SessionInv, QuietInv, NEW h \in Helpers, OthersStay(h),
         UNCHANGED <<reg, endpoint>>, NoNewEngine,
         \/ helper'[h].pc \in Leased /\ helper'[h].sess = helper[h].sess
         \/ helper[h].pc \notin Leased
         \/ reg.pid = helper[h].sess.pid,
         helper'[h].pc = "finalize" => EnginesServe',
         GcInv(h)'
  PROVE  QuietInv'
<1>t. TypeOK /\ EnginesKnown /\ ServedInv
  BY DEF SessionInv, QuietInv
<1>1. EnginesKnown'
  BY <1>t, KnownStays DEF OthersStay
<1>2. ServedInv'
  BY <1>t, ServeStays DEF ServedInv, OthersStay
<1>3. \A k \in Helpers \ {h} : GcInv(k)'
  BY <1>t, GcStays DEF QuietInv, RecordMoves, TypeOK, OthersStay
<1>4. QED
  BY <1>1, <1>2, <1>3 DEF QuietInv

\* The places at which GcInv asks nothing of a helper.
LEMMA GcFree ==
  ASSUME NEW h \in Helpers, helper'[h].pc \notin {"gcClose", "mark"}
  PROVE  GcInv(h)'
  BY DEF GcInv
\* The holder's steps that leave the record alone.
LEMMA QuietHolder ==
  ASSUME SessionInv, QuietInv, RemoteHelpers = {}, NEW h \in Helpers,
         \/ WriteMarker(h) \/ Decides(h) \/ Waited(h) \/ Signals(h) \/ ChildExited(h)
         \/ Judges(h)
  PROVE  QuietInv'
<1> USE DEF Leased, Opening, Stopping, Removing, Containing, WithPid, Blocked
<1>t. TypeOK /\ EnginesKnown /\ ServedInv /\ None \notin Pids
  BY NativeAssumption DEF SessionInv, QuietInv
<1>1. CASE WriteMarker(h) \/ Waited(h) \/ Signals(h)
  <2>1. /\ \E to \in Leased \ {"mark", "finalize"} : MovesTo(h, to)
        /\ UNCHANGED <<reg, endpoint>> /\ NoNewEngine
    BY <1>1, <1>t, WriteMarkerMoves, WaitedMoves, SignalsMoves, SameProcs
  <2>2. GcInv(h)'
    BY <2>1, GcFree DEF MovesTo
  <2>3. QED
    BY <2>1, <2>2, QuietPlain DEF MovesTo
<1>2. ASSUME helper[h].pc \in Opening, MovesTo(h, "mark"), UNCHANGED <<reg, endpoint>>,
             NoNewEngine
      PROVE  QuietInv'
  <2>1. helper[h].pc \in Leased
    BY <1>2
  <2>2. reg.state = "opening"
    BY <1>2, <2>1, HolderFacts DEF HolderInv
  <2>3. GcInv(h)'
    BY <1>2, <2>2 DEF GcInv, MovesTo
  <2>4. QED
    BY <1>2, <2>3, QuietPlain DEF MovesTo
<1>3. CASE ChildExited(h)
  BY <1>2, <1>3, ChildExitedMoves
<1>4. CASE Decides(h)
  <2>1. UNCHANGED <<reg, endpoint, procs>> /\ NoNewEngine
    BY <1>4, <1>t, DecidesMoves, SameProcs
  <2>2. CASE helper[h].pc \in Opening /\ MovesTo(h, "mark")
    BY <1>2, <2>1, <2>2
  <2>3. CASE Answers /\ MovesTo(h, "finalize")
    <3>1. endpoint \in Pids /\ IsEngine(endpoint) /\ procs[endpoint].state = "serving"
      BY <2>3, <1>t DEF Answers, TypeOK, IsEngine, EngineState
    <3>2. EnginesServe
      BY <3>1, <1>t, EnginesUnique DEF EnginesServe
    <3>3. EnginesServe'
      BY <3>2, <2>1, ServeStays
    <3>4. GcInv(h)'
      BY <2>3, GcFree DEF MovesTo
    <3>5. QED
      BY <2>1, <2>3, <3>3, <3>4, QuietPlain DEF MovesTo
  <2>4. CASE \E to \in {"check", "kill", "cKill"} : MovesTo(h, to)
    <3>1. GcInv(h)'
      BY <2>4, GcFree DEF MovesTo
    <3>2. QED
      BY <2>1, <2>4, <3>1, QuietPlain DEF MovesTo
  <2>5. QED
    BY <1>4, <1>t, <2>2, <2>3, <2>4, DecidesMoves
<1>5. CASE Judges(h)
  <2>1. /\ helper[h].pc \in Leased /\ helper[h].pc \in Blocked
        /\ UNCHANGED <<reg, endpoint, procs>> /\ NoNewEngine
    BY <1>5, <1>t, JudgesMoves, SameProcs
  <2>2. reg.pid = helper[h].sess.pid
    BY <2>1, HolderFacts DEF HolderInv
  <2>3. OthersStay(h) /\ helper'[h].pc \in {"idle", "wait", "term", "cTerm", "purge", "cTomb"}
    BY <1>5, JudgesMoves DEF MovesTo, Returns
  <2>4. GcInv(h)'
    BY <2>3, GcFree
  <2>5. QED
    BY <2>1, <2>2, <2>3, <2>4, QuietPlain
<1>6. QED
  BY <1>1, <1>3, <1>4, <1>5

\* Purge takes the endpoint away, but the record is no longer active.
LEMMA QuietPurge ==
  ASSUME SessionInv, QuietInv, NEW h \in Helpers, Purges(h)
  PROVE  QuietInv'
<1>t. TypeOK /\ EnginesKnown /\ LeaseHeld
  BY DEF SessionInv, QuietInv
<1>1. /\ helper[h].pc = "purge" /\ OthersStay(h) /\ helper'[h].pc \in {"idle", "remove"}
      /\ UNCHANGED <<reg, procs>> /\ NoNewEngine
  BY <1>t, PurgesMoves, SameProcs DEF MovesTo, Returns
<1>2. helper[h].pc \in Leased /\ helper[h].pc \in Blocked /\ "finalize" \in Leased
  BY <1>1 DEF Leased, Opening, Blocked, Removing
<1>3. lease = h /\ reg.state = "cleanup_failed" /\ reg.pid = helper[h].sess.pid
  BY <1>2, HolderFacts DEF HolderInv
<1>4. EnginesKnown'
  BY <1>t, <1>1, <1>3, KnownStays DEF OthersStay
<1>5. ServedInv'
  BY <1>1, <1>2, <1>3, <1>t DEF ServedInv, LeaseHeld, OthersStay
<1>6. \A k \in Helpers \ {h} : GcInv(k)'
  BY <1>1, <1>t, GcStays DEF QuietInv, RecordMoves, TypeOK, OthersStay
<1>7. GcInv(h)'
  BY <1>1, GcFree
<1>8. QED
  BY <1>4, <1>5, <1>6, <1>7 DEF QuietInv

\* A gc that judges an active record stale has seen its engine's end: the
\* engine would be alive under the record's pid and serve the endpoint.
LEMMA QuietSnapshot ==
  ASSUME SessionInv, QuietInv, RemoteHelpers = {}, NEW h \in Helpers,
         GcSnapshot(h) \/ RequestTimesOut(h)
  PROVE  QuietInv'
<1>t. TypeOK /\ EnginesKnown /\ ServedInv /\ RecordInv /\ None \notin Pids
  BY NativeAssumption DEF SessionInv, QuietInv
<1>1. /\ helper[h].pc = "idle" /\ reg \in Record /\ reg # None /\ OthersStay(h)
      /\ helper'[h].want = reg /\ helper'[h].sess = helper[h].sess
      /\ \/ helper'[h].pc = "gcClose" /\ LooksStale(h)
         \/ helper'[h].pc = "contain"
      /\ UNCHANGED <<nextGen, lease, reg, marker, endpoint, procs>>
  BY SnapshotMoves, NoneIsNoRecord
<1>2. GcInv(h)'
  <2>1. CASE helper'[h].pc = "gcClose" /\ LooksStale(h) /\ reg.state = "active"
    <3>1. ASSUME NEW p \in Pids, IsEngine(p) PROVE FALSE
      <4>1. endpoint = p /\ procs[p].gen = reg.gen
        BY <1>1, <1>t, <2>1, <3>1 DEF ServedInv, EnginesServe, EnginesKnown
      <4>2. p = reg.pid
        BY <1>1, <1>t, <2>1, <3>1, <4>1 DEF RecordInv, OnlyAt
      <4>3. QED
        BY <4>1, <4>2, <1>t, <2>1, <3>1 DEF LooksStale
    <3>2. \A p \in Pids : ~IsEngine(p)'
      BY <3>1, <1>1 DEF IsEngine
    <3>3. QED
      BY <3>2, <1>1, <2>1 DEF GcInv
  <2>2. CASE helper'[h].pc = "contain" \/ reg.state # "active"
    BY <2>2, <1>1 DEF GcInv
  <2>3. QED
    BY <1>1, <2>1, <2>2
<1>3. helper[h].pc \notin Leased /\ helper'[h].pc # "finalize"
  BY <1>1 DEF Leased, Opening, Stopping, Removing, Containing
<1>4. QED
  BY <1>1, <1>2, <1>3, <1>t, SameProcs, QuietPlain

\* The lease is taken for a cleanup: by gc only if the record is as it saw it.
LEMMA QuietTakes ==
  ASSUME SessionInv, QuietInv, NEW h \in Helpers,
         \/ \E force, retire \in BOOLEAN : Close(h, force, retire)
         \/ DestroyClose(h) \/ GcClose(h)
  PROVE  QuietInv'
<1>t. TypeOK /\ EnginesKnown /\ LeaseHeld /\ GcInv(h)
  BY DEF SessionInv, QuietInv
<1>1. ASSUME Takes(h), GcInv(h)'
      PROVE  QuietInv'
  <2>1. helper[h].pc \notin Leased /\ helper'[h].pc # "finalize"
    BY <1>t, <1>1, NativeAssumption DEF LeaseHeld, Takes
  <2>2. QED
    BY <1>1, <1>t, <2>1, SameProcs, QuietPlain DEF Takes
<1>2. CASE (\E force, retire \in BOOLEAN : Close(h, force, retire)) \/ DestroyClose(h)
  <2>1. Takes(h) /\ helper'[h].op = "close"
    BY <1>2, <1>t, CloseTakes
  <2>2. GcInv(h)'
    BY <2>1 DEF GcInv, Takes
  <2>3. QED
    BY <1>1, <2>1, <2>2
<1>3. CASE GcClose(h)
  <2>1. CASE StillAsSeen(helper[h].want) /\ Takes(h)
    <3>1. reg.state = "active" => \A p \in Pids : ~IsEngine(p)
      BY <1>3, <1>t, <2>1 DEF GcClose, GcInv, StillAsSeen
    <3>2. GcInv(h)'
      BY <3>1, <2>1 DEF GcInv, Takes, IsEngine
    <3>3. QED
      BY <1>1, <2>1, <3>2
  <2>2. CASE Returns(h) /\ UNCHANGED <<nextGen, reg, marker, endpoint, procs>>
    <3>1. helper[h].pc \notin Leased /\ helper'[h].pc = "idle"
      BY <1>3, <2>2 DEF GcClose, Returns, Leased, Opening, Stopping, Removing, Containing
    <3>2. GcInv(h)'
      BY <3>1, GcFree
    <3>3. QED
      BY <1>t, <2>2, <3>1, <3>2, SameProcs, QuietPlain DEF Returns
  <2>3. QED
    BY <1>3, <1>t, <2>1, <2>2, GcCloseTakes
<1>4. QED
  BY <1>2, <1>3
\* A step that changes the record under the lease: nobody else is at finalize
\* or at mark, and what the gcs saw is another record or no longer active.
LEMMA QuietRecord ==
  ASSUME SessionInv, QuietInv, NEW h \in Helpers, lease \in {h, None}, OthersStay(h),
         RecordMoves, reg' \in Record \union {None},
         NoNewEngine \/ (reg # None /\ reg.state = "opening" /\ UNCHANGED reg),
         EnginesKnown',
         reg' # None /\ reg'.state = "active" => EnginesServe',
         helper'[h].pc \notin {"finalize", "gcClose", "mark"}
  PROVE  QuietInv'
<1>1. ASSUME NEW k \in Helpers, k # h
      PROVE  helper'[k] = helper[k] /\ helper[k].pc \notin {"finalize", "mark"}
  <2>1. helper[k].pc \notin Leased
    BY <1>1, NativeAssumption DEF SessionInv, LeaseHeld
  <2>2. QED
    BY <1>1, <2>1 DEF OthersStay, Leased, Opening
<1>2. ServedInv'
  BY <1>1 DEF ServedInv
<1>3. \A k \in Helpers \ {h} : GcInv(k)'
  BY <1>1, GcStays DEF QuietInv
<1>4. GcInv(h)'
  BY GcFree
<1>5. QED
  BY <1>2, <1>3, <1>4 DEF QuietInv

LEMMA QuietReserve ==
  ASSUME SessionInv, QuietInv, NEW h \in Helpers,
         \E detached \in BOOLEAN : OpenReserve(h, detached)
  PROVE  QuietInv'
<1>t. TypeOK /\ EnginesKnown /\ helper[h] \in Helper /\ nextGen \in Nat /\ MaxGen \in Nat
  BY NativeAssumption DEF SessionInv, QuietInv, TypeOK
<1>1. PICK detached \in BOOLEAN : OpenReserve(h, detached)
  OBVIOUS
<1>2. /\ lease = None /\ reg = None /\ reg' = NewRecord /\ nextGen < MaxGen
      /\ UNCHANGED <<marker, endpoint, procs>>
  BY <1>1 DEF OpenReserve, NameFree
<1>3. NewRecord \in Record /\ NewRecord.gen > nextGen /\ NewRecord.state = "opening"
  BY <1>t, <1>2 DEF NewRecord, Record, Gens, RecordState
<1>4. OthersStay(h) /\ helper'[h].pc = "marker"
  BY <1>1, <1>3, <1>t DEF OpenReserve, OthersStay, TypeOK, Helper, HelperPc
<1>5. EnginesKnown'
  BY <1>t, <1>2 DEF EnginesKnown, IsEngine
<1>6. QED
  BY <1>2, <1>3, <1>4, <1>5, <1>t, SameProcs, QuietRecord DEF RecordMoves

LEMMA QuietSpawn ==
  ASSUME SessionInv, QuietInv, NEW h \in Helpers, NEW p \in Pids, Spawn(h, p)
  PROVE  QuietInv'
<1>t. TypeOK /\ EnginesKnown
  BY DEF SessionInv, QuietInv
<1>m. /\ helper[h].pc = "spawn" /\ helper'[h].pc = "record" /\ OthersStay(h)
      /\ helper'[h].sess = [helper[h].sess EXCEPT !.pid = p]
      /\ procs' = [procs EXCEPT ![p] = [state |-> "starting",
                                        gen |-> helper[h].sess.gen, parent |-> h]]
      /\ UNCHANGED <<nextGen, lease, reg, marker, endpoint>>
  BY SpawnMoves
<1>1. helper[h].pc \in Leased /\ helper'[h].pc \in Leased
  BY <1>m DEF Leased, Opening
<1>2. /\ lease = h /\ reg \in Record /\ helper[h].sess \in Record /\ reg # None
      /\ reg.state = "opening" /\ reg.gen = helper[h].sess.gen
      /\ NoEngineOf(helper[h].sess.gen)
  BY <1>1, <1>m, HolderFacts DEF HolderInv, Opening
<1>3. helper'[h].sess.pid = p
  BY <1>2, <1>m DEF Record
<1>4. \A q \in Pids : ~IsEngine(q)
  BY <1>2, <1>t DEF EnginesKnown, NoEngineOf
<1>5. EnginesKnown'
  <2> SUFFICES ASSUME NEW q \in Pids, IsEngine(q)'
               PROVE  /\ reg' # None /\ procs'[q].gen = reg'.gen
                      /\ \/ reg'.pid = q
                         \/ \E k \in Helpers : helper'[k].pc \in Leased /\ helper'[k].sess.pid = q
    BY DEF EnginesKnown
  <2>1. q = p
    BY <1>4, <1>m, <1>t DEF IsEngine, TypeOK
  <2>2. QED
    BY <2>1, <1>1, <1>2, <1>3, <1>m, <1>t DEF TypeOK
<1>6. QED
  BY <1>1, <1>2, <1>5, <1>m, QuietRecord DEF RecordMoves

\* The engine the holder knows of is the one the rewritten record names.
LEMMA RewriteKnown ==
  ASSUME SessionInv, EnginesKnown, NEW h \in Helpers, helper[h].pc \in Leased,
         NEW state \in RecordState, Rewrites(h, state), UNCHANGED procs
  PROVE  /\ EnginesKnown' /\ reg' \in Record /\ reg'.gen = reg.gen /\ reg'.state = state
<1>1. /\ HolderInv(h) /\ reg \in Record /\ helper[h].sess \in Record /\ lease = h
      /\ reg.gen = helper[h].sess.gen /\ reg # None
  BY HolderFacts DEF HolderInv
<1>2. /\ reg' \in Record /\ reg'.gen = reg.gen /\ reg'.state = state
      /\ reg'.pid = helper[h].sess.pid
  BY <1>1 DEF Rewrites, Record
<1>3. ASSUME NEW p \in Pids, IsEngine(p)
      PROVE  helper[h].sess.pid = p /\ procs[p].gen = reg.gen
  <2>1. CASE reg.pid = p
    BY <1>1, <1>3, <2>1, NativeAssumption DEF HolderInv, EnginesKnown
  <2>2. CASE \E k \in Helpers : helper[k].pc \in Leased /\ helper[k].sess.pid = p
    BY <1>1, <1>3, <2>2 DEF SessionInv, LeaseHeld, EnginesKnown
  <2>3. QED
    BY <1>3, <2>1, <2>2 DEF EnginesKnown
<1>4. EnginesKnown'
  BY <1>2, <1>3, NoneIsNoRecord DEF EnginesKnown, IsEngine
<1>5. QED
  BY <1>2, <1>4

LEMMA QuietWrites ==
  ASSUME SessionInv, QuietInv, RemoteHelpers = {}, NEW h \in Helpers, Writes(h)
  PROVE  QuietInv'
<1>t. TypeOK /\ EnginesKnown /\ ServedInv /\ None \notin Pids
  BY NativeAssumption DEF SessionInv, QuietInv
<1>1. helper[h].pc \in Leased /\ UNCHANGED <<nextGen, marker, endpoint, procs>>
  BY WritesMoves
<1>2. /\ HolderInv(h) /\ lease = h /\ reg \in Record /\ reg # None
      /\ reg.gen = helper[h].sess.gen
  BY <1>1, HolderFacts DEF HolderInv
<1>3. {"opening", "active", "cleanup_failed", "terminated_on_timeout"} \subseteq RecordState
  BY DEF RecordState
<1>4. NoNewEngine
  BY <1>1, <1>t, SameProcs
<1>5. ASSUME NEW state \in RecordState, Rewrites(h, state), OthersStay(h),
             helper'[h].pc \notin {"finalize", "gcClose", "mark"},
             state \in {"opening", "active"} => helper[h].pc \in Opening,
             state = "active" => helper[h].pc = "finalize"
      PROVE  QuietInv'
  <2>1. EnginesKnown' /\ reg' \in Record /\ reg'.gen = reg.gen /\ reg'.state = state
    BY <1>1, <1>5, <1>t, RewriteKnown
  <2>2. state \in {"opening", "active"} => reg.state = "opening"
    BY <1>1, <1>2, <1>5 DEF HolderInv
  <2>3. RecordMoves
    BY <1>2, <2>1, <2>2 DEF RecordMoves, RecordState
  <2>4. state = "active" => EnginesServe'
    BY <1>1, <1>4, <1>5, <1>t, ServeStays DEF ServedInv
  <2>5. QED
    BY <1>2, <1>4, <1>5, <2>1, <2>3, <2>4, QuietRecord
<1>6. CASE helper[h].pc = "remove" /\ reg' = None /\ Returns(h)
  <2>1. \A p \in Pids : ~IsEngine(p)
    <3>1. CASE helper[h].sess.pid # None
      BY <3>1, <1>1, <1>2, <1>6, <1>t DEF HolderInv, Removing, NoEngineOf, EnginesKnown
    <3>2. CASE helper[h].sess.pid = None
      <4>1. reg.pid = None
        BY <3>2, <1>1, <1>2 DEF HolderInv
      <4>2. \A k \in Helpers : helper[k].pc \in Leased => k = h
        BY <1>2 DEF SessionInv, LeaseHeld
      <4>3. QED
        BY <3>2, <4>1, <4>2, <1>t DEF EnginesKnown
    <3>3. QED
      BY <3>1, <3>2
  <2>2. EnginesKnown'
    BY <2>1, <1>1 DEF EnginesKnown, IsEngine
  <2>3. QED
    BY <1>2, <1>4, <1>6, <2>2, QuietRecord DEF RecordMoves, Returns
<1>7. CASE helper[h].pc = "record" /\ Rewrites(h, "opening") /\ MovesTo(h, "await")
  BY <1>3, <1>5, <1>7 DEF MovesTo, Opening
<1>8. CASE /\ helper[h].pc = "mark" /\ Rewrites(h, "cleanup_failed")
           /\ MovesTo(h, "purge") \/ MovesTo(h, "quit")
  BY <1>3, <1>5, <1>8 DEF MovesTo
<1>9. CASE helper[h].pc = "finalize" /\ Rewrites(h, "active") /\ Returns(h)
  BY <1>3, <1>5, <1>9 DEF Returns, Opening
<1>10. CASE helper[h].pc = "cTomb" /\ Rewrites(h, "terminated_on_timeout") /\ Returns(h)
  BY <1>3, <1>5, <1>10 DEF Returns
<1>11. QED
  BY <1>6, <1>7, <1>8, <1>9, <1>10, WritesMoves

LEMMA QuietContain ==
  ASSUME SessionInv, QuietInv, NEW h \in Helpers, Contain(h)
  PROVE  QuietInv'
<1>t. TypeOK /\ EnginesKnown /\ helper[h] \in Helper /\ LeaseHeld
  BY DEF SessionInv, QuietInv, TypeOK
<1>1. helper[h].pc = "contain" /\ lease = None /\ UNCHANGED <<nextGen, marker, endpoint, procs>>
  BY DEF Contain
<1>2. NoNewEngine
  BY <1>1, <1>t, SameProcs
<1>3. CASE reg # None /\ reg.gen = helper[h].want.gen
  <2>1. reg' = Failed(reg) /\ helper' = [helper EXCEPT ![h].pc = "cCheck", ![h].sess = reg']
    BY <1>3 DEF Contain
  <2>2. /\ reg' \in Record /\ reg' # None /\ reg'.gen = reg.gen /\ reg'.pid = reg.pid
        /\ reg'.state = "cleanup_failed"
    BY <1>1, <1>3, <2>1, FailedRecordFits
  <2>3. OthersStay(h) /\ helper'[h].pc = "cCheck"
    BY <2>1, <2>2, <1>t DEF OthersStay, TypeOK, Helper, HelperPc
  <2>4. EnginesKnown'
    BY <1>1, <1>t, <2>2, NativeAssumption DEF EnginesKnown, IsEngine, LeaseHeld
  <2>5. QED
    BY <1>1, <1>2, <1>3, <2>2, <2>3, <2>4, QuietRecord DEF RecordMoves
<1>4. CASE ~(reg # None /\ reg.gen = helper[h].want.gen)
  <2>1. Returns(h) /\ UNCHANGED reg
    BY <1>4, <1>t, ReturnReturns DEF Contain
  <2>2. helper[h].pc \notin Leased
    BY <1>1 DEF Leased, Opening, Stopping, Removing, Containing
  <2>3. GcInv(h)'
    BY <2>1, GcFree DEF Returns
  <2>4. QED
    BY <1>1, <1>2, <2>1, <2>2, <2>3, QuietPlain DEF Returns
<1>5. QED
  BY <1>3, <1>4

LEMMA QuietEnd ==
  ASSUME SessionInv, QuietInv, NEW h \in Helpers,
         (\E p \in Pids : DestroyReap(h, p)) \/ HelperExits(h)
  PROVE  QuietInv'
<1>t. TypeOK /\ helper[h] \in Helper
  BY DEF SessionInv, TypeOK
<1>1. UNCHANGED <<reg, endpoint>> /\ helper[h].pc = "idle"
  BY DEF DestroyReap, HelperExits
<1>2. NoNewEngine
  BY <1>t, EndedFits, OneProcEnds, AdoptedShrinks DEF DestroyReap, HelperExits
<1>3. OthersStay(h) /\ helper'[h].pc = "idle"
  <2>1. CASE HelperExits(h)
    BY <1>t, <2>1 DEF HelperExits, OthersStay, TypeOK
  <2>2. CASE \E p \in Pids : DestroyReap(h, p)
    BY <1>t, <2>2 DEF DestroyReap, OthersStay, TypeOK, Helper
  <2>3. QED
    BY <2>1, <2>2
<1>4. helper[h].pc \notin Leased
  BY <1>1 DEF Leased, Opening, Stopping, Removing, Containing
<1>5. GcInv(h)'
  BY <1>3, GcFree
<1>6. QED
  BY <1>1, <1>2, <1>3, <1>4, <1>5, QuietPlain

LEMMA QuietInit == Init => QuietInv
<1> SUFFICES ASSUME Init PROVE QuietInv
  OBVIOUS
<1>1. \A p \in Pids : ~IsEngine(p)
  BY DEF Init, IsEngine, FreeProc, EngineState
<1>2. \A h \in Helpers : helper[h].pc = "idle"
  BY DEF Init, IdleHelper
<1>3. QED
  BY <1>1, <1>2 DEF QuietInv, EnginesKnown, ServedInv, EnginesServe, GcInv

LEMMA QuietStep ==
  ASSUME ~HelpersCrash, ~IoFaults, RemoteHelpers = {}
  PROVE  SessionInv /\ QuietInv /\ [Next]_vars => QuietInv'
<1> SUFFICES ASSUME SessionInv, QuietInv, [Next]_vars PROVE QuietInv'
  OBVIOUS
<1>1. ASSUME NEW h \in Helpers, HelperStarts(h) \/ HelperStep(h) \/ HelperEnds(h)
      PROVE  QuietInv'
  BY <1>1, QuietShapes, QuietReserve, QuietTakes, QuietSnapshot, QuietHolder, QuietSpawn,
     QuietPurge, QuietWrites, QuietContain, QuietEnd
<1>2. ASSUME NEW p \in Pids, ProcessStep(p)
      PROVE  QuietInv'
  BY <1>2, QuietProcess
<1>3. CASE UNCHANGED vars
  BY <1>3 DEF vars, QuietInv, EnginesKnown, ServedInv, EnginesServe, GcInv, IsEngine
<1>4. QED
  BY <1>1, <1>2, <1>3 DEF Next

LEMMA QuietSessions ==
  ASSUME ~HelpersCrash, ~IoFaults, RemoteHelpers = {}
  PROVE  Spec => [](SessionInv /\ QuietInv)
  BY SessionInit, SessionStep, QuietInit, QuietStep, PTL DEF Spec

\* Where helpers neither crash nor lose a write and run on the engine's host,
\* two engines of one name never run side by side, and whoever answers at the
\* endpoint of an active session is the engine of its generation, even when
\* pids are reused.
THEOREM OneEngineOnly ==
  ASSUME ~HelpersCrash, ~IoFaults, RemoteHelpers = {}
  PROVE  Spec => []OneEnginePerName
<1>1. SessionInv /\ QuietInv => OneEnginePerName
  <2> SUFFICES ASSUME SessionInv, QuietInv PROVE OneEnginePerName
    OBVIOUS
  <2>1. TypeOK /\ EnginesKnown
    BY DEF SessionInv, QuietInv
  <2>2. Answers => endpoint \in Pids /\ IsEngine(endpoint)
    BY <2>1 DEF Answers, TypeOK, IsEngine, EngineState
  <2>3. QED
    BY <2>1, <2>2, EnginesUnique DEF OneEnginePerName, EnginesKnown
<1>2. QED
  BY <1>1, QuietSessions, PTL

\* Under the same conditions session.gc, which judges a snapshot it read
\* without the lease, never takes down a session that is active and answers.
THEOREM GcIsHarmless ==
  ASSUME ~HelpersCrash, ~IoFaults, RemoteHelpers = {}
  PROVE  Spec => []GcSparesHealthy
<1>1. SessionInv /\ QuietInv => GcSparesHealthy
  <2> SUFFICES ASSUME SessionInv, QuietInv, NEW h \in Helpers, helper[h].pc = "mark",
                      helper[h].op = "gc", reg.state = "active", Answers
               PROVE  FALSE
    BY DEF GcSparesHealthy
  <2>1. TypeOK /\ GcInv(h)
    BY DEF SessionInv, QuietInv
  <2>2. endpoint \in Pids /\ IsEngine(endpoint)
    BY <2>1 DEF Answers, TypeOK, IsEngine, EngineState
  <2>3. QED
    BY <2>1, <2>2 DEF GcInv
<1>2. QED
  BY <1>1, QuietSessions, PTL
=============================================================================
