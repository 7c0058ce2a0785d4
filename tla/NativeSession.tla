--------------------------- MODULE NativeSession ---------------------------
(***************************************************************************)
(* The lifecycle of one xdebug session name, as the helper processes run   *)
(* it: engine/session/session_manager.cpp over session_registry.cpp, the   *)
(* flock lease of session_lifecycle_lease.h and the generation marker of   *)
(* design/common/xdebug_design_paths.cpp.                                  *)
(*                                                                         *)
(* Shared state is on disk (the registry record state.json, the generation *)
(* marker, the engine's endpoint) and in the kernel (the lease and the     *)
(* process table).  A helper may crash between any two steps: the kernel   *)
(* then drops its lease and init adopts its children; the files stay.      *)
(* Names are independent of each other, so one name is modelled.  Random   *)
(* 256-bit generations are consecutive numbers: all that matters is that   *)
(* they are never reused.                                                  *)
(***************************************************************************)
EXTENDS Integers, FiniteSets

CONSTANTS
  Helpers,        \* xdebug processes that run lifecycle operations
  RemoteHelpers,  \* those on another host than the engine
  Pids,           \* process ids of the engine host
  MaxGen,         \* bound on the number of session.open attempts
  PidReuse,       \* whether an unrelated process may take a freed pid
  HelpersCrash,   \* whether helpers may crash
  IoFaults,       \* whether writes of the registry or the marker may fail
  None            \* no value

ASSUME NativeAssumption ==
  /\ RemoteHelpers \subseteq Helpers
  /\ MaxGen \in Nat
  /\ PidReuse \in BOOLEAN
  /\ HelpersCrash \in BOOLEAN
  /\ IoFaults \in BOOLEAN
  /\ None \notin Helpers /\ None \notin Pids

VARIABLES
  nextGen,   \* the last generation drawn
  lease,     \* holder of the lifecycle lease, or None
  reg,       \* state.json: a Record, or None
  marker,    \* generation in the marker file, 0 if there is none
  endpoint,  \* pid of the engine that serves the endpoint, or None
  procs,     \* the process table
  helper     \* local state of the helpers

vars == <<nextGen, lease, reg, marker, endpoint, procs, helper>>

Gens == 1..MaxGen
RecordState == {"opening", "active", "cleanup_failed", "terminated_on_timeout"}
Record == [gen : Gens, state : RecordState, pid : Pids \union {None}]

ASSUME NoneIsNoRecord == None \notin Record

EngineState == {"starting", "serving", "hung", "quitting"}
Proc == [state : EngineState \union {"free", "zombie", "alien"},
         gen : 0..MaxGen, parent : Helpers \union {None}]
FreeProc == [state |-> "free", gen |-> 0, parent |-> None]

HelperPc == {"idle",
             "marker", "spawn", "record", "await", "finalize",
             "gcClose", "mark", "quit", "wait", "check", "term", "termWait",
             "kill", "killWait", "remoteWait", "purge", "remove",
             "contain", "cCheck", "cTerm", "cTermWait", "cKill", "cKillWait",
             "cTomb"}

(***************************************************************************)
(* sess is the helper's copy of the record, want what it read of the       *)
(* record before it took the lease (NoRecord for nothing), op the running  *)
(* operation, owned the children it still has to wait for.                 *)
(***************************************************************************)
NoRecord == [gen |-> 0, state |-> "opening", pid |-> None]
Helper == [pc : HelperPc, op : {"open", "close", "gc", "contain", "none"},
           sess : Record \union {NoRecord}, want : Record \union {NoRecord},
           force : BOOLEAN, retire : BOOLEAN, detached : BOOLEAN,
           owned : SUBSET Pids]
IdleHelper == [pc |-> "idle", op |-> "none", sess |-> NoRecord,
               want |-> NoRecord, force |-> FALSE, retire |-> FALSE,
               detached |-> TRUE, owned |-> {}]

TypeOK ==
  /\ nextGen \in 0..MaxGen
  /\ lease \in Helpers \union {None}
  /\ reg \in Record \union {None}
  /\ marker \in 0..MaxGen
  /\ endpoint \in Pids \union {None}
  /\ procs \in [Pids -> Proc]
  /\ helper \in [Helpers -> Helper]

Init ==
  /\ nextGen = 0
  /\ lease = None
  /\ reg = None
  /\ marker = 0
  /\ endpoint = None
  /\ procs = [p \in Pids |-> FreeProc]
  /\ helper = [h \in Helpers |-> IdleHelper]

-----------------------------------------------------------------------------
(***************************************************************************)
(* Processes.                                                              *)
(***************************************************************************)
IsEngine(p) == procs[p].state \in EngineState

\* A process that ends stays a zombie while the helper that forked it lives.
Ended(p) == IF procs[p].parent = None THEN FreeProc
            ELSE [procs[p] EXCEPT !.state = "zombie"]

\* ping_session_endpoint
Answers == endpoint # None /\ procs[endpoint].state = "serving"

\* wait_for_session_process_exit succeeds: the pid is gone, or it is an owned
\* child that waitpid reaps.
Gone(h, p) ==
  \/ procs[p].state = "free"
  \/ p \in helper[h].owned /\ procs[p].state = "zombie"

Reaped(h, p) == IF p \in helper[h].owned THEN FreeProc ELSE procs[p]

EngineServes(p) ==
  /\ procs[p].state = "starting"
  /\ procs' = [procs EXCEPT ![p].state = "serving"]
  /\ endpoint' = p
  /\ UNCHANGED <<nextGen, lease, reg, marker, helper>>

\* An NPI call blocks: the engine no longer answers.
EngineHangs(p) ==
  /\ procs[p].state = "serving"
  /\ procs' = [procs EXCEPT ![p].state = "hung"]
  /\ UNCHANGED <<nextGen, lease, reg, marker, endpoint, helper>>

\* Startup failure, idle timeout, quit or crash; a uds engine that leaves in
\* order unlinks the socket path of its name.
EngineEnds(p, unlinked) ==
  /\ IsEngine(p)
  /\ procs' = [procs EXCEPT ![p] = Ended(p)]
  /\ endpoint' = IF unlinked THEN None ELSE endpoint
  /\ UNCHANGED <<nextGen, lease, reg, marker, helper>>

AlienStarts(p) ==
  /\ PidReuse
  /\ procs[p].state = "free"
  /\ procs' = [procs EXCEPT ![p].state = "alien"]
  /\ UNCHANGED <<nextGen, lease, reg, marker, endpoint, helper>>

AlienEnds(p) ==
  /\ procs[p].state = "alien"
  /\ procs' = [procs EXCEPT ![p] = FreeProc]
  /\ UNCHANGED <<nextGen, lease, reg, marker, endpoint, helper>>

\* kill(2); the target may survive SIGTERM, and SIGKILL while it is stuck in
\* the kernel.
Signal(p, dies) ==
  procs' = IF dies /\ procs[p].state \in EngineState \union {"alien"}
           THEN [procs EXCEPT ![p] = Ended(p)] ELSE procs

-----------------------------------------------------------------------------
(***************************************************************************)
(* Helper bookkeeping.                                                     *)
(***************************************************************************)
Goto(h, pc) == helper' = [helper EXCEPT ![h].pc = pc]

\* An operation returns: its lease is released, the owned children stay.
Return(h) ==
  /\ helper' = [helper EXCEPT ![h] = [IdleHelper EXCEPT !.owned = helper[h].owned]]
  /\ lease' = None

\* waitpid reaped p, then the helper goes on at pc.
ReapAndGoto(h, p, pc) ==
  /\ procs' = [procs EXCEPT ![p] = Reaped(h, p)]
  /\ helper' = [helper EXCEPT ![h].pc = pc, ![h].owned = @ \ {p}]

-----------------------------------------------------------------------------
(***************************************************************************)
(* SessionManager::ensure_session                                          *)
(***************************************************************************)
\* Defect: an existing record is replaced.
NameFreeUnchecked == lease = None

NewRecord == [gen |-> nextGen + 1, state |-> "opening", pid |-> None]
NameFree == lease = None /\ reg = None

\* Lease, fresh generation, reserve_opening.  An existing record refuses the
\* open (session_id_exists) and changes nothing.
OpenReserve(h, detached) ==
  /\ helper[h].pc = "idle" /\ h \notin RemoteHelpers /\ helper[h].owned = {}
  /\ nextGen < MaxGen
  /\ NameFree
  /\ reg' = NewRecord
  /\ helper' = [helper EXCEPT ![h].pc = "marker", ![h].op = "open",
                  ![h].sess = NewRecord, ![h].force = TRUE,
                  ![h].detached = detached]
  /\ nextGen' = nextGen + 1
  /\ lease' = h
  /\ UNCHANGED <<marker, endpoint, procs>>

\* write_atomic_file may report a failure after its rename: the reservation
\* is then refused and stays behind.
ReserveFails(h) ==
  /\ IoFaults
  /\ helper[h].pc = "idle" /\ h \notin RemoteHelpers /\ helper[h].owned = {}
  /\ nextGen < MaxGen
  /\ NameFree
  /\ reg' = NewRecord
  /\ nextGen' = nextGen + 1
  /\ UNCHANGED <<lease, marker, endpoint, procs, helper>>

\* Defect: the marker keeps the generation of an earlier session.
WriteMarkerSkipped(h) ==
  /\ helper[h].pc = "marker"
  /\ Goto(h, "spawn")
  /\ UNCHANGED <<nextGen, lease, reg, marker, endpoint, procs>>

WriteMarker(h) ==
  /\ helper[h].pc = "marker"
  /\ marker' = helper[h].sess.gen
  /\ Goto(h, "spawn")
  /\ UNCHANGED <<nextGen, lease, reg, endpoint, procs>>

\* A record whose cleanup is due.
Failed(record) == [record EXCEPT !.state = "cleanup_failed"]

\* The marker cannot be written: the reservation is removed again; when that
\* fails too it is kept as cleanup_failed, or as it is.
MarkerFails(h, left) ==
  /\ IoFaults
  /\ helper[h].pc = "marker"
  /\ reg' = left
  /\ Return(h)
  /\ UNCHANGED <<nextGen, marker, endpoint, procs>>

Spawn(h, p) ==
  /\ helper[h].pc = "spawn"
  /\ procs[p].state = "free"
  /\ procs' = [procs EXCEPT ![p] = [state |-> "starting",
                                    gen |-> helper[h].sess.gen, parent |-> h]]
  /\ helper' = [helper EXCEPT ![h].pc = "record", ![h].sess.pid = p,
                              ![h].owned = @ \union {p}]
  /\ UNCHANGED <<nextGen, lease, reg, marker, endpoint>>

SpawnFails(h) ==
  /\ helper[h].pc = "spawn"
  /\ Goto(h, "mark")
  /\ UNCHANGED <<nextGen, lease, reg, marker, endpoint, procs>>

\* update_opening persists the pid.
RecordPid(h) ==
  /\ helper[h].pc = "record"
  /\ IF reg # None /\ reg.gen = helper[h].sess.gen /\ reg.state = "opening"
     THEN reg' = helper[h].sess /\ Goto(h, "await")
     ELSE UNCHANGED reg /\ Goto(h, "mark")
  /\ UNCHANGED <<nextGen, lease, marker, endpoint, procs>>

\* wait_for_server: whatever engine serves the name's endpoint answers the
\* ping; the endpoint is compared by name and transport only.
ServerReady(h) ==
  /\ helper[h].pc = "await"
  /\ Answers
  /\ Goto(h, "finalize")
  /\ UNCHANGED <<nextGen, lease, reg, marker, endpoint, procs>>

ChildExited(h) ==
  LET p == helper[h].sess.pid
  IN /\ helper[h].pc = "await"
     /\ procs[p].state = "zombie"
     /\ ReapAndGoto(h, p, "mark")
     /\ UNCHANGED <<nextGen, lease, reg, marker, endpoint>>

StartTimeout(h) ==
  /\ helper[h].pc = "await"
  /\ Goto(h, "mark")
  /\ UNCHANGED <<nextGen, lease, reg, marker, endpoint, procs>>

\* finalize_opening; a detached engine is no longer waited for.
Finalize(h) ==
  LET active == [helper[h].sess EXCEPT !.state = "active"]
  IN /\ helper[h].pc = "finalize"
     /\ reg # None /\ reg.gen = active.gen /\ reg.state = "opening"
     /\ reg' = active
     /\ helper' = [helper EXCEPT ![h] = [IdleHelper EXCEPT
          !.owned = IF helper[h].detached THEN {} ELSE helper[h].owned]]
     /\ lease' = None
     /\ UNCHANGED <<nextGen, marker, endpoint, procs>>

\* The design or waveform changed meanwhile.
FinalizeFails(h) ==
  /\ helper[h].pc = "finalize"
  /\ Goto(h, "mark")
  /\ UNCHANGED <<nextGen, lease, reg, marker, endpoint, procs>>

-----------------------------------------------------------------------------
(***************************************************************************)
(* SessionManager::close_session and cleanup                               *)
(***************************************************************************)
\* Lease and lookup; kill_session is force without retire.
Close(h, force, retire) ==
  /\ helper[h].pc = "idle"
  /\ retire => force
  /\ lease = None /\ reg # None
  /\ lease' = h
  /\ helper' = [helper EXCEPT ![h].pc = "mark", ![h].op = "close",
                  ![h].sess = reg, ![h].force = force, ![h].retire = retire]
  /\ UNCHANGED <<nextGen, reg, marker, endpoint, procs>>

\* cleanup() (session.gc) reads the registry without the lease and judges
\* the snapshot.
LooksStale(h) ==
  ~(/\ reg.state = "active"
    /\ h \in RemoteHelpers \/ IsEngine(reg.pid)
    /\ endpoint # None)

GcSnapshot(h) ==
  /\ helper[h].pc = "idle"
  /\ reg # None
  /\ LooksStale(h)
  /\ helper' = [helper EXCEPT ![h].pc = "gcClose", ![h].op = "gc",
                  ![h].want = reg, ![h].force = TRUE]
  /\ UNCHANGED <<nextGen, lease, reg, marker, endpoint, procs>>

\* Defect: the snapshot is not compared again under the lease.
StillThere(want) == reg # None

\* kill_session with the snapshot's generation and state as precondition.
StillAsSeen(want) == reg # None /\ reg.gen = want.gen /\ reg.state = want.state

GcClose(h) ==
  /\ helper[h].pc = "gcClose"
  /\ lease = None
  /\ IF StillAsSeen(helper[h].want)
     THEN /\ lease' = h
          /\ helper' = [helper EXCEPT ![h].pc = "mark", ![h].sess = reg]
     ELSE Return(h)
  /\ UNCHANGED <<nextGen, reg, marker, endpoint, procs>>

(***************************************************************************)
(* cleanup_session_locked: from here on close, gc and a failed open share  *)
(* their steps.                                                            *)
(***************************************************************************)
\* mark_cleanup_failed blocks new requests before anything is stopped.
Mark(h) ==
  /\ helper[h].pc = "mark"
  /\ IF reg # None /\ reg.gen = helper[h].sess.gen
     THEN /\ reg' = Failed(helper[h].sess)
          /\ Goto(h, IF helper[h].sess.pid = None THEN "purge" ELSE "quit")
          /\ UNCHANGED lease
     ELSE UNCHANGED reg /\ Return(h)
  /\ UNCHANGED <<nextGen, marker, endpoint, procs>>

\* send_quit_to_endpoint reaches the engine behind the endpoint, if it
\* answers.
SendQuit(h) ==
  /\ helper[h].pc = "quit"
  /\ Answers
  /\ procs' = [procs EXCEPT ![endpoint].state = "quitting"]
  /\ Goto(h, IF h \in RemoteHelpers THEN "remoteWait" ELSE "wait")
  /\ UNCHANGED <<nextGen, lease, reg, marker, endpoint>>

QuitFails(h) ==
  /\ helper[h].pc = "quit"
  /\ IF h \notin RemoteHelpers
     THEN Goto(h, "wait") /\ UNCHANGED lease
     ELSE IF helper[h].retire
          THEN Goto(h, "purge") /\ UNCHANGED lease
          ELSE Return(h)
  /\ UNCHANGED <<nextGen, reg, marker, endpoint, procs>>

\* A remote engine counts as stopped once it no longer answers.
RemoteWait(h) ==
  /\ helper[h].pc = "remoteWait"
  /\ IF Answers THEN Return(h) ELSE Goto(h, "purge") /\ UNCHANGED lease
  /\ UNCHANGED <<nextGen, reg, marker, endpoint, procs>>

\* wait_for_session_process_exit sees the end of the process ...
WaitOver(h, at, pc) ==
  /\ helper[h].pc = at
  /\ Gone(h, helper[h].sess.pid)
  /\ ReapAndGoto(h, helper[h].sess.pid, pc)
  /\ UNCHANGED <<nextGen, lease, reg, marker, endpoint>>

\* ... or gives up while kill(pid, 0) still succeeds.
WaitTimeout(h, at, pc) ==
  /\ helper[h].pc = at
  /\ procs[helper[h].sess.pid].state # "free"
  /\ Goto(h, pc)
  /\ UNCHANGED <<nextGen, lease, reg, marker, endpoint, procs>>

\* Defects: a process that survived SIGKILL counts as stopped; SIGKILL is
\* repeated until the process is gone.
GiveUpProceeds(h, at) ==
  /\ helper[h].pc = at
  /\ procs[helper[h].sess.pid].state # "free"
  /\ Goto(h, IF at = "killWait" THEN "purge" ELSE "cTomb")
  /\ UNCHANGED <<nextGen, lease, reg, marker, endpoint, procs>>

GiveUpRetries(h, at) ==
  /\ helper[h].pc = at
  /\ procs[helper[h].sess.pid].state # "free"
  /\ Goto(h, IF at = "killWait" THEN "kill" ELSE "cKill")
  /\ UNCHANGED <<nextGen, lease, reg, marker, endpoint, procs>>

\* The last wait gave up: the record stays as cleanup_failed.
GiveUp(h, at) ==
  /\ helper[h].pc = at
  /\ procs[helper[h].sess.pid].state # "free"
  /\ Return(h)
  /\ UNCHANGED <<nextGen, reg, marker, endpoint, procs>>

\* process_matches_session: a pid that is not an engine of this name counts
\* as stopped and is not signalled.
Check(h) ==
  LET p == helper[h].sess.pid
  IN /\ helper[h].pc = "check"
     /\ IF p \notin helper[h].owned /\ ~IsEngine(p)
        THEN Goto(h, "purge") /\ UNCHANGED lease
        ELSE IF helper[h].force
             THEN Goto(h, "term") /\ UNCHANGED lease
             ELSE Return(h)
     /\ UNCHANGED <<nextGen, reg, marker, endpoint, procs>>

SendSignal(h, at, pc, dies) ==
  /\ helper[h].pc = at
  /\ Signal(helper[h].sess.pid, dies)
  /\ Goto(h, pc)
  /\ UNCHANGED <<nextGen, lease, reg, marker, endpoint>>

\* xdebug_design_remove_session_generation: guarded by the marker, removes
\* socket, endpoint and transport directory and keeps the marker.
Purge(h) ==
  /\ helper[h].pc = "purge"
  /\ IF marker = helper[h].sess.gen
     THEN endpoint' = None /\ Goto(h, "remove") /\ UNCHANGED lease
     ELSE UNCHANGED endpoint /\ Return(h)
  /\ UNCHANGED <<nextGen, reg, marker, procs>>

\* remove_if_generation
Remove(h) ==
  /\ helper[h].pc = "remove"
  /\ reg' = IF reg # None /\ reg.gen = helper[h].sess.gen THEN None ELSE reg
  /\ Return(h)
  /\ UNCHANGED <<nextGen, marker, endpoint, procs>>

\* What the registry holds when the write due at pc succeeds.
Stored(h) ==
  LET sess == helper[h].sess
  IN CASE helper[h].pc = "record"   -> sess
       [] helper[h].pc = "finalize" -> [sess EXCEPT !.state = "active"]
       [] helper[h].pc = "mark"     -> Failed(sess)
       [] helper[h].pc = "remove"   -> None
       [] helper[h].pc = "contain"  -> Failed(reg)
       [] helper[h].pc = "cTomb"    ->
            [sess EXCEPT !.state = "terminated_on_timeout"]

\* A registry write fails, before or after its rename took effect: the
\* operation reports its error, an open stops its engine again.
StoreFails(h, renamed) ==
  /\ IoFaults
  /\ helper[h].pc \in {"record", "finalize", "mark", "remove", "contain", "cTomb"}
  /\ helper[h].pc = "contain" => lease = None
  /\ reg # None
  /\ reg.gen = IF helper[h].pc = "contain" THEN helper[h].want.gen
               ELSE helper[h].sess.gen
  /\ reg' = IF renamed THEN Stored(h) ELSE reg
  /\ IF helper[h].pc \in {"record", "finalize"}
     THEN Goto(h, "mark") /\ UNCHANGED lease
     ELSE Return(h)
  /\ UNCHANGED <<nextGen, marker, endpoint, procs>>

\* An artifact cannot be removed; the others are.
PurgeFails(h, removed) ==
  /\ IoFaults
  /\ helper[h].pc = "purge" /\ marker = helper[h].sess.gen
  /\ endpoint' = IF removed THEN None ELSE endpoint
  /\ Return(h)
  /\ UNCHANGED <<nextGen, reg, marker, procs>>

-----------------------------------------------------------------------------
(***************************************************************************)
(* SessionManager::terminate_on_timeout, called for the generation a timed *)
(* out request was sent to.                                                *)
(***************************************************************************)
\* A request to an active session with a matching marker times out; its
\* generation was read without the lease.
RequestTimesOut(h) ==
  /\ helper[h].pc = "idle"
  /\ reg # None /\ reg.state = "active" /\ marker = reg.gen
  /\ helper' = [helper EXCEPT ![h].pc = "contain", ![h].op = "contain",
                              ![h].want = reg]
  /\ UNCHANGED <<nextGen, lease, reg, marker, endpoint, procs>>

\* Lease; the record of that generation, whatever its state, is blocked
\* before anything is stopped.
Contain(h) ==
  /\ helper[h].pc = "contain"
  /\ lease = None
  /\ IF reg # None /\ reg.gen = helper[h].want.gen
     THEN /\ lease' = h
          /\ reg' = Failed(reg)
          /\ helper' = [helper EXCEPT ![h].pc = "cCheck", ![h].sess = reg']
     ELSE UNCHANGED reg /\ Return(h)
  /\ UNCHANGED <<nextGen, marker, endpoint, procs>>

\* A remote engine's end cannot be confirmed.
ContainRemote(h) ==
  /\ helper[h].pc = "cCheck" /\ h \in RemoteHelpers
  /\ Return(h)
  /\ UNCHANGED <<nextGen, reg, marker, endpoint, procs>>

ContainCheck(h) ==
  LET p == helper[h].sess.pid
  IN /\ helper[h].pc = "cCheck" /\ h \notin RemoteHelpers
     /\ ~Gone(h, p)
     /\ Goto(h, IF p \notin helper[h].owned /\ ~IsEngine(p)
                THEN "cTomb" ELSE "cTerm")
     /\ UNCHANGED <<nextGen, lease, reg, marker, endpoint, procs>>

ContainTombstone(h) ==
  /\ helper[h].pc = "cTomb"
  /\ reg' = IF reg # None /\ reg.gen = helper[h].sess.gen
            THEN [helper[h].sess EXCEPT !.state = "terminated_on_timeout"]
            ELSE reg
  /\ Return(h)
  /\ UNCHANGED <<nextGen, marker, endpoint, procs>>

-----------------------------------------------------------------------------
(***************************************************************************)
(* The end of a helper.                                                    *)
(***************************************************************************)
\* ~SessionManager: an owned child that the record still describes is closed
\* with its generation as precondition.
DestroyClose(h) ==
  /\ helper[h].pc = "idle"
  /\ lease = None /\ reg # None /\ reg.pid \in helper[h].owned
  /\ lease' = h
  /\ helper' = [helper EXCEPT ![h].pc = "mark", ![h].op = "close",
                  ![h].sess = reg, ![h].force = TRUE]
  /\ UNCHANGED <<nextGen, reg, marker, endpoint, procs>>

\* terminate_spawned_child for one the record does not describe, or whose
\* close failed.
DestroyReap(h, p) ==
  /\ helper[h].pc = "idle"
  /\ p \in helper[h].owned
  /\ procs' = [procs EXCEPT ![p] = FreeProc]
  /\ helper' = [helper EXCEPT ![h].owned = @ \ {p}]
  /\ UNCHANGED <<nextGen, lease, reg, marker, endpoint>>

\* Children of a process that ends are adopted by init, zombies vanish.
Adopted(h) ==
  [p \in Pids |->
     IF procs[p].parent # h THEN procs[p]
     ELSE IF procs[p].state = "zombie" THEN FreeProc
     ELSE [procs[p] EXCEPT !.parent = None]]

HelperExits(h) ==
  /\ helper[h].pc = "idle" /\ helper[h].owned = {}
  /\ \E p \in Pids : procs[p].parent = h
  /\ procs' = Adopted(h)
  /\ UNCHANGED <<nextGen, lease, reg, marker, endpoint, helper>>

HelperCrashes(h) ==
  /\ HelpersCrash
  /\ helper[h] # IdleHelper
  /\ helper' = [helper EXCEPT ![h] = IdleHelper]
  /\ lease' = IF lease = h THEN None ELSE lease
  /\ procs' = Adopted(h)
  /\ UNCHANGED <<nextGen, reg, marker, endpoint>>

-----------------------------------------------------------------------------
HelperStarts(h) ==
  \/ \E detached \in BOOLEAN : OpenReserve(h, detached)
  \/ ReserveFails(h)
  \/ \E force, retire \in BOOLEAN : Close(h, force, retire)
  \/ GcSnapshot(h)
  \/ RequestTimesOut(h)

HelperStep(h) ==
  \/ WriteMarker(h)
  \/ \E left \in {None, helper[h].sess, Failed(helper[h].sess)} :
       MarkerFails(h, left)
  \/ \E p \in Pids : Spawn(h, p)
  \/ SpawnFails(h) \/ RecordPid(h)
  \/ ServerReady(h) \/ ChildExited(h) \/ StartTimeout(h)
  \/ Finalize(h) \/ FinalizeFails(h)
  \/ GcClose(h)
  \/ Mark(h) \/ SendQuit(h) \/ QuitFails(h) \/ RemoteWait(h) \/ Check(h)
  \/ WaitOver(h, "wait", "purge") \/ WaitTimeout(h, "wait", "check")
  \/ \E dies \in BOOLEAN : SendSignal(h, "term", "termWait", dies)
  \/ WaitOver(h, "termWait", "purge") \/ WaitTimeout(h, "termWait", "kill")
  \/ \E dies \in BOOLEAN : SendSignal(h, "kill", "killWait", dies)
  \/ WaitOver(h, "killWait", "purge") \/ GiveUp(h, "killWait")
  \/ Purge(h) \/ Remove(h)
  \/ \E renamed \in BOOLEAN : StoreFails(h, renamed)
  \/ \E removed \in BOOLEAN : PurgeFails(h, removed)
  \/ Contain(h) \/ ContainRemote(h) \/ ContainCheck(h)
  \/ h \notin RemoteHelpers /\ WaitOver(h, "cCheck", "cTomb")
  \/ \E dies \in BOOLEAN : SendSignal(h, "cTerm", "cTermWait", dies)
  \/ WaitOver(h, "cTermWait", "cTomb") \/ WaitTimeout(h, "cTermWait", "cKill")
  \/ \E dies \in BOOLEAN : SendSignal(h, "cKill", "cKillWait", dies)
  \/ WaitOver(h, "cKillWait", "cTomb") \/ GiveUp(h, "cKillWait")
  \/ ContainTombstone(h)

HelperEnds(h) ==
  \/ DestroyClose(h) \/ (\E p \in Pids : DestroyReap(h, p))
  \/ HelperExits(h) \/ HelperCrashes(h)

ProcessStep(p) ==
  \/ EngineServes(p) \/ EngineHangs(p)
  \/ \E unlinked \in BOOLEAN : EngineEnds(p, unlinked)
  \/ AlienStarts(p) \/ AlienEnds(p)

Next ==
  \/ \E h \in Helpers : HelperStarts(h) \/ HelperStep(h) \/ HelperEnds(h)
  \/ \E p \in Pids : ProcessStep(p)

Spec == Init /\ [][Next]_vars

\* Every wait of a helper is bounded, so a helper that runs keeps stepping.
FairSpec == Spec /\ \A h \in Helpers : WF_vars(HelperStep(h))
-----------------------------------------------------------------------------
(***************************************************************************)
(* Properties.                                                             *)
(***************************************************************************)
\* A record that clients may use can be cleaned up again: its engine is known
\* and its marker carries its generation (client.cpp and
\* xdebug_design_remove_session_generation both insist on the marker).
ActiveCleanable ==
  reg # None /\ reg.state = "active" => marker = reg.gen /\ reg.pid # None

\* A cleanup that has proved the engine stopped can remove the artifacts, so
\* the name becomes free again: README.md promises that session.close or
\* session.gc makes room for a new open.
CleanupCompletes ==
  \A h \in Helpers : helper[h].pc = "purge" => marker = helper[h].sess.gen

\* cleanup_session_locked by a helper on the engine's host: when the record is
\* about to be removed, no engine of its generation runs any more.
CleanedMeansStopped ==
  \A h \in Helpers \ RemoteHelpers :
    helper[h].pc \in {"purge", "remove"} /\ helper[h].sess.pid # None =>
      \A p \in Pids : IsEngine(p) => procs[p].gen # helper[h].sess.gen

\* terminate_on_timeout writes its tombstone only after the engine is gone.
TombstoneSound ==
  reg # None /\ reg.state = "terminated_on_timeout" =>
    \A p \in Pids : IsEngine(p) => procs[p].gen # reg.gen

\* The lease, the reservation and the proof of death before removal together
\* keep two engines of one name from running side by side, and the endpoint
\* of an active session is served by the engine of its own generation
\* (ensure_session: "Server endpoint does not match the reserved session
\* generation").
OneEnginePerName ==
  /\ \A p, q \in Pids : IsEngine(p) /\ IsEngine(q) => p = q
  /\ reg # None /\ reg.state = "active" /\ Answers => procs[endpoint].gen = reg.gen

\* cleanup(): session.gc judges a snapshot it read without the lease; it must
\* not take down a session that is active and answers when gc acts on it.
GcSparesHealthy ==
  \A h \in Helpers :
    helper[h].pc = "mark" /\ helper[h].op = "gc" /\ lease = h =>
      ~(reg.state = "active" /\ Answers /\ endpoint = reg.pid)

\* Every wait under the lease is bounded, so no helper that keeps running
\* keeps a name locked for ever.
LeaseReleased == \A h \in Helpers : lease = h ~> lease # h
=============================================================================
