-------------------------- MODULE ArtifactPublisher --------------------------
(***************************************************************************)
(* publish_atomic_artifact_set: several files of an export become visible  *)
(* together or not at all.  Two engines may export into one directory, so  *)
(* every system call is a step of its own.  A file is known by the engine  *)
(* that wrote it; its contents are not modelled.                           *)
(***************************************************************************)
EXTENDS Naturals, Sequences, SequencesExt, FiniteSets

CONSTANTS Publishers,  \* engines exporting into one directory
          TargetsOf,   \* [Publishers -> Seq(path)], the artifacts' target_path
          Free         \* no file at this path

ASSUME PublisherAssumption ==
    /\ Free \notin Publishers
    /\ \A p \in Publishers : TargetsOf[p] \in Seq(Nat)

Paths == UNION {Range(TargetsOf[p]) : p \in Publishers}

VARIABLES file,       \* file[path]: whose file stands there, or Free
          staged,     \* staged[p]: indices of its temporaries on disk
          temporary,  \* temporary[p]: those its rollback would unlink
          published,  \* published[p]: the targets its rollback would unlink
          pubStep,    \* pubStep[p]: [at, index], where the call stands
          stuck,      \* stuck[p]: targets whose unlink in the rollback failed
          kept        \* kept[p]: temporaries whose last unlink failed

pubVars == <<file, staged, temporary, published, pubStep, stuck, kept>>

At(p, name) == pubStep[p].at = name
Goto(p, name, index) == pubStep' = [pubStep EXCEPT ![p] = [at |-> name, index |-> index]]
Count(p) == Len(TargetsOf[p])
Current(p) == TargetsOf[p][pubStep[p].index]

InitPublisher ==
    /\ file = [path \in Paths |-> Free]
    /\ staged = [p \in Publishers |-> {}]
    /\ temporary = [p \in Publishers |-> {}]
    /\ published = [p \in Publishers |-> {}]
    /\ pubStep = [p \in Publishers |-> [at |-> "idle", index |-> 1]]
    /\ stuck = [p \in Publishers |-> {}]
    /\ kept = [p \in Publishers |-> {}]

----------------------------------------------------------------------------
(* The checks before the first side effect: a set must not be empty and    *)
(* must not name a target twice (one shared directory is assumed by the    *)
(* model's flat namespace).                                                *)
acceptable_set(p) ==
    Count(p) > 0 /\ Cardinality(Range(TargetsOf[p])) = Count(p)

BeginPublish(p) ==
    /\ At(p, "idle")
    /\ IF acceptable_set(p) THEN Goto(p, "directory", 1) ELSE Goto(p, "failed", 1)
    /\ UNCHANGED <<file, staged, temporary, published, stuck, kept>>

(* mkdir -p; a failure ends the call before anything was created. *)
ensure_directory(p) ==
    /\ At(p, "directory")
    /\ Goto(p, "available", 1) \/ Goto(p, "failed", 1)
    /\ UNCHANGED <<file, staged, temporary, published, stuck, kept>>

(* lstat of one target; the first one that exists refuses the whole set. *)
target_available(p) ==
    /\ At(p, "available")
    /\ \/ /\ file[Current(p)] # Free
          /\ Goto(p, "failed", 1)
       \/ /\ file[Current(p)] = Free
          /\ IF pubStep[p].index < Count(p)
             THEN Goto(p, "available", pubStep[p].index + 1)
             ELSE Goto(p, "stage", 1)
    /\ UNCHANGED <<file, staged, temporary, published, stuck, kept>>

(* mkstemp, then close.  A name in the list is the rollback's to unlink; a  *)
(* failing close unlinks the file at once, and if that fails too, nobody   *)
(* knows of the file any more.                                             *)
make_temp_path(p) ==
    LET index == pubStep[p].index IN
    /\ At(p, "stage")
    /\ \/ /\ temporary' = [temporary EXCEPT ![p] = @ \cup {index}]
          /\ staged' = [staged EXCEPT ![p] = @ \cup {index}]
          /\ Goto(p, "write", index)
          /\ UNCHANGED kept
       \/ /\ Goto(p, "rollback", 1)
          /\ UNCHANGED <<staged, temporary, kept>>
       \/ /\ staged' = [staged EXCEPT ![p] = @ \cup {index}]
          /\ kept' = [kept EXCEPT ![p] = @ \cup {index}]
          /\ Goto(p, "rollback", 1)
          /\ UNCHANGED temporary
    /\ UNCHANGED <<file, published, stuck>>

(* The writer (false or an exception), the flush and the fsync of one      *)
(* staged file: any of them failing abandons the set.                      *)
sync_and_measure(p) ==
    /\ At(p, "write")
    /\ \/ Goto(p, "rollback", 1)
       \/ IF pubStep[p].index < Count(p)
          THEN Goto(p, "stage", pubStep[p].index + 1)
          ELSE Goto(p, "link", 1)
    /\ UNCHANGED <<file, staged, temporary, published, stuck, kept>>

(* link() never replaces a file: a target that appeared meanwhile, or any  *)
(* other error, sends the call into the rollback.                          *)
link_artifact(p) ==
    LET index == pubStep[p].index IN
    /\ At(p, "link")
    /\ \/ /\ file[Current(p)] = Free
          /\ file' = [file EXCEPT ![Current(p)] = p]
          /\ published' = [published EXCEPT ![p] = @ \cup {Current(p)}]
          /\ IF index < Count(p) THEN Goto(p, "link", index + 1)
                                 ELSE Goto(p, "unlink", 1)
       \/ /\ Goto(p, "rollback", 1)
          /\ UNCHANGED <<file, published>>
    /\ UNCHANGED <<staged, temporary, stuck, kept>>

(* The temporaries are unlinked; one that cannot be stays in the list, for  *)
(* the rollback to try again.                                              *)
unlink_temporary(p) ==
    LET index == pubStep[p].index IN
    /\ At(p, "unlink")
    /\ \/ /\ temporary' = [temporary EXCEPT ![p] = @ \ {index}]
          /\ staged' = [staged EXCEPT ![p] = @ \ {index}]
          /\ IF index < Count(p) THEN Goto(p, "unlink", index + 1)
                                 ELSE Goto(p, "sync", 1)
       \/ /\ Goto(p, "rollback", 1)
          /\ UNCHANGED <<staged, temporary>>
    /\ UNCHANGED <<file, published, stuck, kept>>

(* fsync of the directory decides: committed, or everything is withdrawn. *)
sync_directory(p) ==
    /\ At(p, "sync")
    /\ Goto(p, "done", 1) \/ Goto(p, "rollback", 1)
    /\ UNCHANGED <<file, staged, temporary, published, stuck, kept>>

(* ~Rollback ignores a failing unlink, of a temporary and of a target.     *)
rollback_temporary(p, index) ==
    \/ staged' = [staged EXCEPT ![p] = @ \ {index}] /\ UNCHANGED kept
    \/ kept' = [kept EXCEPT ![p] = @ \cup {index}] /\ UNCHANGED staged

\* Mutated: the published targets are forgotten, not unlinked.
rollback_published_omitted(p, path) == UNCHANGED <<file, stuck>>

rollback_published(p, path) ==
    \/ file' = [file EXCEPT ![path] = Free] /\ UNCHANGED stuck
    \/ stuck' = [stuck EXCEPT ![p] = @ \cup {path}] /\ UNCHANGED file

(* The temporaries first, then the published targets, one unlink at a time. *)
Rollback(p) ==
    /\ At(p, "rollback")
    /\ \/ \E index \in temporary[p] :
            /\ temporary' = [temporary EXCEPT ![p] = @ \ {index}]
            /\ rollback_temporary(p, index)
            /\ UNCHANGED <<file, published, stuck, pubStep>>
       \/ \E path \in published[p] :
            /\ temporary[p] = {}
            /\ published' = [published EXCEPT ![p] = @ \ {path}]
            /\ rollback_published(p, path)
            /\ UNCHANGED <<staged, temporary, kept, pubStep>>
       \/ /\ temporary[p] = {} /\ published[p] = {}
          /\ Goto(p, "failed", 1)
          /\ UNCHANGED <<file, staged, temporary, published, stuck, kept>>

(* The engine is killed: nothing of the call runs any more. *)
Killed(p) ==
    /\ ~\E name \in {"idle", "done", "failed", "dead"} : At(p, name)
    /\ Goto(p, "dead", 1)
    /\ UNCHANGED <<file, staged, temporary, published, stuck, kept>>

NextPublisher ==
    \E p \in Publishers :
        \/ BeginPublish(p) \/ ensure_directory(p) \/ target_available(p)
        \/ make_temp_path(p) \/ sync_and_measure(p) \/ link_artifact(p)
        \/ unlink_temporary(p) \/ sync_directory(p) \/ Rollback(p) \/ Killed(p)

SpecPublisher == InitPublisher /\ [][NextPublisher]_pubVars

----------------------------------------------------------------------------
OwnFiles(p) == {path \in Paths : file[path] = p}

(* An export that answered success has every one of its files in place and *)
(* no temporary behind, whatever the other engine exported meanwhile; one  *)
(* that answered failure left no target and no temporary of its own but    *)
(* those whose unlink itself failed, and never removed the other's         *)
(* (publish_atomic_artifact_set and ~Rollback).                            *)
ArtifactSetWhole ==
    \A p \in Publishers :
        /\ At(p, "done") => OwnFiles(p) = Range(TargetsOf[p]) /\ staged[p] = {}
        /\ At(p, "failed") => OwnFiles(p) \subseteq stuck[p] /\ staged[p] \subseteq kept[p]
=============================================================================
