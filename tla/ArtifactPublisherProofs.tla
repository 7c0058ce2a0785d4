----------------------- MODULE ArtifactPublisherProofs -----------------------
(***************************************************************************)
(* publish_atomic_artifact_set for any number of engines that export any   *)
(* sets of targets into one directory, fail at any system call and are     *)
(* killed at any point.                                                    *)
(***************************************************************************)
EXTENDS ArtifactPublisher, TLAPS

Places == {"idle", "directory", "available", "stage", "write", "link", "unlink",
           "sync", "rollback", "done", "failed", "dead"}

\* The index of the loop the call is in names an artifact of its set.
IndexFits(p) ==
    pubStep[p].at \in {"available", "stage", "write", "link", "unlink"} =>
        pubStep[p].index \in 1 .. Count(p)

TypeOK ==
    /\ file \in [Paths -> Publishers \cup {Free}]
    /\ staged \in [Publishers -> SUBSET Nat]
    /\ temporary \in [Publishers -> SUBSET Nat]
    /\ published \in [Publishers -> SUBSET Paths]
    /\ pubStep \in [Publishers -> [at : Places, index : Nat]]
    /\ stuck \in [Publishers -> SUBSET Paths]
    /\ kept \in [Publishers -> SUBSET Nat]

\* The first n targets of p.
TargetsUpTo(p, n) == {TargetsOf[p][k] : k \in 1 .. n}

\* What the place of the call says about the two lists its rollback works on.
ListsFit(p) ==
    LET i == pubStep[p].index IN
    /\ pubStep[p].at \in {"idle", "directory", "available", "failed"} =>
         temporary[p] = {} /\ published[p] = {}
    /\ At(p, "directory") => Count(p) > 0
    /\ At(p, "stage") => temporary[p] = 1 .. (i - 1) /\ published[p] = {}
    /\ At(p, "write") => temporary[p] = 1 .. i /\ published[p] = {}
    /\ At(p, "link") => /\ temporary[p] = 1 .. Count(p)
                        /\ published[p] = TargetsUpTo(p, i - 1)
    /\ At(p, "unlink") => /\ temporary[p] = i .. Count(p)
                          /\ published[p] = TargetsUpTo(p, Count(p))
    /\ pubStep[p].at \in {"sync", "done"} =>
         temporary[p] = {} /\ published[p] = TargetsUpTo(p, Count(p))

\* The files of p in the directory are the ones its rollback would unlink,
\* and after a failed unlink the stuck ones.
FilesFit(p) ==
    /\ published[p] \subseteq OwnFiles(p)
    /\ OwnFiles(p) \subseteq published[p] \cup stuck[p]
    /\ pubStep[p].at \notin {"rollback", "failed", "dead"} => stuck[p] = {}

\* The same of its temporaries, with the ones no unlink removed.
StagedFit(p) ==
    /\ staged[p] \subseteq temporary[p] \cup kept[p]
    /\ pubStep[p].at \notin {"rollback", "failed", "dead"} => kept[p] = {}

PublisherInv ==
    /\ TypeOK
    /\ \A p \in Publishers : /\ IndexFits(p) /\ ListsFit(p)
                            /\ FilesFit(p) /\ StagedFit(p)
----------------------------------------------------------------------------
\* Only p's call moved, no file changed hands but p's own.
Untouched(p, q) ==
    /\ pubStep'[q] = pubStep[q] /\ temporary'[q] = temporary[q]
    /\ published'[q] = published[q] /\ stuck'[q] = stuck[q]
    /\ staged'[q] = staged[q] /\ kept'[q] = kept[q]
    /\ OwnFiles(q)' = OwnFiles(q)

\* An artifact of a set has a path of the directory.
LEMMA TargetInPaths ==
    ASSUME NEW p \in Publishers
    PROVE  /\ Count(p) \in Nat
           /\ \A k \in 1 .. Count(p) : TargetsOf[p][k] \in Paths
           /\ TargetsUpTo(p, Count(p)) = Range(TargetsOf[p])
<1>1. TargetsOf[p] \in Seq(Nat)
  BY PublisherAssumption
<1>2. Count(p) \in Nat /\ DOMAIN TargetsOf[p] = 1 .. Count(p)
  BY <1>1 DEF Count
<1>3. TargetsUpTo(p, Count(p)) = Range(TargetsOf[p])
  BY <1>2 DEF TargetsUpTo, Range
<1>4. Range(TargetsOf[p]) \subseteq Paths
  BY DEF Paths
<1>5. QED
  BY <1>2, <1>3, <1>4 DEF TargetsUpTo

\* What a call that only moves one publisher leaves of the others' facts.
LEMMA UntouchedKeeps ==
    ASSUME NEW p \in Publishers, NEW q \in Publishers, Untouched(p, q),
           IndexFits(q), ListsFit(q), FilesFit(q), StagedFit(q)
    PROVE  IndexFits(q)' /\ ListsFit(q)' /\ FilesFit(q)' /\ StagedFit(q)'
  BY DEF Untouched, IndexFits, ListsFit, FilesFit, StagedFit, At, Count, TargetsUpTo

\* A step that changes no file keeps everyone's files.
LEMMA SameFiles ==
    ASSUME UNCHANGED file, NEW q
    PROVE  OwnFiles(q)' = OwnFiles(q)
  BY DEF OwnFiles

LEMMA InitInv == InitPublisher => PublisherInv
<1> SUFFICES ASSUME InitPublisher PROVE PublisherInv
  OBVIOUS
<1>1. TypeOK
  BY DEF InitPublisher, TypeOK, Places
<1>2. ASSUME NEW p \in Publishers
      PROVE  IndexFits(p) /\ ListsFit(p) /\ FilesFit(p) /\ StagedFit(p)
  BY PublisherAssumption DEF InitPublisher, IndexFits, ListsFit, FilesFit, StagedFit, At, OwnFiles
<1>3. QED
  BY <1>1, <1>2 DEF PublisherInv
----------------------------------------------------------------------------
\* The calls that touch no target: only the place and the temporaries of p
\* change.
Quiet(p) ==
    \/ BeginPublish(p) \/ ensure_directory(p) \/ target_available(p)
    \/ make_temp_path(p) \/ sync_and_measure(p) \/ unlink_temporary(p)
    \/ sync_directory(p) \/ Killed(p)

LEMMA QuietKeeps ==
    ASSUME PublisherInv, NEW p \in Publishers, Quiet(p)
    PROVE  PublisherInv'
<1> USE DEF PublisherInv
<1>c. Count(p) \in Nat
  BY TargetInPaths
<1>t. /\ pubStep[p].at \in Places /\ pubStep[p].index \in Nat
      /\ pubStep \in [Publishers -> [at : Places, index : Nat]]
  BY DEF TypeOK
<1>i. IndexFits(p) /\ ListsFit(p) /\ FilesFit(p) /\ StagedFit(p)
  OBVIOUS
<1>f. UNCHANGED <<file, published, stuck>>
  BY DEF Quiet, BeginPublish, ensure_directory, target_available, make_temp_path,
         sync_and_measure, unlink_temporary, sync_directory, Killed
<1>o. /\ temporary' \in [Publishers -> SUBSET Nat]
      /\ staged' \in [Publishers -> SUBSET Nat] /\ kept' \in [Publishers -> SUBSET Nat]
      /\ \A q \in Publishers \ {p} : /\ temporary'[q] = temporary[q]
                                    /\ staged'[q] = staged[q] /\ kept'[q] = kept[q]
  <2>1. CASE make_temp_path(p)
    <3> DEFINE i == pubStep[p].index
    <3>1. i \in Nat
      BY <1>t
    <3>2. temporary' = temporary \/ temporary' = [temporary EXCEPT ![p] = @ \cup {i}]
      BY <2>1 DEF make_temp_path
    <3>3. staged' = staged \/ staged' = [staged EXCEPT ![p] = @ \cup {i}]
      BY <2>1 DEF make_temp_path
    <3>4. kept' = kept \/ kept' = [kept EXCEPT ![p] = @ \cup {i}]
      BY <2>1 DEF make_temp_path
    <3>5. ASSUME NEW f \in [Publishers -> SUBSET Nat], NEW g,
                 g = f \/ g = [f EXCEPT ![p] = @ \cup {i}]
          PROVE  /\ g \in [Publishers -> SUBSET Nat]
                 /\ \A q \in Publishers \ {p} : g[q] = f[q]
      BY <3>1, <3>5
    <3>6. QED
      BY <3>2, <3>3, <3>4, <3>5 DEF TypeOK
  <2>2. CASE unlink_temporary(p)
    BY <2>2, <1>t DEF TypeOK, unlink_temporary
  <2>3. CASE ~make_temp_path(p) /\ ~unlink_temporary(p)
    BY <2>3 DEF TypeOK, Quiet, BeginPublish, ensure_directory, target_available,
           sync_and_measure, sync_directory, Killed
  <2>4. QED
    BY <2>1, <2>2, <2>3
<1>g. \E name \in Places, index \in Nat : Goto(p, name, index)
  BY <1>c, <1>t DEF Quiet, BeginPublish, ensure_directory, target_available,
         make_temp_path, sync_and_measure, unlink_temporary, sync_directory, Killed,
         Places, Goto
<1>s. /\ pubStep' \in [Publishers -> [at : Places, index : Nat]]
      /\ \A q \in Publishers \ {p} : pubStep'[q] = pubStep[q]
  BY <1>g, <1>t DEF Goto
<1>1. TypeOK'
  BY <1>f, <1>o, <1>s DEF TypeOK, Paths
<1>2. \A q \in Publishers \ {p} : IndexFits(q)' /\ ListsFit(q)' /\ FilesFit(q)' /\ StagedFit(q)'
  BY <1>f, <1>o, <1>s, SameFiles, UntouchedKeeps DEF Untouched
<1>3. IndexFits(p)' /\ ListsFit(p)' /\ FilesFit(p)' /\ StagedFit(p)'
  <2>1. CASE BeginPublish(p)
    BY <2>1, <1>c, <1>t, <1>i, <1>f, SameFiles
       DEF TypeOK, BeginPublish, acceptable_set, Goto, At, IndexFits, ListsFit, FilesFit, StagedFit,
           TargetsUpTo, Places
  <2>2. CASE ensure_directory(p)
    BY <2>2, <1>c, <1>t, <1>i, <1>f, SameFiles
       DEF TypeOK, ensure_directory, Goto, At, IndexFits, ListsFit, FilesFit, StagedFit,
           TargetsUpTo, Places
  <2>3. CASE target_available(p)
    <3>1. 1 .. (1 - 1) = {}
      OBVIOUS
    <3>2. /\ temporary'[p] = {} /\ published'[p] = {} /\ stuck'[p] = {}
          /\ kept'[p] = {} /\ staged'[p] = {}
      BY <2>3, <1>i, <1>f DEF target_available, At, ListsFit, FilesFit, StagedFit
    <3>3. /\ pubStep'[p].at \in {"available", "stage", "failed"}
          /\ pubStep'[p].at # "failed" => pubStep'[p].index \in 1 .. Count(p)
          /\ pubStep'[p].at = "stage" => pubStep'[p].index = 1
      BY <2>3, <1>c, <1>t, <1>i DEF target_available, Goto, At, IndexFits
    <3>4. QED
      BY <3>1, <3>2, <3>3, <1>i, <1>f, SameFiles DEF IndexFits, ListsFit, FilesFit, StagedFit, At, Count
  <2>4. CASE make_temp_path(p)
    <3> DEFINE i == pubStep[p].index
    <3>1. /\ i \in 1 .. Count(p) /\ temporary[p] = 1 .. (i - 1) /\ published[p] = {}
          /\ stuck[p] = {} /\ kept[p] = {}
      BY <2>4, <1>i DEF make_temp_path, At, IndexFits, ListsFit, FilesFit, StagedFit
    <3>2. CASE /\ Goto(p, "write", i) /\ temporary' = [temporary EXCEPT ![p] = @ \cup {i}]
               /\ staged' = [staged EXCEPT ![p] = @ \cup {i}] /\ UNCHANGED kept
      <4>1. temporary'[p] = 1 .. i
        BY <3>1, <3>2, <1>c DEF TypeOK
      <4>2. pubStep'[p] = [at |-> "write", index |-> i]
        BY <3>2, <1>t DEF Goto
      <4>3. StagedFit(p)'
        <5>1. temporary'[p] = temporary[p] \cup {i} /\ staged'[p] = staged[p] \cup {i}
          BY <3>2 DEF TypeOK
        <5>2. QED
          BY <5>1, <3>1, <3>2, <1>i DEF StagedFit
      <4>4. QED
        BY <4>1, <4>2, <4>3, <3>1, <1>c, <1>i, <1>f, SameFiles
           DEF IndexFits, ListsFit, FilesFit, At, Count
    <3>3. CASE Goto(p, "rollback", 1) /\ UNCHANGED <<staged, temporary, kept>>
      BY <3>3, <3>1, <1>t, <1>i, <1>f, SameFiles
         DEF Goto, IndexFits, ListsFit, FilesFit, StagedFit, At
    <3>4. CASE /\ staged' = [staged EXCEPT ![p] = @ \cup {i}]
               /\ kept' = [kept EXCEPT ![p] = @ \cup {i}]
               /\ Goto(p, "rollback", 1) /\ UNCHANGED temporary
      <4>1. staged'[p] = staged[p] \cup {i} /\ kept'[p] = kept[p] \cup {i}
        BY <3>4 DEF TypeOK
      <4>2. pubStep'[p] = [at |-> "rollback", index |-> 1]
        BY <3>4, <1>t DEF Goto
      <4>3. QED
        BY <4>1, <4>2, <3>1, <3>4, <1>i, <1>f, SameFiles
           DEF IndexFits, ListsFit, FilesFit, StagedFit, At
    <3>5. QED
      BY <2>4, <3>2, <3>3, <3>4 DEF make_temp_path
  <2>5. CASE sync_and_measure(p)
    BY <2>5, <1>c, <1>t, <1>i, <1>f, SameFiles
       DEF TypeOK, sync_and_measure, Goto, At, IndexFits, ListsFit, FilesFit, StagedFit,
           TargetsUpTo, Places
  <2>6. CASE unlink_temporary(p)
    <3> DEFINE i == pubStep[p].index
    <3>1. /\ i \in 1 .. Count(p) /\ temporary[p] = i .. Count(p)
          /\ published[p] = TargetsUpTo(p, Count(p)) /\ stuck[p] = {} /\ kept[p] = {}
      BY <2>6, <1>i DEF unlink_temporary, At, IndexFits, ListsFit, FilesFit, StagedFit
    <3>2. CASE /\ temporary' = [temporary EXCEPT ![p] = @ \ {i}]
               /\ staged' = [staged EXCEPT ![p] = @ \ {i}] /\ UNCHANGED kept
               /\ IF i < Count(p) THEN Goto(p, "unlink", i + 1) ELSE Goto(p, "sync", 1)
      <4>1. temporary'[p] = (i + 1) .. Count(p)
        BY <3>1, <3>2, <1>c DEF TypeOK
      <4>2. pubStep'[p] = IF i < Count(p) THEN [at |-> "unlink", index |-> i + 1]
                                          ELSE [at |-> "sync", index |-> 1]
        BY <3>2, <1>t DEF Goto
      <4>3. i = Count(p) => temporary'[p] = {}
        BY <4>1, <1>c
      <4>4. i < Count(p) => i + 1 \in 1 .. Count(p)
        BY <3>1, <1>c
      <4>5. i < Count(p) \/ i = Count(p)
        BY <3>1, <1>c
      <4>6. StagedFit(p)'
        <5>1. temporary'[p] = temporary[p] \ {i} /\ staged'[p] = staged[p] \ {i}
          BY <3>2 DEF TypeOK
        <5>2. QED
          BY <5>1, <3>1, <3>2, <1>i DEF StagedFit
      <4>7. QED
        BY <4>1, <4>2, <4>3, <4>4, <4>5, <4>6, <3>1, <1>i, <1>f, SameFiles
           DEF IndexFits, ListsFit, FilesFit, At, Count, TargetsUpTo
    <3>3. CASE Goto(p, "rollback", 1) /\ UNCHANGED <<staged, temporary, kept>>
      BY <3>3, <3>1, <1>t, <1>i, <1>f, SameFiles DEF Goto, IndexFits, ListsFit, FilesFit, StagedFit, At
    <3>4. QED
      BY <2>6, <3>2, <3>3 DEF unlink_temporary
  <2>7. CASE sync_directory(p)
    BY <2>7, <1>c, <1>t, <1>i, <1>f, SameFiles
       DEF TypeOK, sync_directory, Goto, At, IndexFits, ListsFit, FilesFit, StagedFit,
           TargetsUpTo, Places
  <2>8. CASE Killed(p)
    BY <2>8, <1>c, <1>t, <1>i, <1>f, SameFiles
       DEF TypeOK, Killed, Goto, At, IndexFits, ListsFit, FilesFit, StagedFit,
           TargetsUpTo, Places
  <2>9. QED
    BY <2>1, <2>2, <2>3, <2>4, <2>5, <2>6, <2>7, <2>8 DEF Quiet
<1>4. QED
  BY <1>1, <1>2, <1>3
\* link() takes a free path only, so it takes no file from anybody.
LEMMA LinkKeeps ==
    ASSUME PublisherInv, NEW p \in Publishers, link_artifact(p)
    PROVE  PublisherInv'
<1> USE DEF PublisherInv
<1> DEFINE i == pubStep[p].index
<1>c. Count(p) \in Nat /\ \A k \in 1 .. Count(p) : TargetsOf[p][k] \in Paths
  BY TargetInPaths
<1>t. TypeOK /\ pubStep \in [Publishers -> [at : Places, index : Nat]]
  BY DEF TypeOK
<1>i. /\ i \in 1 .. Count(p) /\ temporary[p] = 1 .. Count(p) /\ stuck[p] = {}
      /\ published[p] = TargetsUpTo(p, i - 1)
      /\ OwnFiles(p) = published[p] /\ kept[p] = {} /\ staged[p] \subseteq temporary[p]
  BY DEF link_artifact, At, IndexFits, ListsFit, FilesFit, StagedFit
<1>u. UNCHANGED <<staged, temporary, stuck, kept>>
  BY DEF link_artifact
<1>1. CASE /\ file[Current(p)] = Free
           /\ file' = [file EXCEPT ![Current(p)] = p]
           /\ published' = [published EXCEPT ![p] = @ \cup {Current(p)}]
           /\ IF i < Count(p) THEN Goto(p, "link", i + 1) ELSE Goto(p, "unlink", 1)
  <2> DEFINE cur == Current(p)
  <2>c. cur \in Paths /\ cur = TargetsOf[p][i]
    BY <1>c, <1>i DEF Current
  <2>s. /\ pubStep' = [pubStep EXCEPT ![p] = IF i < Count(p)
                         THEN [at |-> "link", index |-> i + 1]
                         ELSE [at |-> "unlink", index |-> 1]]
        /\ pubStep' \in [Publishers -> [at : Places, index : Nat]]
    <3>1. i + 1 \in Nat /\ {"link", "unlink"} \subseteq Places
      BY <1>c, <1>i DEF Places
    <3>2. QED
      BY <1>1, <1>t, <3>1 DEF Goto
  <2>1. TypeOK'
    BY <1>1, <1>t, <1>u, <2>c, <2>s DEF TypeOK, Paths
  <2>2. ASSUME NEW q \in Publishers, q # p
        PROVE  IndexFits(q)' /\ ListsFit(q)' /\ FilesFit(q)' /\ StagedFit(q)'
    <3>1. OwnFiles(q)' = OwnFiles(q)
      BY <2>2, <1>1, <2>c, <1>t, PublisherAssumption DEF OwnFiles, TypeOK, Paths
    <3>2. Untouched(p, q)
      BY <3>1, <2>2, <1>1, <1>t, <1>u, <2>s DEF Untouched, TypeOK
    <3>3. QED
      BY <3>2, UntouchedKeeps
  <2>3. OwnFiles(p)' = OwnFiles(p) \cup {cur}
    BY <1>1, <2>c, <1>t DEF OwnFiles, TypeOK, Paths
  <2>4. published'[p] = published[p] \cup {cur}
    BY <1>1, <1>t DEF TypeOK
  <2>5. published'[p] = TargetsUpTo(p, i)
    BY <2>4, <2>c, <1>i, <1>c DEF TargetsUpTo
  <2>6. pubStep'[p] = IF i < Count(p) THEN [at |-> "link", index |-> i + 1]
                                      ELSE [at |-> "unlink", index |-> 1]
    BY <2>s, <1>t
  <2>7. /\ i < Count(p) => i + 1 \in 1 .. Count(p) /\ (i + 1) - 1 = i
        /\ ~(i < Count(p)) => i = Count(p) /\ 1 \in 1 .. Count(p)
    BY <1>i, <1>c
  <2>8. IndexFits(p)' /\ ListsFit(p)' /\ FilesFit(p)' /\ StagedFit(p)'
    <3>1. CASE i < Count(p)
      <4>1. pubStep'[p] = [at |-> "link", index |-> i + 1]
        BY <2>6, <3>1
      <4>2. QED
        BY <4>1, <2>7, <3>1, <2>3, <2>4, <2>5, <1>i, <1>u
           DEF IndexFits, ListsFit, FilesFit, StagedFit, At, Count
    <3>2. CASE ~(i < Count(p))
      <4>1. pubStep'[p] = [at |-> "unlink", index |-> 1]
        BY <2>6, <3>2
      <4>2. QED
        BY <4>1, <2>7, <3>2, <2>3, <2>4, <2>5, <1>i, <1>u
           DEF IndexFits, ListsFit, FilesFit, StagedFit, At, Count
    <3>3. QED
      BY <3>1, <3>2
  <2>9. QED
    BY <2>1, <2>2, <2>8
<1>2. CASE Goto(p, "rollback", 1) /\ UNCHANGED <<file, published>>
  <2>1. TypeOK'
    BY <1>2, <1>t, <1>u DEF TypeOK, Goto, Places, Paths
  <2>2. ASSUME NEW q \in Publishers, q # p
        PROVE  IndexFits(q)' /\ ListsFit(q)' /\ FilesFit(q)' /\ StagedFit(q)'
    BY <2>2, <1>2, <1>t, <1>u, SameFiles, UntouchedKeeps DEF Untouched, Goto
  <2>3. IndexFits(p)' /\ ListsFit(p)' /\ FilesFit(p)' /\ StagedFit(p)'
    BY <1>2, <1>t, <1>u, <1>i, SameFiles DEF Goto, IndexFits, ListsFit, FilesFit, StagedFit, At
  <2>4. QED
    BY <2>1, <2>2, <2>3
<1>3. QED
  BY <1>1, <1>2 DEF link_artifact

\* The rollback unlinks only targets it linked itself, so a file that another
\* engine put at a path of the set survives.
LEMMA RollbackKeeps ==
    ASSUME PublisherInv, NEW p \in Publishers, Rollback(p)
    PROVE  PublisherInv'
<1> USE DEF PublisherInv
<1>t. TypeOK /\ pubStep \in [Publishers -> [at : Places, index : Nat]]
  BY DEF TypeOK
<1>a. At(p, "rollback")
  BY DEF Rollback
<1>i. /\ published[p] \subseteq OwnFiles(p) /\ OwnFiles(p) \subseteq published[p] \cup stuck[p]
      /\ staged[p] \subseteq temporary[p] \cup kept[p]
  BY DEF FilesFit, StagedFit
<1>1. CASE \E index \in temporary[p] :
             /\ temporary' = [temporary EXCEPT ![p] = @ \ {index}]
             /\ rollback_temporary(p, index)
             /\ UNCHANGED <<file, published, stuck, pubStep>>
  <2>0. PICK index \in temporary[p] :
          /\ temporary' = [temporary EXCEPT ![p] = @ \ {index}]
          /\ rollback_temporary(p, index)
    BY <1>1
  <2>n. index \in Nat
    BY <1>t DEF TypeOK
  <2>1. TypeOK'
    BY <1>1, <2>0, <2>n, <1>t DEF TypeOK, Paths, rollback_temporary
  <2>2. ASSUME NEW q \in Publishers, q # p
        PROVE  IndexFits(q)' /\ ListsFit(q)' /\ FilesFit(q)' /\ StagedFit(q)'
    BY <2>2, <2>0, <1>1, <1>t, SameFiles, UntouchedKeeps
       DEF Untouched, TypeOK, rollback_temporary
  <2>3. StagedFit(p)'
    <3>1. temporary'[p] = temporary[p] \ {index} /\ At(p, "rollback")'
      BY <2>0, <1>1, <1>a, <1>t DEF TypeOK, At
    <3>2. \/ staged'[p] = staged[p] \ {index} /\ kept'[p] = kept[p]
          \/ staged'[p] = staged[p] /\ kept'[p] = kept[p] \cup {index}
      BY <2>0, <1>t DEF TypeOK, rollback_temporary
    <3>3. QED
      BY <3>1, <3>2, <1>i DEF StagedFit, At
  <2>4. IndexFits(p)' /\ ListsFit(p)' /\ FilesFit(p)'
    BY <1>1, <1>a, <1>i, SameFiles DEF IndexFits, ListsFit, FilesFit, At
  <2>5. QED
    BY <2>1, <2>2, <2>3, <2>4
<1>2. CASE \E path \in published[p] :
             /\ temporary[p] = {}
             /\ published' = [published EXCEPT ![p] = @ \ {path}]
             /\ rollback_published(p, path)
             /\ UNCHANGED <<staged, temporary, kept, pubStep>>
  <2>0. PICK path \in published[p] :
          /\ published' = [published EXCEPT ![p] = @ \ {path}]
          /\ rollback_published(p, path)
          /\ UNCHANGED <<staged, temporary, kept, pubStep>>
    BY <1>2
  <2>p. path \in Paths /\ file[path] = p /\ Free \notin Publishers
    BY <1>i, PublisherAssumption DEF OwnFiles
  <2>1. TypeOK'
    <3>1. published' \in [Publishers -> SUBSET Paths]
      BY <2>0, <1>t DEF TypeOK
    <3>2. /\ file' \in [Paths -> Publishers \cup {Free}]
          /\ stuck' \in [Publishers -> SUBSET Paths]
      BY <2>0, <2>p, <1>t DEF TypeOK, rollback_published
    <3>3. QED
      BY <3>1, <3>2, <2>0, <1>t DEF TypeOK, Paths
  <2>2. ASSUME NEW q \in Publishers, q # p
        PROVE  IndexFits(q)' /\ ListsFit(q)' /\ FilesFit(q)' /\ StagedFit(q)'
    <3>1. OwnFiles(q)' = OwnFiles(q)
      BY <2>0, <2>p, <2>2, <1>t DEF OwnFiles, TypeOK, Paths, rollback_published
    <3>2. Untouched(p, q)
      BY <3>1, <2>0, <2>2, <1>t DEF Untouched, TypeOK, rollback_published
    <3>3. QED
      BY <3>2, UntouchedKeeps
  <2>3. published'[p] = published[p] \ {path}
    BY <2>0, <1>t DEF TypeOK
  <2>4. \/ OwnFiles(p)' = OwnFiles(p) \ {path} /\ stuck'[p] = stuck[p]
        \/ OwnFiles(p)' = OwnFiles(p) /\ stuck'[p] = stuck[p] \cup {path}
    <3>1. CASE file' = [file EXCEPT ![path] = Free] /\ UNCHANGED stuck
      BY <3>1, <2>p, <1>t DEF OwnFiles, TypeOK, Paths
    <3>2. CASE stuck' = [stuck EXCEPT ![p] = @ \cup {path}] /\ UNCHANGED file
      BY <3>2, <1>t, SameFiles DEF TypeOK
    <3>3. QED
      BY <3>1, <3>2, <2>0 DEF rollback_published
  <2>5. IndexFits(p)' /\ ListsFit(p)' /\ FilesFit(p)' /\ StagedFit(p)'
    BY <2>3, <2>4, <2>0, <1>a, <1>i DEF IndexFits, ListsFit, FilesFit, StagedFit, At
  <2>6. QED
    BY <2>1, <2>2, <2>5
<1>3. CASE /\ temporary[p] = {} /\ published[p] = {}
           /\ Goto(p, "failed", 1)
           /\ UNCHANGED <<file, staged, temporary, published, stuck, kept>>
  <2>1. TypeOK'
    BY <1>3, <1>t DEF TypeOK, Goto, Places, Paths
  <2>2. ASSUME NEW q \in Publishers, q # p
        PROVE  IndexFits(q)' /\ ListsFit(q)' /\ FilesFit(q)' /\ StagedFit(q)'
    BY <2>2, <1>3, <1>t, SameFiles, UntouchedKeeps DEF Untouched, Goto
  <2>3. IndexFits(p)' /\ ListsFit(p)' /\ FilesFit(p)' /\ StagedFit(p)'
    BY <1>3, <1>t, <1>i, SameFiles DEF Goto, IndexFits, ListsFit, FilesFit, StagedFit, At
  <2>4. QED
    BY <2>1, <2>2, <2>3
<1>4. QED
  BY <1>1, <1>2, <1>3 DEF Rollback

LEMMA PublisherStep == PublisherInv /\ [NextPublisher]_pubVars => PublisherInv'
<1> SUFFICES ASSUME PublisherInv, [NextPublisher]_pubVars PROVE PublisherInv'
  OBVIOUS
<1>1. CASE NextPublisher
  BY <1>1, QuietKeeps, LinkKeeps, RollbackKeeps DEF NextPublisher, Quiet
<1>2. CASE UNCHANGED pubVars
  <2>1. TypeOK'
    BY <1>2 DEF pubVars, PublisherInv, TypeOK, Paths
  <2>2. ASSUME NEW q \in Publishers
        PROVE  IndexFits(q)' /\ ListsFit(q)' /\ FilesFit(q)' /\ StagedFit(q)'
    BY <1>2, SameFiles, UntouchedKeeps DEF pubVars, PublisherInv, Untouched
  <2>3. QED
    BY <2>1, <2>2 DEF PublisherInv
<1>3. QED
  BY <1>1, <1>2

LEMMA PublisherSafe == PublisherInv => ArtifactSetWhole
<1> SUFFICES ASSUME PublisherInv, NEW p \in Publishers
             PROVE  /\ At(p, "done") => /\ OwnFiles(p) = Range(TargetsOf[p])
                                        /\ staged[p] = {}
                    /\ At(p, "failed") => /\ OwnFiles(p) \subseteq stuck[p]
                                          /\ staged[p] \subseteq kept[p]
  BY DEF ArtifactSetWhole
<1>1. ListsFit(p) /\ FilesFit(p) /\ StagedFit(p) /\ TargetsUpTo(p, Count(p)) = Range(TargetsOf[p])
  BY TargetInPaths DEF PublisherInv
<1>2. CASE At(p, "done")
  <2>1. /\ temporary[p] = {} /\ published[p] = TargetsUpTo(p, Count(p)) /\ stuck[p] = {}
        /\ ~At(p, "failed") /\ kept[p] = {}
    BY <1>1, <1>2 DEF ListsFit, FilesFit, StagedFit, At
  <2>2. OwnFiles(p) = published[p] /\ staged[p] = {}
    BY <1>1, <2>1 DEF FilesFit, StagedFit
  <2>3. QED
    BY <1>1, <2>1, <2>2
<1>3. CASE At(p, "failed")
  <2>1. temporary[p] = {} /\ published[p] = {} /\ ~At(p, "done")
    BY <1>1, <1>3 DEF ListsFit, At
  <2>2. OwnFiles(p) \subseteq stuck[p] /\ staged[p] \subseteq kept[p]
    BY <1>1, <2>1 DEF FilesFit, StagedFit
  <2>3. QED
    BY <2>1, <2>2
<1>4. QED
  BY <1>2, <1>3

\* publish_atomic_artifact_set is all or nothing for every number of engines,
\* every choice of (overlapping) target lists and every system call that
\* fails, the unlinks of the rollback included: success means that exactly the
\* set's files are the engine's and no temporary is left, failure that no
\* target and no temporary is, but for those whose last unlink failed.
THEOREM PublishIsAtomic == SpecPublisher => []ArtifactSetWhole
<1>1. SpecPublisher => []PublisherInv
  BY InitInv, PublisherStep, PTL DEF SpecPublisher
<1>2. QED
  BY <1>1, PublisherSafe, PTL
=============================================================================
