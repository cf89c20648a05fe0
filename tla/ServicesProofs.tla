--------------------------- MODULE ServicesProofs ---------------------------
(* Proofs about the components of MCServices, for every value of the           *)
(* constants. In each of its behaviours one component runs while the others    *)
(* stand still, so a step of MCNext is a step of that component or leaves its  *)
(* variables alone, and the component's own theorem carries over.              *)
EXTENDS MCServices, FiniteSetTheorems, SequenceTheorems, TLAPS

-----------------------------------------------------------------------------
(* RecordingFile: a reservation keeps everyone else from a name until its      *)
(* holder is through, and a file at a name keeps it from being reserved.       *)

\* From the reservation to its release.
Holding == {"reserved", "capturing", "sync", "discard", "link", "unstage",
            "syncDir", "failedToPublish", "release"}

\* A recorder without a reservation is as it was made, and every other has a name.
NamesAreSet == \A r \in Recorders :
    /\ recorder[r].pc = "new" => recorder[r] = New
    /\ recorder[r].pc # "new" => recorder[r].name \in Names

Holds(r) == r \in Recorders \ crashes /\ recorder[r].pc \in Holding

\* A name is held by one recorder of the process at a time, and nobody else's file is
\* there: finish may take what it finds at the name for its own.
NamesAreHeld ==
    /\ \A r \in Recorders : Holds(r) =>
        recorder[r].name \in reserved /\ shown[recorder[r].name] \in {None, r}
    /\ \A r, s \in Recorders : Holds(r) /\ Holds(s) /\ r # s =>
        recorder[r].name # recorder[s].name

\* The encoder is closed before the sync, the bytes are on disk before the link, and the
\* file is at its name from the link until the process dies.
StepsInOrder == \A r \in Recorders :
    /\ recorder[r].pc \in {"sync", "link", "unstage", "syncDir"} => recorder[r].closed
    /\ recorder[r].pc \in {"link", "unstage", "syncDir"} => r \in flushed
    /\ recorder[r].pc \in {"unstage", "syncDir"} /\ r \notin crashes =>
        shown[recorder[r].name] = r

\* What the directory shows was flushed whole, and what of the directory is on disk is
\* what it shows.
DiskIsShown ==
    /\ torn \subseteq crashes /\ torn \cap flushed = {}
    /\ \A n \in Names :
        /\ shown[n] # None => recorder[shown[n]].closed /\ shown[n] \in flushed
        /\ onDisk[n] # None => onDisk[n] = shown[n]

\* A recording told published is on disk under its name, one told finalized is shown there.
ToldIsTrue == \A r \in Recorders :
    /\ recorder[r].published => onDisk[recorder[r].name] = r
    /\ recorder[r].finalized /\ r \notin crashes => shown[recorder[r].name] = r

FileInv == TypeOK /\ NamesAreSet /\ NamesAreHeld /\ StepsInOrder /\ DiskIsShown /\ ToldIsTrue

LEMMA FileInvInit == Init => FileInv
  BY DEF Init, FileInv, TypeOK, RecorderType, New, NamesAreSet, NamesAreHeld, Holds,
         Holding, StepsInOrder, DiskIsShown, ToldIsTrue

-----------------------------------------------------------------------------
\* A recorder's own step, whichever.
RecorderStep(r) ==
    \/ Reserve(r) \/ Stage(r) \/ Write(r) \/ CaptureEnds(r) \/ Discard(r) \/ Sync(r)
    \/ Link(r) \/ Unstage(r) \/ SyncDir(r) \/ PublishFailed(r) \/ Release(r)

\* What a step does to its recorder's record, in one piece.
Becomes(r, rec) == rec \in RecorderType /\ recorder' = [recorder EXCEPT ![r] = rec]

LEMMA RecorderMoves ==
    ASSUME TypeOK, NEW r \in Recorders, NEW pc \in {"reserved", "capturing", "sync", "discard",
             "link", "unstage", "syncDir", "failedToPublish", "release", "failed", "done"},
           Goto(r, pc)
    PROVE  Becomes(r, [recorder[r] EXCEPT !.pc = pc])
<1>1. recorder[r] \in RecorderType
  BY DEF TypeOK
<1>2. [recorder[r] EXCEPT !.pc = pc] \in RecorderType
  BY <1>1 DEF RecorderType
<1> QED
  BY <1>2 DEF Becomes, Goto

LEMMA RecorderAt ==
    ASSUME TypeOK, NEW r \in Recorders, NEW pc \in {"reserved", "capturing", "sync", "discard",
             "link", "unstage", "syncDir", "failedToPublish", "release", "failed", "done"},
           Goto(r, pc)
    PROVE  recorder'[r].pc = pc
<1>1. recorder' = [recorder EXCEPT ![r] = [recorder[r] EXCEPT !.pc = pc]]
  BY RecorderMoves DEF Becomes
<1>2. recorder'[r] = [recorder[r] EXCEPT !.pc = pc]
  BY <1>1 DEF TypeOK
<1> QED
  BY <1>2 DEF TypeOK, RecorderType

\* Apart from the three steps that take a name, show a file and flush the directory, a
\* step only moves its recorder on, flushes its file or gives its name back.
LEMMA FileMoves ==
    ASSUME FileInv, NEW r \in Recorders \ crashes, NEW rec, Becomes(r, rec),
           recorder[r].pc \in Holding, rec.pc # "new", rec.name = recorder[r].name,
           recorder[r].closed => rec.closed,
           UNCHANGED <<shown, onDisk, torn, crashes>>,
           flushed' = flushed \/ flushed' = flushed \cup {r},
           \/ reserved' = reserved
           \/ reserved' = reserved \ {rec.name} /\ rec.pc \notin Holding,
           rec.pc \in {"sync", "link", "unstage", "syncDir"} => rec.closed,
           rec.pc \in {"link", "unstage", "syncDir"} => r \in flushed',
           rec.pc \in {"unstage", "syncDir"} => shown[rec.name] = r,
           rec.published => onDisk[rec.name] = r,
           rec.finalized => shown[rec.name] = r
    PROVE  NamesAreSet' /\ NamesAreHeld' /\ StepsInOrder' /\ DiskIsShown' /\ ToldIsTrue'
<1>1. /\ recorder'[r] = rec /\ \A s \in Recorders \ {r} : recorder'[s] = recorder[s]
      /\ \A n \in Names : shown[n] \in Recorders \cup {None}
  BY DEF Becomes, FileInv, TypeOK
<1>2. recorder[r].name \in Names
  BY DEF FileInv, NamesAreSet, Holding
<1>3. NamesAreSet'
  BY <1>1, <1>2 DEF FileInv, NamesAreSet
<1>4. NamesAreHeld'
  <2>1. ASSUME NEW s \in Recorders, Holds(s)'
        PROVE  Holds(s) /\ recorder'[s].name = recorder[s].name
    BY <1>1, <2>1 DEF Holds
  <2>2. ASSUME NEW s \in Recorders, Holds(s)'
        PROVE  recorder'[s].name \in reserved' /\ shown'[recorder'[s].name] \in {None, s}
    BY <1>1, <2>1, <2>2 DEF FileInv, NamesAreHeld, Holds
  <2> QED
    BY <2>1, <2>2 DEF FileInv, NamesAreHeld
<1>5. StepsInOrder'
  BY <1>1 DEF FileInv, StepsInOrder
<1>6. DiskIsShown'
  BY <1>1 DEF FileInv, DiskIsShown
<1>7. ToldIsTrue'
  BY <1>1 DEF FileInv, ToldIsTrue
<1> QED
  BY <1>3, <1>4, <1>5, <1>6, <1>7

LEMMA FileInvStep == ASSUME FileInv, [Next]_vars PROVE FileInv'
<1> USE DEF FileInv
<1>1. ASSUME NEW r \in Recorders, RecorderStep(r) PROVE FileInv'
  <2> DEFINE Rest == NamesAreSet /\ NamesAreHeld /\ StepsInOrder /\ DiskIsShown /\ ToldIsTrue
  <2>1. recorder[r] \in RecorderType
    BY DEF TypeOK
  <2>2. CASE Reserve(r)
    <3>1. PICK n \in Names : ~Taken(n) /\ reserved' = reserved \cup {n}
             /\ recorder' = [recorder EXCEPT ![r] = [@ EXCEPT !.pc = "reserved", !.name = n]]
      BY <2>2 DEF Reserve
    <3>2. UNCHANGED <<files, crashes>> /\ recorder[r] = New /\ r \notin crashes
      BY <2>2 DEF Reserve, At, NamesAreSet
    <3> DEFINE rec == [New EXCEPT !.pc = "reserved", !.name = n]
    <3>3. Becomes(r, rec)
      BY <3>1, <3>2 DEF Becomes, RecorderType, New
    <3>4. rec = [New EXCEPT !.pc = "reserved", !.name = n]
      OBVIOUS
    <3> HIDE DEF rec
    <3>5. TypeOK'
      BY <3>1, <3>2, <3>3 DEF TypeOK, Becomes, files
    <3>6. /\ recorder'[r] = rec /\ \A s \in Recorders \ {r} : recorder'[s] = recorder[s]
          /\ rec.pc = "reserved" /\ rec.name = n /\ ~rec.closed /\ ~rec.published /\ ~rec.finalized
          /\ ~recorder[r].closed /\ recorder[r].pc = "new"
      BY <3>2, <3>3, <3>4 DEF Becomes, TypeOK, New
    <3>7. NamesAreSet' /\ StepsInOrder' /\ DiskIsShown'
      BY <3>2, <3>6 DEF TypeOK, NamesAreSet, StepsInOrder, DiskIsShown, files
    <3>8. NamesAreHeld'
      BY <3>1, <3>2, <3>6 DEF NamesAreHeld, Holds, Holding, files, Taken
    <3>9. ToldIsTrue'
      BY <3>2, <3>6 DEF ToldIsTrue, files
    <3> QED
      BY <3>5, <3>7, <3>8, <3>9
  <2>3. CASE Write(r)
    <3>1. recorder[r].pc = "capturing" /\ r \notin crashes
      BY <2>3 DEF Write, At
    <3> DEFINE rec == [recorder[r] EXCEPT !.wrote = TRUE]
    <3>2. Becomes(r, rec)
      BY <2>3, <2>1 DEF Write, Becomes, RecorderType
    <3>3. /\ rec.pc = "capturing" /\ rec.name = recorder[r].name
          /\ rec.closed = recorder[r].closed
          /\ rec.published = recorder[r].published /\ rec.finalized = recorder[r].finalized
      BY <2>1, <3>1 DEF RecorderType
    <3> HIDE DEF rec
    <3>4. Rest'
      BY <2>3, <3>1, <3>2, <3>3, FileMoves DEF Write, Holding, ToldIsTrue, StepsInOrder, files
    <3>5. TypeOK'
      BY <2>3, <3>2 DEF Write, TypeOK, Becomes, files
    <3> QED
      BY <3>4, <3>5
  <2>4. CASE Stage(r) /\ Goto(r, "capturing")
    <3>1. recorder[r].pc = "reserved" /\ r \notin crashes
      BY <2>4 DEF Stage, At
    <3> DEFINE rec == [recorder[r] EXCEPT !.pc = "capturing"]
    <3>2. Becomes(r, rec)
      BY <2>4, RecorderMoves DEF Stage
    <3>3. /\ rec.pc = "capturing" /\ rec.name = recorder[r].name
          /\ rec.closed = recorder[r].closed
          /\ rec.published = recorder[r].published /\ rec.finalized = recorder[r].finalized
      BY <2>1, <3>1 DEF RecorderType
    <3> HIDE DEF rec
    <3>4. reserved' = reserved
      BY <2>4, RecorderAt DEF Stage, At
    <3>5. Rest'
      BY <2>4, <3>1, <3>2, <3>3, <3>4, FileMoves DEF Stage, Holding, ToldIsTrue, StepsInOrder
    <3>6. TypeOK'
      BY <2>4, <3>2 DEF Stage, TypeOK, Becomes
    <3> QED
      BY <3>5, <3>6
  <2>5. CASE Stage(r) /\ Goto(r, "failed")
    <3>1. recorder[r].pc = "reserved" /\ r \notin crashes
      BY <2>5 DEF Stage, At
    <3> DEFINE rec == [recorder[r] EXCEPT !.pc = "failed"]
    <3>2. Becomes(r, rec)
      BY <2>5, RecorderMoves DEF Stage
    <3>3. /\ rec.pc = "failed" /\ rec.name = recorder[r].name
          /\ rec.closed = recorder[r].closed
          /\ rec.published = recorder[r].published /\ rec.finalized = recorder[r].finalized
      BY <2>1, <3>1 DEF RecorderType
    <3> HIDE DEF rec
    <3>4. Rest'
      BY <2>5, <3>1, <3>2, <3>3, FileMoves DEF Stage, Holding, ToldIsTrue, StepsInOrder
    <3>5. TypeOK'
      BY <2>5, <3>2 DEF Stage, TypeOK, Becomes
    <3> QED
      BY <3>4, <3>5
  <2>6. CASE CaptureEnds(r) /\ Goto(r, "discard")
    <3>1. recorder[r].pc = "capturing" /\ r \notin crashes
      BY <2>6 DEF CaptureEnds, At
    <3> DEFINE rec == [recorder[r] EXCEPT !.pc = "discard"]
    <3>2. Becomes(r, rec)
      BY <2>6, RecorderMoves DEF CaptureEnds
    <3>3. /\ rec.pc = "discard" /\ rec.name = recorder[r].name
          /\ rec.closed = recorder[r].closed
          /\ rec.published = recorder[r].published /\ rec.finalized = recorder[r].finalized
      BY <2>1, <3>1 DEF RecorderType
    <3> HIDE DEF rec
    <3>4. Rest'
      BY <2>6, <3>1, <3>2, <3>3, FileMoves
         DEF CaptureEnds, Holding, ToldIsTrue, StepsInOrder, files
    <3>5. TypeOK'
      BY <2>6, <3>2 DEF CaptureEnds, TypeOK, Becomes, files
    <3> QED
      BY <3>4, <3>5
  <2>7. CASE /\ CaptureEnds(r)
          /\ recorder' = [recorder EXCEPT ![r] = [@ EXCEPT !.pc = "sync", !.closed = TRUE]]
    <3>1. recorder[r].pc = "capturing" /\ r \notin crashes
      BY <2>7 DEF CaptureEnds, At
    <3> DEFINE rec == [recorder[r] EXCEPT !.pc = "sync", !.closed = TRUE]
    <3>2. Becomes(r, rec)
      BY <2>7, <2>1 DEF CaptureEnds, Becomes, RecorderType
    <3>3. /\ rec.pc = "sync" /\ rec.name = recorder[r].name /\ rec.closed = TRUE
          /\ rec.published = recorder[r].published /\ rec.finalized = recorder[r].finalized
      BY <2>1, <3>1 DEF RecorderType
    <3> HIDE DEF rec
    <3>4. Rest'
      BY <2>7, <3>1, <3>2, <3>3, FileMoves
         DEF CaptureEnds, Holding, ToldIsTrue, StepsInOrder, files
    <3>5. TypeOK'
      BY <2>7, <3>2 DEF CaptureEnds, TypeOK, Becomes, files
    <3> QED
      BY <3>4, <3>5
  <2>8. CASE Discard(r) /\ Goto(r, "release")
    <3>1. recorder[r].pc = "discard" /\ r \notin crashes
      BY <2>8 DEF Discard, At
    <3> DEFINE rec == [recorder[r] EXCEPT !.pc = "release"]
    <3>2. Becomes(r, rec)
      BY <2>8, RecorderMoves DEF Discard
    <3>3. /\ rec.pc = "release" /\ rec.name = recorder[r].name
          /\ rec.closed = recorder[r].closed
          /\ rec.published = recorder[r].published /\ rec.finalized = recorder[r].finalized
      BY <2>1, <3>1 DEF RecorderType
    <3> HIDE DEF rec
    <3>4. Rest'
      BY <2>8, <3>1, <3>2, <3>3, FileMoves DEF Discard, Holding, ToldIsTrue, StepsInOrder
    <3>5. TypeOK'
      BY <2>8, <3>2 DEF Discard, TypeOK, Becomes
    <3> QED
      BY <3>4, <3>5
  <2>9. CASE Sync(r) /\ Goto(r, "link")
    <3>1. recorder[r].pc = "sync" /\ r \notin crashes
      BY <2>9 DEF Sync, At
    <3> DEFINE rec == [recorder[r] EXCEPT !.pc = "link"]
    <3>2. Becomes(r, rec)
      BY <2>9, RecorderMoves DEF Sync
    <3>3. /\ rec.pc = "link" /\ rec.name = recorder[r].name
          /\ rec.closed = recorder[r].closed
          /\ rec.published = recorder[r].published /\ rec.finalized = recorder[r].finalized
      BY <2>1, <3>1 DEF RecorderType
    <3> HIDE DEF rec
    <3>4. flushed' = flushed \cup {r}
      BY <2>9, RecorderAt DEF Sync, At
    <3>5. Rest'
      BY <2>9, <3>1, <3>2, <3>3, <3>4, FileMoves DEF Sync, Holding, ToldIsTrue, StepsInOrder
    <3>6. TypeOK'
      BY <2>9, <3>2 DEF Sync, TypeOK, Becomes
    <3> QED
      BY <3>5, <3>6
  <2>10. CASE Sync(r) /\ Goto(r, "failedToPublish")
    <3>1. recorder[r].pc = "sync" /\ r \notin crashes
      BY <2>10 DEF Sync, At
    <3> DEFINE rec == [recorder[r] EXCEPT !.pc = "failedToPublish"]
    <3>2. Becomes(r, rec)
      BY <2>10, RecorderMoves DEF Sync
    <3>3. /\ rec.pc = "failedToPublish" /\ rec.name = recorder[r].name
          /\ rec.closed = recorder[r].closed
          /\ rec.published = recorder[r].published /\ rec.finalized = recorder[r].finalized
      BY <2>1, <3>1 DEF RecorderType
    <3> HIDE DEF rec
    <3>4. Rest'
      BY <2>10, <3>1, <3>2, <3>3, FileMoves DEF Sync, Holding, ToldIsTrue, StepsInOrder
    <3>5. TypeOK'
      BY <2>10, <3>2 DEF Sync, TypeOK, Becomes
    <3> QED
      BY <3>4, <3>5
  <2>11. CASE Link(r) /\ Goto(r, "failedToPublish")
    <3>1. recorder[r].pc = "link" /\ r \notin crashes
      BY <2>11 DEF Link, At
    <3> DEFINE rec == [recorder[r] EXCEPT !.pc = "failedToPublish"]
    <3>2. Becomes(r, rec)
      BY <2>11, RecorderMoves DEF Link
    <3>3. /\ rec.pc = "failedToPublish" /\ rec.name = recorder[r].name
          /\ rec.closed = recorder[r].closed
          /\ rec.published = recorder[r].published /\ rec.finalized = recorder[r].finalized
      BY <2>1, <3>1 DEF RecorderType
    <3> HIDE DEF rec
    <3>4. shown' = shown
      BY <2>11, RecorderAt DEF Link, At
    <3>5. Rest'
      BY <2>11, <3>1, <3>2, <3>3, <3>4, FileMoves DEF Link, Holding, ToldIsTrue, StepsInOrder
    <3>6. TypeOK'
      BY <2>11, <3>2 DEF Link, TypeOK, Becomes
    <3> QED
      BY <3>5, <3>6
  <2>12. CASE Unstage(r) /\ Goto(r, "syncDir")
    <3>1. recorder[r].pc = "unstage" /\ r \notin crashes
      BY <2>12 DEF Unstage, At
    <3> DEFINE rec == [recorder[r] EXCEPT !.pc = "syncDir"]
    <3>2. Becomes(r, rec)
      BY <2>12, RecorderMoves DEF Unstage
    <3>3. /\ rec.pc = "syncDir" /\ rec.name = recorder[r].name
          /\ rec.closed = recorder[r].closed
          /\ rec.published = recorder[r].published /\ rec.finalized = recorder[r].finalized
      BY <2>1, <3>1 DEF RecorderType
    <3> HIDE DEF rec
    <3>4. Rest'
      BY <2>12, <3>1, <3>2, <3>3, FileMoves DEF Unstage, Holding, ToldIsTrue, StepsInOrder
    <3>5. TypeOK'
      BY <2>12, <3>2 DEF Unstage, TypeOK, Becomes
    <3> QED
      BY <3>4, <3>5
  <2>13. CASE Unstage(r) /\ Goto(r, "failedToPublish")
    <3>1. recorder[r].pc = "unstage" /\ r \notin crashes
      BY <2>13 DEF Unstage, At
    <3> DEFINE rec == [recorder[r] EXCEPT !.pc = "failedToPublish"]
    <3>2. Becomes(r, rec)
      BY <2>13, RecorderMoves DEF Unstage
    <3>3. /\ rec.pc = "failedToPublish" /\ rec.name = recorder[r].name
          /\ rec.closed = recorder[r].closed
          /\ rec.published = recorder[r].published /\ rec.finalized = recorder[r].finalized
      BY <2>1, <3>1 DEF RecorderType
    <3> HIDE DEF rec
    <3>4. Rest'
      BY <2>13, <3>1, <3>2, <3>3, FileMoves DEF Unstage, Holding, ToldIsTrue, StepsInOrder
    <3>5. TypeOK'
      BY <2>13, <3>2 DEF Unstage, TypeOK, Becomes
    <3> QED
      BY <3>4, <3>5
  <2>14. CASE SyncDir(r) /\ Goto(r, "failedToPublish")
    <3>1. recorder[r].pc = "syncDir" /\ r \notin crashes
      BY <2>14 DEF SyncDir, At
    <3> DEFINE rec == [recorder[r] EXCEPT !.pc = "failedToPublish"]
    <3>2. Becomes(r, rec)
      BY <2>14, RecorderMoves DEF SyncDir
    <3>3. /\ rec.pc = "failedToPublish" /\ rec.name = recorder[r].name
          /\ rec.closed = recorder[r].closed
          /\ rec.published = recorder[r].published /\ rec.finalized = recorder[r].finalized
      BY <2>1, <3>1 DEF RecorderType
    <3> HIDE DEF rec
    <3>4. onDisk' = onDisk
      BY <2>14, RecorderAt DEF SyncDir, At, TypeOK, RecorderType
    <3>5. Rest'
      BY <2>14, <3>1, <3>2, <3>3, <3>4, FileMoves DEF SyncDir, Holding, ToldIsTrue, StepsInOrder
    <3>6. TypeOK'
      BY <2>14, <3>2 DEF SyncDir, TypeOK, Becomes
    <3> QED
      BY <3>5, <3>6
  <2>15. CASE Release(r) /\ Goto(r, "done")
    <3>1. recorder[r].pc = "release" /\ r \notin crashes
      BY <2>15 DEF Release, At
    <3> DEFINE rec == [recorder[r] EXCEPT !.pc = "done"]
    <3>2. Becomes(r, rec)
      BY <2>15, RecorderMoves DEF Release
    <3>3. /\ rec.pc = "done" /\ rec.name = recorder[r].name
          /\ rec.closed = recorder[r].closed
          /\ rec.published = recorder[r].published /\ rec.finalized = recorder[r].finalized
      BY <2>1, <3>1 DEF RecorderType
    <3> HIDE DEF rec
    <3>4. Rest'
      BY <2>15, <3>1, <3>2, <3>3, FileMoves
         DEF Release, Holding, ToldIsTrue, StepsInOrder, files
    <3>5. TypeOK'
      BY <2>15, <3>2 DEF Release, TypeOK, Becomes, files
    <3> QED
      BY <3>4, <3>5
  <2>16. CASE Link(r) /\ Goto(r, "unstage")
    <3>1. /\ recorder[r].pc = "link" /\ r \notin crashes /\ recorder[r].name \in Names
          /\ recorder[r].closed /\ r \in flushed
      BY <2>16 DEF Link, At, NamesAreSet, StepsInOrder
    <3>2. Becomes(r, [recorder[r] EXCEPT !.pc = "unstage"])
      BY <2>16, RecorderMoves
    <3>3. /\ recorder'[r].pc = "unstage" /\ recorder'[r].name = recorder[r].name
          /\ recorder'[r].closed /\ recorder'[r].published = recorder[r].published
          /\ recorder'[r].finalized = recorder[r].finalized
          /\ \A s \in Recorders \ {r} : recorder'[s] = recorder[s]
      BY <2>1, <3>1, <3>2 DEF Becomes, TypeOK, RecorderType
    <3>4. /\ shown[recorder[r].name] = None
          /\ shown' = [shown EXCEPT ![recorder[r].name] = r]
          /\ UNCHANGED <<reserved, onDisk, flushed, torn, crashes, staging>>
      BY <2>16, RecorderAt DEF Link, At
    <3>5. TypeOK'
      BY <3>2, <3>4 DEF TypeOK, Becomes
    <3>6. /\ shown'[recorder[r].name] = r
          /\ \A n \in Names \ {recorder[r].name} : shown'[n] = shown[n]
      BY <3>1, <3>4 DEF TypeOK
    <3>7. NamesAreSet' /\ StepsInOrder'
      BY <3>1, <3>3, <3>4, <3>6, RecordingFileAssumption DEF NamesAreSet, StepsInOrder
    <3>8. NamesAreHeld'
      <4>1. ASSUME NEW s \in Recorders, Holds(s)'
            PROVE  /\ Holds(s) /\ recorder'[s].name = recorder[s].name
                   /\ recorder[s].name \in Names
        BY <3>1, <3>3, <3>4, <4>1 DEF Holds, Holding, NamesAreSet
      <4> QED
        BY <3>1, <3>4, <3>6, <4>1 DEF NamesAreHeld, Holds, Holding
    <3>9. DiskIsShown'
      BY <3>1, <3>3, <3>4, <3>6 DEF DiskIsShown, TypeOK
    <3>10. ToldIsTrue'
      BY <3>1, <3>3, <3>4, <3>6, RecordingFileAssumption DEF ToldIsTrue, NamesAreSet, New
    <3> QED
      BY <3>5, <3>7, <3>8, <3>9, <3>10
  <2>17. CASE SyncDir(r) /\ onDisk' = shown /\ recorder' = [recorder EXCEPT ![r] = [@ EXCEPT
            !.pc = "release", !.finalized = TRUE, !.published = TRUE]]
    <3>1. /\ recorder[r].pc = "syncDir" /\ r \notin crashes
          /\ UNCHANGED <<reserved, shown, staging, flushed, torn, crashes>>
      BY <2>17 DEF SyncDir, At
    <3> DEFINE rec == [recorder[r] EXCEPT !.pc = "release", !.finalized = TRUE, !.published = TRUE]
    <3>2. Becomes(r, rec)
      BY <2>17, <2>1 DEF Becomes, RecorderType
    <3>3. rec.pc = "release" /\ rec.name = recorder[r].name /\ rec.closed = recorder[r].closed
      BY <2>1 DEF RecorderType
    <3> HIDE DEF rec
    <3>4. recorder'[r] = rec /\ \A s \in Recorders \ {r} : recorder'[s] = recorder[s]
      BY <3>2 DEF Becomes, TypeOK
    <3>5. TypeOK'
      BY <2>17, <3>1, <3>2 DEF TypeOK, Becomes
    <3>6. NamesAreSet' /\ NamesAreHeld' /\ StepsInOrder'
      BY <3>1, <3>3, <3>4 DEF NamesAreSet, NamesAreHeld, Holds, Holding, StepsInOrder
    <3>7. DiskIsShown'
      BY <2>17, <3>1, <3>3, <3>4 DEF DiskIsShown, TypeOK
    <3>8. ToldIsTrue'
      BY <2>17, <3>1, <3>3, <3>4, RecordingFileAssumption
         DEF ToldIsTrue, StepsInOrder, DiskIsShown, NamesAreSet, New
    <3> QED
      BY <3>5, <3>6, <3>7, <3>8
  <2>18. CASE PublishFailed(r)
    <3>1. /\ recorder[r].pc = "failedToPublish" /\ r \notin crashes
          /\ UNCHANGED <<reserved, files, crashes>>
          /\ shown[recorder[r].name] \in {None, r}
      BY <2>18 DEF PublishFailed, At, NamesAreHeld, Holds, Holding
    <3> DEFINE rec == [recorder[r] EXCEPT
            !.pc = "release", !.finalized = shown[recorder[r].name] # None]
    <3>2. Becomes(r, rec)
      BY <2>18, <2>1 DEF PublishFailed, Becomes, RecorderType
    <3>3. /\ rec.pc = "release" /\ rec.name = recorder[r].name
          /\ rec.closed = recorder[r].closed /\ rec.published = recorder[r].published
          /\ (rec.finalized => shown[rec.name] # None)
      BY <2>1 DEF RecorderType
    <3> HIDE DEF rec
    <3>4. Rest'
      BY <3>1, <3>2, <3>3, FileMoves DEF Holding, ToldIsTrue, files
    <3>5. TypeOK'
      BY <3>1, <3>2 DEF TypeOK, Becomes, files
    <3> QED
      BY <3>4, <3>5
  <2> QED
    BY <1>1, <2>2, <2>3, <2>4, <2>5, <2>6, <2>7, <2>8, <2>9, <2>10,
       <2>11, <2>12, <2>13, <2>14, <2>15, <2>16, <2>17, <2>18
       DEF RecorderStep, Stage, CaptureEnds, Discard, Sync, Link, Unstage, SyncDir, Release
<1>2. CASE Crash
  <2>1. PICK kept \in SUBSET Names, lost \in SUBSET (crashes' \ flushed) :
          /\ shown' = [n \in Names |-> IF n \in kept THEN shown[n] ELSE onDisk[n]]
          /\ onDisk' = shown' /\ torn' = torn \cup lost
    BY <1>2 DEF Crash
  <2>2. /\ crashes' = crashes \cup {r \in Recorders : recorder[r].pc # "new"} /\ reserved' = {}
        /\ UNCHANGED <<staging, flushed, recorder>>
    BY <1>2 DEF Crash
  <2>3. TypeOK'
    BY <2>1, <2>2 DEF TypeOK
  <2>4. NamesAreSet' /\ NamesAreHeld' /\ StepsInOrder'
    BY <2>1, <2>2 DEF NamesAreSet, NamesAreHeld, Holds, Holding, StepsInOrder
  <2>5. DiskIsShown'
    BY <2>1, <2>2 DEF DiskIsShown, TypeOK
  <2>6. ToldIsTrue'
    BY <2>1, <2>2, RecordingFileAssumption DEF ToldIsTrue, DiskIsShown, TypeOK, NamesAreSet, New
  <2> QED
    BY <2>3, <2>4, <2>5, <2>6
<1>3. CASE UNCHANGED vars
  BY <1>3
     DEF vars, TypeOK, NamesAreSet, NamesAreHeld, Holds, StepsInOrder, DiskIsShown, ToldIsTrue
<1> QED
  BY <1>1, <1>2, <1>3 DEF Next, RecorderStep

LEMMA WholeFromInv == FileInv => RecordingsAreWhole
  BY RecordingFileAssumption
     DEF FileInv, RecordingsAreWhole, TypeOK, NamesAreSet, New, DiskIsShown, ToldIsTrue

\* Whatever names are taken, whatever fails and whenever the process dies, a file under a
\* recording's name is that recording, whole, and one told published outlives the crash
\* (recorder_durable.go, path_reserve.go).
THEOREM RecordingsStayWhole == Spec => [](TypeOK /\ RecordingsAreWhole)
<1>1. FileInv => TypeOK /\ RecordingsAreWhole
  BY WholeFromInv DEF FileInv
<1> QED
  BY FileInvInit, FileInvStep, <1>1, PTL DEF Spec

-----------------------------------------------------------------------------
\* A step of the composition is a step of the recordings or none of their variables.
LEMMA FileSteps ==
    ASSUME [MCNext]_<<active, vars, trunkVars, registrarVars, recordingVars, streamVars>>
    PROVE  [Next]_vars
  BY DEF MCNext

\* The same of the composition of the services (recorder_durable.go, path_reserve.go).
THEOREM FilesStayWhole == MCSpec => []FilesAreWhole
<1>1. MCInit => Init
  BY DEF MCInit
<1>2. MCSpec => Spec
  BY <1>1, FileSteps, PTL DEF MCSpec, Spec
<1>3. TypeOK /\ RecordingsAreWhole => FilesAreWhole
  BY DEF FilesAreWhole
<1> QED
  BY <1>2, <1>3, RecordingsStayWhole, PTL

-----------------------------------------------------------------------------
(* Recording: a recording is started alone, and whoever takes part in one, or  *)
(* ends it, knows what the others left it.                                     *)

Runs(r, p) == track[r][p].state = "running"
Resting == RoomRecording!Idle

\* Nothing was done for this recording but its mix.
Fresh(r) ==
    /\ ~mix[r].paused
    /\ ~multi[r].active /\ ~multi[r].paused
    /\ multi[r].order = {} /\ multi[r].asked = {} /\ multi[r].inputs = None
    /\ \A p \in Parties : track[r][p].state = "none"

NewAreFresh == \A r \in Recordings : mix[r].state = "new" => Fresh(r) /\ mixing # r

\* Nothing else is under way while a recording is started...
StartsAlone == starting # Resting =>
    /\ pausing = Resting
    /\ \A p \in Parties : joining[p] = None /\ leaving[p] = Resting
    /\ \A f \in RoomRecording!Finishers : finish[f] = Resting

\* ... which is on no map before it is registered.
StartKnows == starting # Resting =>
    /\ starting.rec \in Recordings /\ mix[starting.rec].state # "new"
    /\ starting.todo \subseteq present
    /\ starting.at = "tracks" => tracking = starting.rec
    /\ starting.at # "tracks" =>
          /\ starting.at \in {"register", "multi"}
          /\ Fresh(starting.rec) /\ tracking = None /\ starting.todo = present
          /\ mixing = (IF starting.at = "multi" THEN starting.rec ELSE None)

TrackingIsMixed ==
    /\ tracking # None => mixing = tracking
    /\ \A r \in Recordings : multi[r].active <=> tracking = r

FinishersKnow == \A f \in RoomRecording!Finishers :
    /\ finish[f].at \in {"stop", "mix"} => tracking = None
    /\ finish[f].at = "stop" => finish[f].rec \in Recordings /\ mix[finish[f].rec].state # "new"

\* A party joins or leaves, one at a time, and judges the room empty last.
MoversKnow == \A p \in Parties :
    /\ joining[p] # None => p \in present /\ leaving[p] = Resting
    /\ leaving[p] # Resting => finish[p] = Resting

\* A track that runs is a present party's, or some finisher's to stop.
StopIsDue(r, p) == \E f \in RoomRecording!Finishers :
    finish[f].at = "stop" /\ finish[f].rec = r /\ p \in finish[f].todo

TracksAreHeld == \A r \in Recordings, p \in Parties : Runs(r, p) =>
    \/ tracking = r /\ p \in present /\ recordTap[p] = r /\ leaving[p] = Resting
    \/ StopIsDue(r, p)

\* Whoever is in the room was asked for a track, or is about to be.
PresentAreAsked == \A r \in Recordings :
    /\ multi[r].order = multi[r].asked
    /\ \A p \in Parties : Runs(r, p) => p \in multi[r].asked
    /\ tracking = r => \A p \in present :
          \/ p \in multi[r].asked \/ joining[p] = r
          \/ starting.at = "tracks" /\ p \in starting.todo

\* A pause reaches the mix, the recording's state and its tracks in this order.
PausesMatch == \A r \in Recordings : tracking = r =>
    /\ pausing.rec \in {None, r}
    /\ pausing = Resting => multi[r].paused = mix[r].paused
    /\ pausing # Resting =>
          pausing.at \in {"pause", "resume"} /\ mix[r].paused = (pausing.at = "pause")
    /\ pausing.rec # None => multi[r].paused = (pausing.at = "pause")
    /\ \A p \in Parties : Runs(r, p) /\ (pausing.rec = None \/ p \notin pausing.todo)
          => track[r][p].paused = multi[r].paused

InputsAreFiled == \A r \in Recordings : multi[r].inputs # None =>
    /\ ~multi[r].active /\ multi[r].inputs \subseteq multi[r].order
    /\ \A p \in multi[r].inputs : track[r][p].state = "filed"

RecordingInv ==
    /\ RoomRecording!TypeOK /\ NewAreFresh /\ StartsAlone /\ StartKnows /\ TrackingIsMixed
    /\ FinishersKnow /\ MoversKnow /\ TracksAreHeld /\ PresentAreAsked /\ PausesMatch
    /\ InputsAreFiled

MixRecords == [state : {"new", "running", "stopped"}, source : Parties \cup {None},
               paused : BOOLEAN]
MultiRecords == [active : BOOLEAN, paused : BOOLEAN, order : SUBSET Parties,
                 asked : SUBSET Parties, inputs : (SUBSET Parties) \cup {None}]
TrackRecords == [state : {"none", "running", "stopping", "filed", "lost"}, paused : BOOLEAN]
Tracks == [Recordings -> [Parties -> TrackRecords]]

LEMMA RestingFacts ==
    /\ Resting \in RoomRecording!Thread
    /\ Resting.at = "idle" /\ Resting.rec = None /\ Resting.todo = {} /\ Resting.waits = {}
  BY DEF Resting, RoomRecording!Idle, RoomRecording!Thread

\* What a thread is after it went on.
LEMMA ThreadAt ==
    ASSUME NEW t \in RoomRecording!Thread,
           NEW a \in {"idle", "register", "multi", "tracks", "remove", "judge", "take", "stop",
                      "mix", "pause", "resume"}
    PROVE  LET u == [t EXCEPT !.at = a] IN
           /\ u \in RoomRecording!Thread /\ u.at = a
           /\ u.rec = t.rec /\ u.todo = t.todo /\ u.waits = t.waits
  BY DEF RoomRecording!Thread

LEMMA ThreadTodo ==
    ASSUME NEW t \in RoomRecording!Thread, NEW d \in SUBSET Parties
    PROVE  LET u == [t EXCEPT !.todo = d] IN
           /\ u \in RoomRecording!Thread /\ u.at = t.at
           /\ u.rec = t.rec /\ u.todo = d /\ u.waits = t.waits
  BY DEF RoomRecording!Thread

\* What startLeg does: nothing, or the party is asked for, whose track may fail to start.
LEMMA StartLegFacts ==
    ASSUME RoomRecording!TypeOK, NEW r \in Recordings, NEW p \in Parties,
           RoomRecording!StartLeg(r, p)
    PROVE  /\ recordTap' \in [Parties -> Recordings \cup {None}]
           /\ multi' \in [Recordings -> MultiRecords] /\ track' \in Tracks
           /\ \/ UNCHANGED <<recordTap, multi, track>> /\ (~multi[r].active \/ Runs(r, p))
              \/ /\ multi[r].active /\ ~Runs(r, p)
                 /\ multi'[r].order = multi[r].order \cup {p}
                 /\ multi'[r].asked = multi[r].asked \cup {p}
                 /\ multi'[r].active = multi[r].active /\ multi'[r].paused = multi[r].paused
                 /\ multi'[r].inputs = multi[r].inputs
                 /\ \A s \in Recordings \ {r} : multi'[s] = multi[s] /\ track'[s] = track[s]
                 /\ \A q \in Parties \ {p} :
                       track'[r][q] = track[r][q] /\ recordTap'[q] = recordTap[q]
                 /\ \/ /\ track'[r][p] = [state |-> "running", paused |-> multi[r].paused]
                       /\ p \in present => recordTap'[p] = r
                    \/ track' = track
<1> USE DEF MultiRecords, Tracks, TrackRecords, Runs
<1>1. CASE ~multi[r].active \/ Runs(r, p)
  BY <1>1 DEF RoomRecording!StartLeg, RoomRecording!Tracked, RoomRecording!TypeOK
<1>2. CASE multi[r].active /\ ~Runs(r, p)
  <2> DEFINE m == RoomRecording!Placed(multi[r], p)
             t == [state |-> "running", paused |-> multi[r].paused]
  <2>a. multi' = [multi EXCEPT ![r] = m]
    BY <1>2 DEF RoomRecording!StartLeg, RoomRecording!Tracked
  <2>b. \/ /\ recordTap' = IF p \in present THEN [recordTap EXCEPT ![p] = r] ELSE recordTap
           /\ track' = [track EXCEPT ![r] = [track[r] EXCEPT ![p] = t]]
        \/ recordTap' = [recordTap EXCEPT ![p] = None] /\ track' = track
    BY <1>2 DEF RoomRecording!StartLeg, RoomRecording!Tracked
  <2>1. multi[r] \in MultiRecords
    BY DEF RoomRecording!TypeOK
  <2>2. /\ m.order = multi[r].order \cup {p} /\ m.asked = multi[r].asked \cup {p}
        /\ m.active = multi[r].active /\ m.paused = multi[r].paused
        /\ m.inputs = multi[r].inputs
        /\ m \in MultiRecords
    BY <2>1 DEF RoomRecording!Placed
  <2>3. t \in TrackRecords
    BY DEF RoomRecording!TypeOK
  <2> HIDE DEF m, t
  <2>4. multi' \in [Recordings -> MultiRecords] /\ multi'[r] = m
        /\ \A s \in Recordings \ {r} : multi'[s] = multi[s]
    BY <2>a, <2>2 DEF RoomRecording!TypeOK
  <2>5. CASE /\ recordTap' = IF p \in present THEN [recordTap EXCEPT ![p] = r] ELSE recordTap
             /\ track' = [track EXCEPT ![r] = [track[r] EXCEPT ![p] = t]]
    <3>1. /\ track' \in Tracks /\ track'[r][p] = t
          /\ \A s \in Recordings \ {r} : track'[s] = track[s]
          /\ \A q \in Parties \ {p} : track'[r][q] = track[r][q]
      BY <2>5, <2>3 DEF RoomRecording!TypeOK
    <3>2. /\ recordTap' \in [Parties -> Recordings \cup {None}]
          /\ p \in present => recordTap'[p] = r
          /\ \A q \in Parties \ {p} : recordTap'[q] = recordTap[q]
      BY <2>5 DEF RoomRecording!TypeOK
    <3> QED
      BY <1>2, <2>2, <2>4, <3>1, <3>2 DEF t
  <2>6. CASE recordTap' = [recordTap EXCEPT ![p] = None] /\ track' = track
    <3>1. /\ recordTap' \in [Parties -> Recordings \cup {None}]
          /\ \A q \in Parties \ {p} : recordTap'[q] = recordTap[q]
      BY <2>6 DEF RoomRecording!TypeOK
    <3> QED
      BY <1>2, <2>2, <2>4, <2>6, <3>1 DEF RoomRecording!TypeOK
  <2> QED
    BY <2>b, <2>5, <2>6
<1> QED
  BY <1>1, <1>2

\* What stopLeg does: a track that runs does so no longer.
LEMMA StopLegFacts ==
    ASSUME RoomRecording!TypeOK, NEW r \in Recordings, NEW p \in Parties,
           RoomRecording!StopLeg(r, p)
    PROVE  /\ recordTap' \in [Parties -> Recordings \cup {None}]
           /\ track' \in Tracks
           /\ \A s \in Recordings \ {r} : track'[s] = track[s]
           /\ \A q \in Parties \ {p} : track'[r][q] = track[r][q] /\ recordTap'[q] = recordTap[q]
           /\ IF Runs(r, p) THEN track'[r][p].state = "stopping"
                            ELSE track' = track /\ recordTap' = recordTap
<1> USE DEF MultiRecords, Tracks, TrackRecords, Runs
<1>1. CASE ~Runs(r, p)
  BY <1>1 DEF RoomRecording!StopLeg, RoomRecording!Tracked, RoomRecording!TypeOK
<1>2. CASE Runs(r, p)
  <2> DEFINE t == [state |-> "stopping", paused |-> FALSE]
  <2>1. /\ track' = [track EXCEPT ![r] = [track[r] EXCEPT ![p] = t]]
        /\ recordTap' = [recordTap EXCEPT ![p] = None]
    BY <1>2 DEF RoomRecording!StopLeg, RoomRecording!Tracked
  <2>2. /\ t \in TrackRecords
        /\ t.state = "stopping"
    OBVIOUS
  <2> HIDE DEF t
  <2> QED
    BY <1>2, <2>1, <2>2 DEF RoomRecording!TypeOK
<1> QED
  BY <1>1, <1>2

-----------------------------------------------------------------------------
\* One lemma per step: what it does, then conjunct by conjunct.

LEMMA StartRecordingInv ==
    ASSUME RecordingInv, NEW r \in Recordings, RoomRecording!StartRecording(r)
    PROVE  RecordingInv'
<1> USE DEF RecordingInv
<1>1. /\ starting = Resting /\ pausing = Resting /\ mixing = None /\ present # {}
      /\ mix[r].state = "new"
      /\ \A p \in Parties : joining[p] = None /\ leaving[p] = Resting
      /\ \A f \in RoomRecording!Finishers : finish[f] = Resting
  BY DEF RoomRecording!StartRecording, RoomRecording!NoCallUnderWay, Resting
<1>2. UNCHANGED <<present, gone, joins, recordTap, mixing, tracking, multi, track, joining,
                  leaving, finish, pausing, pauses>>
  BY DEF RoomRecording!StartRecording, RoomRecording!room
<1>3. /\ mix' \in [Recordings -> MixRecords]
      /\ mix'[r].state = "running" /\ mix'[r].paused = FALSE
      /\ \A s \in Recordings \ {r} : mix'[s] = mix[s]
  <2>1. PICK source \in present :
          mix' = [mix EXCEPT ![r] = [state |-> "running", source |-> source, paused |-> FALSE]]
    BY DEF RoomRecording!StartRecording
  <2> DEFINE m == [state |-> "running", source |-> source, paused |-> FALSE]
  <2>2. m \in MixRecords /\ m.state = "running" /\ m.paused = FALSE
    BY DEF MixRecords, RoomRecording!TypeOK
  <2> HIDE DEF m
  <2> QED
    BY <2>1, <2>2 DEF RoomRecording!TypeOK, MixRecords
<1>4. /\ starting' \in RoomRecording!Thread
      /\ starting'.at = "register" /\ starting'.rec = r /\ starting'.todo = present
  BY DEF RoomRecording!StartRecording, RoomRecording!Thread, RoomRecording!TypeOK
<1>5. tracking = None
  BY <1>1 DEF TrackingIsMixed
<1>6. RoomRecording!TypeOK'
  BY <1>2, <1>3, <1>4 DEF RoomRecording!TypeOK, MixRecords
<1>7. NewAreFresh' /\ Fresh(r)'
  BY <1>1, <1>2, <1>3 DEF NewAreFresh, Fresh
<1>8. StartsAlone' /\ StartKnows'
  BY <1>1, <1>2, <1>3, <1>4, <1>5, <1>7 DEF StartsAlone, StartKnows
<1>9. FinishersKnow'
  BY <1>1, <1>2, RestingFacts DEF FinishersKnow
<1>10. TrackingIsMixed' /\ MoversKnow' /\ InputsAreFiled'
  BY <1>2 DEF TrackingIsMixed, MoversKnow, InputsAreFiled
<1>11. TracksAreHeld'
  BY <1>2 DEF TracksAreHeld, StopIsDue, Runs
<1>12. PresentAreAsked' /\ PausesMatch'
  BY <1>2, <1>5, ServicesAssumption DEF PresentAreAsked, PausesMatch, Runs
<1> QED
  BY <1>6, <1>7, <1>8, <1>9, <1>10, <1>11, <1>12

LEMMA RegisterMixInv ==
    ASSUME RecordingInv, RoomRecording!RegisterMix
    PROVE  RecordingInv'
<1> USE DEF RecordingInv
<1>1. UNCHANGED <<present, gone, joins, recordTap, tracking, mix, multi, track, joining,
                  leaving, finish, pausing, pauses>>
  BY DEF RoomRecording!RegisterMix, RoomRecording!room
<1>2. starting.at = "register" /\ starting # Resting /\ starting \in RoomRecording!Thread
  BY RestingFacts DEF RoomRecording!RegisterMix, RoomRecording!TypeOK
<1>3. /\ starting.rec \in Recordings /\ Fresh(starting.rec) /\ tracking = None
      /\ starting.todo = present /\ mix[starting.rec].state # "new"
  BY <1>2 DEF StartKnows
<1>4. /\ mixing' = starting.rec
      /\ \/ starting' = Resting
         \/ /\ starting' \in RoomRecording!Thread /\ starting'.at = "multi"
            /\ starting'.rec = starting.rec /\ starting'.todo = starting.todo
  <2> DEFINE u == [starting EXCEPT !.at = "multi"]
  <2>1. /\ u \in RoomRecording!Thread /\ u.at = "multi"
        /\ u.rec = starting.rec /\ u.todo = starting.todo
    BY <1>2, ThreadAt
  <2>2. mixing' = starting.rec /\ starting' \in {Resting, u}
    BY DEF RoomRecording!RegisterMix, Resting
  <2> HIDE DEF u
  <2> QED
    BY <2>1, <2>2
<1>5. RoomRecording!TypeOK'
  BY <1>1, <1>3, <1>4, RestingFacts DEF RoomRecording!TypeOK
<1>6. NewAreFresh' /\ (\A r \in Recordings : Fresh(r) => Fresh(r)')
  BY <1>1, <1>3, <1>4 DEF NewAreFresh, Fresh
<1>7. StartsAlone'
  BY <1>1, <1>2 DEF StartsAlone
<1>8. StartKnows'
  BY <1>1, <1>3, <1>4, <1>6 DEF StartKnows
<1>9. TrackingIsMixed'
  BY <1>1, <1>3 DEF TrackingIsMixed
<1>10. FinishersKnow' /\ MoversKnow' /\ InputsAreFiled'
  BY <1>1 DEF FinishersKnow, MoversKnow, InputsAreFiled
<1>11. TracksAreHeld'
  BY <1>1 DEF TracksAreHeld, StopIsDue, Runs
<1>12. PresentAreAsked' /\ PausesMatch'
  BY <1>1, <1>3, ServicesAssumption DEF PresentAreAsked, PausesMatch, Runs
<1> QED
  BY <1>5, <1>6, <1>7, <1>8, <1>9, <1>10, <1>11, <1>12

LEMMA RegisterMultiInv ==
    ASSUME RecordingInv, RoomRecording!RegisterMulti
    PROVE  RecordingInv'
<1> USE DEF RecordingInv
<1> DEFINE r == starting.rec
<1>1. UNCHANGED <<present, gone, joins, recordTap, mixing, mix, track, joining,
                  leaving, finish, pausing, pauses>>
  BY DEF RoomRecording!RegisterMulti, RoomRecording!room
<1>2. starting.at = "multi" /\ starting # Resting /\ starting \in RoomRecording!Thread
  BY RestingFacts DEF RoomRecording!RegisterMulti, RoomRecording!TypeOK
<1>3. /\ r \in Recordings /\ Fresh(r) /\ tracking = None /\ mixing = r
      /\ starting.todo = present /\ mix[r].state # "new"
  BY <1>2 DEF StartKnows
<1>4. /\ tracking' = r
      /\ starting' \in RoomRecording!Thread /\ starting'.at = "tracks"
      /\ starting'.rec = r /\ starting'.todo = present
  BY <1>2, <1>3, ThreadAt DEF RoomRecording!RegisterMulti
<1>5. /\ multi' \in [Recordings -> MultiRecords]
      /\ \A s \in Recordings \ {r} : multi'[s] = multi[s]
      /\ multi'[r].active = TRUE /\ multi'[r].paused = multi[r].paused
      /\ multi'[r].order = multi[r].order /\ multi'[r].asked = multi[r].asked
      /\ multi'[r].inputs = multi[r].inputs
  <2> DEFINE m == [multi[r] EXCEPT !.active = TRUE]
  <2>1. multi' = [multi EXCEPT ![r] = m]
    BY DEF RoomRecording!RegisterMulti
  <2>2. /\ m \in MultiRecords /\ m.active = TRUE /\ m.paused = multi[r].paused
        /\ m.order = multi[r].order /\ m.asked = multi[r].asked /\ m.inputs = multi[r].inputs
    <3>1. multi[r] \in MultiRecords
      BY <1>3 DEF MultiRecords, RoomRecording!TypeOK
    <3> QED
      BY <3>1 DEF MultiRecords
  <2> HIDE DEF m, r
  <2> QED
    BY <1>3, <2>1, <2>2 DEF RoomRecording!TypeOK, MultiRecords
<1> HIDE DEF r
<1>6. /\ pausing = Resting
      /\ \A f \in RoomRecording!Finishers : finish[f] = Resting
  BY <1>2 DEF StartsAlone
<1>7. RoomRecording!TypeOK'
  BY <1>1, <1>3, <1>4, <1>5 DEF RoomRecording!TypeOK, MultiRecords
<1>8. \A s \in Recordings, p \in Parties : ~ Runs(s, p) /\ ~ Runs(s, p)'
  BY <1>1, <1>3, <1>6, RestingFacts, ServicesAssumption DEF TracksAreHeld, StopIsDue, Runs
<1>9. NewAreFresh'
  BY <1>1, <1>3, <1>5 DEF NewAreFresh, Fresh
<1>10. StartsAlone' /\ StartKnows'
  BY <1>1, <1>2, <1>3, <1>4 DEF StartsAlone, StartKnows
<1>11. TrackingIsMixed'
  BY <1>1, <1>3, <1>4, <1>5, ServicesAssumption DEF TrackingIsMixed
<1>12. FinishersKnow' /\ MoversKnow'
  BY <1>1, <1>6, RestingFacts DEF FinishersKnow, MoversKnow
<1>13. TracksAreHeld'
  BY <1>8 DEF TracksAreHeld
<1>14. PresentAreAsked'
  BY <1>1, <1>3, <1>4, <1>5, <1>8 DEF PresentAreAsked
<1>15. PausesMatch'
  <2>1. mix[r].paused = FALSE /\ multi[r].paused = FALSE
    BY <1>3 DEF Fresh, RoomRecording!TypeOK
  <2>2. /\ multi'[r].paused = FALSE /\ mix'[r].paused = FALSE
        /\ pausing' = Resting /\ pausing'.rec = None
    BY <1>1, <1>5, <1>6, <2>1, RestingFacts
  <2> QED
    BY <1>4, <1>8, <2>2 DEF PausesMatch
<1>16. InputsAreFiled'
  BY <1>1, <1>3, <1>5 DEF InputsAreFiled, Fresh
<1> QED
  BY <1>7, <1>9, <1>10, <1>11, <1>12, <1>13, <1>14, <1>15, <1>16

\* What startLeg leaves true when the party is present and does not leave.
LEMMA StartLegInv ==
    ASSUME RecordingInv, NEW r \in Recordings, NEW p \in Parties, RoomRecording!StartLeg(r, p),
           p \in present, leaving[p] = Resting,
           UNCHANGED <<present, mixing, tracking, mix, leaving, finish, pausing>>
    PROVE  /\ NewAreFresh' /\ TrackingIsMixed' /\ FinishersKnow' /\ TracksAreHeld'
           /\ PausesMatch' /\ InputsAreFiled'
           /\ \A s \in Recordings :
                 /\ multi'[s].order = multi'[s].asked
                 /\ multi[s].asked \subseteq multi'[s].asked
                 /\ \A q \in Parties : Runs(s, q)' => q \in multi'[s].asked
           /\ tracking = r => p \in multi'[r].asked
<1> USE DEF RecordingInv
<1>1. CASE UNCHANGED <<recordTap, multi, track>> /\ (~multi[r].active \/ Runs(r, p))
  <2>1. UNCHANGED <<recordTap, multi, track>>
    BY <1>1
  <2>2. NewAreFresh' /\ TrackingIsMixed' /\ FinishersKnow'
    BY <2>1 DEF NewAreFresh, Fresh, TrackingIsMixed, FinishersKnow
  <2>3. TracksAreHeld'
    BY <2>1 DEF TracksAreHeld, StopIsDue, Runs
  <2>4. PausesMatch' /\ InputsAreFiled'
    BY <2>1 DEF PausesMatch, InputsAreFiled, Runs
  <2>5. tracking = r => p \in multi'[r].asked
    BY <1>1, <2>1 DEF TrackingIsMixed, PresentAreAsked
  <2> QED
    BY <2>1, <2>2, <2>3, <2>4, <2>5 DEF PresentAreAsked, Runs
<1>2. CASE /\ multi[r].active /\ ~Runs(r, p)
           /\ multi'[r].order = multi[r].order \cup {p}
           /\ multi'[r].asked = multi[r].asked \cup {p}
           /\ multi'[r].active = multi[r].active /\ multi'[r].paused = multi[r].paused
           /\ multi'[r].inputs = multi[r].inputs
           /\ \A s \in Recordings \ {r} : multi'[s] = multi[s] /\ track'[s] = track[s]
           /\ \A q \in Parties \ {p} :
                 track'[r][q] = track[r][q] /\ recordTap'[q] = recordTap[q]
           /\ \/ /\ track'[r][p] = [state |-> "running", paused |-> multi[r].paused]
                 /\ p \in present => recordTap'[p] = r
              \/ track' = track
  <2>1. tracking = r /\ mix[r].state # "new"
    BY <1>2 DEF TrackingIsMixed, NewAreFresh, Fresh
  <2>2. NewAreFresh'
    BY <1>2, <2>1 DEF NewAreFresh, Fresh
  <2>3. TrackingIsMixed' /\ FinishersKnow'
    BY <1>2 DEF TrackingIsMixed, FinishersKnow
  <2>4. \A s \in Recordings, q \in Parties : StopIsDue(s, q)' <=> StopIsDue(s, q)
    BY DEF StopIsDue
  <2>5. \A s \in Recordings, q \in Parties :
           (s # r \/ q # p) => track'[s][q] = track[s][q] /\ (Runs(s, q)' <=> Runs(s, q))
    BY <1>2 DEF Runs
  <2>6. Runs(r, p)' => recordTap'[p] = r /\ track'[r][p].paused = multi[r].paused
    BY <1>2 DEF Runs
  <2>7. TracksAreHeld'
    BY <1>2, <2>1, <2>4, <2>5, <2>6 DEF TracksAreHeld
  <2>8. PausesMatch'
    BY <1>2, <2>1, <2>5, <2>6 DEF PausesMatch
  <2>9. InputsAreFiled'
    BY <1>2, <2>5 DEF InputsAreFiled
  <2>10. \A s \in Recordings :
            /\ multi'[s].order = multi'[s].asked
            /\ multi[s].asked \subseteq multi'[s].asked
            /\ \A q \in Parties : Runs(s, q)' => q \in multi'[s].asked
    BY <1>2, <2>5 DEF PresentAreAsked
  <2> QED
    BY <1>2, <2>2, <2>3, <2>7, <2>8, <2>9, <2>10
<1> QED
  <2>1. RoomRecording!TypeOK
    OBVIOUS
  <2> HIDE DEF RecordingInv
  <2> QED
    BY <1>1, <1>2, <2>1, StartLegFacts

LEMMA StartSourceInv ==
    ASSUME RecordingInv, NEW p \in Parties, RoomRecording!StartSource(p)
    PROVE  RecordingInv'
<1> USE DEF RecordingInv
<1> DEFINE r == starting.rec
<1>1. /\ UNCHANGED <<present, gone, joins, mixing, tracking, mix, joining, leaving, finish,
                     pausing, pauses>>
      /\ RoomRecording!StartLeg(r, p)
  BY DEF RoomRecording!StartSource, RoomRecording!room
<1>2. /\ starting.at = "tracks" /\ p \in starting.todo /\ starting # Resting
      /\ starting \in RoomRecording!Thread
  BY RestingFacts DEF RoomRecording!StartSource, RoomRecording!TypeOK
<1>3. /\ r \in Recordings /\ tracking = r /\ starting.todo \subseteq present
      /\ mix[r].state # "new"
  BY <1>2 DEF StartKnows
<1>4. \/ starting' = Resting /\ starting.todo = {p}
      \/ /\ starting' \in RoomRecording!Thread
         /\ starting'.at = "tracks" /\ starting'.rec = r
         /\ starting'.todo = starting.todo \ {p}
  <2>1. starting.todo \ {p} \in SUBSET Parties
    BY <1>2 DEF RoomRecording!Thread
  <2> QED
    BY <1>2, <2>1, ThreadTodo DEF RoomRecording!StartSource, Resting
<1>5. leaving[p] = Resting
  BY <1>2 DEF StartsAlone
<1> HIDE DEF r
<1>6. /\ NewAreFresh' /\ TrackingIsMixed' /\ FinishersKnow' /\ TracksAreHeld'
      /\ PausesMatch' /\ InputsAreFiled'
      /\ \A s \in Recordings :
            /\ multi'[s].order = multi'[s].asked
            /\ multi[s].asked \subseteq multi'[s].asked
            /\ \A q \in Parties : Runs(s, q)' => q \in multi'[s].asked
      /\ p \in multi'[r].asked
  <2> HIDE DEF RecordingInv
  <2> QED
    BY <1>1, <1>2, <1>3, <1>5, StartLegInv
<1>7. RoomRecording!TypeOK'
  <2>1. /\ recordTap' \in [Parties -> Recordings \cup {None}]
        /\ multi' \in [Recordings -> MultiRecords] /\ track' \in Tracks
    BY <1>1, <1>3, StartLegFacts
  <2>2. starting' \in RoomRecording!Thread
    BY <1>4, RestingFacts
  <2> QED
    BY <1>1, <2>1, <2>2 DEF RoomRecording!TypeOK, MultiRecords, Tracks, TrackRecords
<1>8. StartsAlone' /\ StartKnows' /\ MoversKnow'
  BY <1>1, <1>2, <1>3, <1>4 DEF StartsAlone, StartKnows, MoversKnow
<1>9. PresentAreAsked'
  BY <1>1, <1>3, <1>4, <1>6 DEF PresentAreAsked
<1> QED
  BY <1>6, <1>7, <1>8, <1>9

LEMMA JoinHookInv ==
    ASSUME RecordingInv, NEW p \in Parties, RoomRecording!JoinHook(p)
    PROVE  RecordingInv'
<1> USE DEF RecordingInv
<1> DEFINE r == joining[p]
<1>1. /\ UNCHANGED <<present, gone, joins, mixing, tracking, mix, starting, leaving, finish,
                     pausing, pauses>>
      /\ RoomRecording!StartLeg(r, p)
  BY DEF RoomRecording!JoinHook, RoomRecording!room
<1>2. r # None /\ r \in Recordings /\ joining' = [joining EXCEPT ![p] = None]
  BY DEF RoomRecording!JoinHook, RoomRecording!TypeOK
<1>3. p \in present /\ leaving[p] = Resting
  BY <1>2 DEF MoversKnow
<1>4. starting = Resting
  BY <1>2 DEF StartsAlone
<1>5. /\ joining' \in [Parties -> Recordings \cup {None}] /\ joining'[p] = None
      /\ \A q \in Parties \ {p} : joining'[q] = joining[q]
  BY <1>2 DEF RoomRecording!TypeOK
<1>6. /\ NewAreFresh' /\ TrackingIsMixed' /\ FinishersKnow' /\ TracksAreHeld'
      /\ PausesMatch' /\ InputsAreFiled'
      /\ \A s \in Recordings :
            /\ multi'[s].order = multi'[s].asked
            /\ multi[s].asked \subseteq multi'[s].asked
            /\ \A q \in Parties : Runs(s, q)' => q \in multi'[s].asked
      /\ tracking = r => p \in multi'[r].asked
  <2> HIDE DEF RecordingInv, r
  <2> QED
    BY <1>1, <1>2, <1>3, StartLegInv
<1>7. RoomRecording!TypeOK'
  <2>1. /\ recordTap' \in [Parties -> Recordings \cup {None}]
        /\ multi' \in [Recordings -> MultiRecords] /\ track' \in Tracks
    <3> HIDE DEF r
    <3> QED
      BY <1>1, <1>2, StartLegFacts
  <2> QED
    BY <1>1, <1>5, <2>1 DEF RoomRecording!TypeOK, MultiRecords, Tracks, TrackRecords
<1>8. StartsAlone' /\ StartKnows' /\ MoversKnow'
  BY <1>1, <1>4, <1>5 DEF StartsAlone, StartKnows, MoversKnow
<1>9. PresentAreAsked'
  <2> SUFFICES ASSUME NEW s \in Recordings, NEW q \in present, tracking = s
               PROVE  q \in multi'[s].asked \/ joining'[q] = s
    BY <1>1, <1>6 DEF PresentAreAsked
  <2>1. q \in Parties
    BY DEF RoomRecording!TypeOK
  <2>2. q \in multi[s].asked \/ joining[q] = s
    BY <1>4, <2>1, RestingFacts DEF PresentAreAsked
  <2> QED
    BY <1>5, <1>6, <2>1, <2>2
<1> QED
  BY <1>6, <1>7, <1>8, <1>9

\* A leg that is in the room or not: nothing of the recording itself is changed.
LEMMA JoinInv ==
    ASSUME RecordingInv, NEW p \in Parties, RoomRecording!Join(p)
    PROVE  RecordingInv'
<1> USE DEF RecordingInv
<1>1. /\ UNCHANGED <<gone, recordTap, mixing, tracking, mix, multi, track, starting, leaving,
                     finish, pausing, pauses>>
      /\ starting = Resting /\ joining[p] = None /\ leaving[p] = Resting
      /\ p \notin present /\ present' = present \cup {p}
      /\ joining' = [joining EXCEPT ![p] = tracking]
  BY DEF RoomRecording!Join, RoomRecording!Quiet, Resting
<1>2. /\ joining' \in [Parties -> Recordings \cup {None}] /\ joining'[p] = tracking
      /\ \A q \in Parties \ {p} : joining'[q] = joining[q]
  BY <1>1 DEF RoomRecording!TypeOK
<1>3. RoomRecording!TypeOK'
  <2>1. joins' \in [Parties -> 0..MaxJoins]
    BY ServicesAssumption DEF RoomRecording!Join, RoomRecording!TypeOK
  <2> QED
    BY <1>1, <1>2, <2>1 DEF RoomRecording!TypeOK
<1>4. NewAreFresh' /\ TrackingIsMixed' /\ FinishersKnow' /\ InputsAreFiled'
  BY <1>1 DEF NewAreFresh, Fresh, TrackingIsMixed, FinishersKnow, InputsAreFiled
<1>5. StartsAlone' /\ StartKnows'
  BY <1>1 DEF StartsAlone, StartKnows
<1>6. MoversKnow'
  BY <1>1, <1>2 DEF MoversKnow
<1>7. TracksAreHeld'
  BY <1>1 DEF TracksAreHeld, StopIsDue, Runs
<1>8. PresentAreAsked'
  <2> SUFFICES ASSUME NEW s \in Recordings, NEW q \in present', tracking = s
               PROVE  q \in multi[s].asked \/ joining'[q] = s
    BY <1>1 DEF PresentAreAsked, Runs
  <2>1. CASE q = p
    BY <1>2, <2>1
  <2>2. CASE q # p
    <3>1. q \in present /\ q \in Parties
      BY <1>1, <2>2 DEF RoomRecording!TypeOK
    <3>2. q \in multi[s].asked \/ joining[q] = s
      BY <1>1, <3>1, RestingFacts DEF PresentAreAsked
    <3> QED
      BY <1>2, <2>2, <3>1, <3>2
  <2> QED
    BY <2>1, <2>2
<1>9. PausesMatch'
  BY <1>1 DEF PausesMatch, Runs
<1> QED
  BY <1>3, <1>4, <1>5, <1>6, <1>7, <1>8, <1>9

\* What stopLeg leaves true, whoever calls it.
LEMMA StopLegInv ==
    ASSUME RecordingInv, NEW r \in Recordings, NEW p \in Parties, RoomRecording!StopLeg(r, p),
           UNCHANGED <<mixing, tracking, mix, multi, pausing>>
    PROVE  /\ NewAreFresh' /\ TrackingIsMixed' /\ PausesMatch' /\ InputsAreFiled'
           /\ \A s \in Recordings, q \in Parties :
                 Runs(s, q)' => Runs(s, q) /\ (s # r \/ q # p)
           /\ \A q \in Parties \ {p} : recordTap'[q] = recordTap[q]
<1> USE DEF RecordingInv
<1>1. /\ \A s \in Recordings \ {r} : track'[s] = track[s]
      /\ \A q \in Parties \ {p} : track'[r][q] = track[r][q] /\ recordTap'[q] = recordTap[q]
      /\ IF Runs(r, p) THEN track'[r][p].state = "stopping"
                       ELSE track' = track /\ recordTap' = recordTap
  BY StopLegFacts
<1>2. \A s \in Recordings, q \in Parties : Runs(s, q)' =>
          Runs(s, q) /\ track'[s][q] = track[s][q] /\ (s # r \/ q # p)
  BY <1>1 DEF Runs
<1>3. \A s \in Recordings, q \in Parties : ~ Runs(s, q) => track'[s][q] = track[s][q]
  BY <1>1 DEF Runs
<1>4. NewAreFresh'
  BY <1>3 DEF NewAreFresh, Fresh, Runs
<1>5. TrackingIsMixed'
  BY DEF TrackingIsMixed
<1>6. PausesMatch'
  BY <1>2 DEF PausesMatch
<1>7. InputsAreFiled'
  <2> SUFFICES ASSUME NEW s \in Recordings, multi[s].inputs # None, NEW q \in multi[s].inputs
               PROVE  track'[s][q].state = "filed"
    BY DEF InputsAreFiled
  <2>1. q \in Parties /\ track[s][q].state = "filed"
    <3>1. multi[s].order \subseteq Parties
      BY DEF RoomRecording!TypeOK
    <3> QED
      BY <3>1 DEF InputsAreFiled
  <2> QED
    BY <1>3, <2>1 DEF Runs
<1> QED
  BY <1>1, <1>2, <1>4, <1>5, <1>6, <1>7

LEMMA LeaveInv ==
    ASSUME RecordingInv, NEW p \in Parties, RoomRecording!Leave(p)
    PROVE  RecordingInv'
<1> USE DEF RecordingInv
<1>1. /\ UNCHANGED <<present, joins, mixing, tracking, mix, multi, starting, joining, finish,
                     pausing, pauses>>
      /\ starting = Resting /\ joining[p] = None /\ leaving[p] = Resting /\ finish[p] = Resting
      /\ p \in present
  BY DEF RoomRecording!Leave, RoomRecording!Quiet, Resting
<1>2. /\ leaving' \in [Parties -> RoomRecording!Thread] /\ leaving'[p] # Resting
      /\ \A q \in Parties \ {p} : leaving'[q] = leaving[q]
  <2> DEFINE w == [Resting EXCEPT !.at = "remove", !.rec = tracking]
  <2>1. w \in RoomRecording!Thread /\ w.at = "remove"
    BY RestingFacts DEF RoomRecording!Thread, RoomRecording!TypeOK
  <2>2. leaving' = [leaving EXCEPT ![p] = w]
    BY DEF RoomRecording!Leave, Resting
  <2> HIDE DEF w
  <2> QED
    BY <2>1, <2>2, RestingFacts DEF RoomRecording!TypeOK
<1>3. /\ NewAreFresh' /\ TrackingIsMixed' /\ PausesMatch' /\ InputsAreFiled'
      /\ TracksAreHeld' /\ PresentAreAsked'
  <2>1. CASE tracking # None
    <3>1. tracking \in Recordings /\ RoomRecording!StopLeg(tracking, p)
      BY <2>1 DEF RoomRecording!Leave, RoomRecording!TypeOK
    <3>2. /\ NewAreFresh' /\ TrackingIsMixed' /\ PausesMatch' /\ InputsAreFiled'
          /\ \A s \in Recordings, q \in Parties :
                Runs(s, q)' => Runs(s, q) /\ (s # tracking \/ q # p)
          /\ \A q \in Parties \ {p} : recordTap'[q] = recordTap[q]
      <4> HIDE DEF RecordingInv
      <4> QED
        BY <1>1, <3>1, StopLegInv
    <3>3. TracksAreHeld'
      BY <1>1, <1>2, <3>2 DEF TracksAreHeld, StopIsDue
    <3>4. PresentAreAsked'
      BY <1>1, <3>2 DEF PresentAreAsked
    <3> QED
      BY <3>2, <3>3, <3>4
  <2>2. CASE tracking = None
    <3>1. UNCHANGED <<track, recordTap>>
      BY <2>2 DEF RoomRecording!Leave
    <3>2. NewAreFresh' /\ TrackingIsMixed' /\ InputsAreFiled'
      BY <1>1, <3>1 DEF NewAreFresh, Fresh, TrackingIsMixed, InputsAreFiled
    <3>3. PausesMatch' /\ PresentAreAsked'
      BY <1>1, <3>1 DEF PausesMatch, PresentAreAsked, Runs
    <3>4. TracksAreHeld'
      BY <1>1, <2>2, <3>1, ServicesAssumption DEF TracksAreHeld, StopIsDue, Runs
    <3> QED
      BY <3>2, <3>3, <3>4
  <2> QED
    BY <2>1, <2>2
<1>5. recordTap' \in [Parties -> Recordings \cup {None}] /\ track' \in Tracks
  BY StopLegFacts DEF RoomRecording!Leave, RoomRecording!TypeOK, MultiRecords, Tracks, TrackRecords
<1>6. RoomRecording!TypeOK'
  <2>1. gone' \subseteq Parties
    BY DEF RoomRecording!Leave, RoomRecording!TypeOK
  <2> QED
    BY <1>1, <1>2, <1>5, <2>1 DEF RoomRecording!TypeOK, MultiRecords, Tracks, TrackRecords
<1>7. StartsAlone' /\ StartKnows'
  BY <1>1 DEF StartsAlone, StartKnows
<1>8. FinishersKnow' /\ MoversKnow'
  BY <1>1, <1>2 DEF FinishersKnow, MoversKnow
<1> QED
  BY <1>3, <1>6, <1>7, <1>8

LEMMA RemoveInv ==
    ASSUME RecordingInv, NEW p \in Parties, RoomRecording!Remove(p)
    PROVE  RecordingInv'
<1> USE DEF RecordingInv
<1>1. /\ UNCHANGED <<gone, joins, mixing, tracking, mix, multi, track, starting, joining,
                     finish, pausing, pauses>>
      /\ leaving[p].at = "remove" /\ present' = present \ {p}
      /\ recordTap' = [recordTap EXCEPT ![p] = None]
  BY DEF RoomRecording!Remove
<1>2. leaving[p] # Resting /\ leaving[p] \in RoomRecording!Thread
  BY <1>1, RestingFacts DEF RoomRecording!TypeOK
<1>3. starting = Resting /\ joining[p] = None /\ finish[p] = Resting
  BY <1>2 DEF StartsAlone, MoversKnow
<1>4. /\ leaving' \in [Parties -> RoomRecording!Thread] /\ leaving'[p] # Resting
      /\ \A q \in Parties \ {p} : leaving'[q] = leaving[q]
  <2> DEFINE w == [leaving[p] EXCEPT !.at = "judge"]
  <2>1. w \in RoomRecording!Thread /\ w.at = "judge"
    BY <1>2, ThreadAt
  <2>2. leaving' = [leaving EXCEPT ![p] = w]
    BY DEF RoomRecording!Remove
  <2> HIDE DEF w
  <2> QED
    BY <2>1, <2>2, RestingFacts DEF RoomRecording!TypeOK
<1>5. /\ recordTap' \in [Parties -> Recordings \cup {None}]
      /\ \A q \in Parties \ {p} : recordTap'[q] = recordTap[q]
  BY <1>1 DEF RoomRecording!TypeOK
<1>6. RoomRecording!TypeOK'
  BY <1>1, <1>4, <1>5 DEF RoomRecording!TypeOK
<1>7. NewAreFresh' /\ TrackingIsMixed' /\ FinishersKnow' /\ InputsAreFiled'
  BY <1>1 DEF NewAreFresh, Fresh, TrackingIsMixed, FinishersKnow, InputsAreFiled
<1>8. StartsAlone' /\ StartKnows'
  BY <1>1, <1>3 DEF StartsAlone, StartKnows
<1>9. MoversKnow'
  BY <1>1, <1>3, <1>4 DEF MoversKnow
<1>10. TracksAreHeld'
  BY <1>1, <1>2, <1>4, <1>5 DEF TracksAreHeld, StopIsDue, Runs
<1>11. PresentAreAsked' /\ PausesMatch'
  BY <1>1 DEF PresentAreAsked, PausesMatch, Runs
<1> QED
  BY <1>6, <1>7, <1>8, <1>9, <1>10, <1>11

\* Finishers are told apart from one another and from a call that has not begun.
LEMMA FinishersFacts ==
    /\ \A p \in Parties : p \in RoomRecording!Finishers /\ p # RoomRecording!Stop
    /\ RoomRecording!Stop \in RoomRecording!Finishers
  BY ServicesAssumption DEF RoomRecording!Finishers, RoomRecording!Stop

LEMMA JudgeEmptyInv ==
    ASSUME RecordingInv, NEW p \in Parties, RoomRecording!JudgeEmpty(p)
    PROVE  RecordingInv'
<1> USE DEF RecordingInv
<1>1. /\ UNCHANGED <<present, gone, joins, recordTap, mixing, tracking, mix, multi, track,
                     starting, joining, pausing, pauses>>
      /\ leaving[p].at = "judge" /\ leaving' = [leaving EXCEPT ![p] = Resting]
  BY DEF RoomRecording!JudgeEmpty, RoomRecording!room, Resting
<1>2. leaving[p] # Resting
  BY <1>1, RestingFacts
<1>3. starting = Resting /\ finish[p] = Resting
  BY <1>2 DEF StartsAlone, MoversKnow
<1>4. /\ leaving' \in [Parties -> RoomRecording!Thread] /\ leaving'[p] = Resting
      /\ \A q \in Parties \ {p} : leaving'[q] = leaving[q]
  BY <1>1, RestingFacts DEF RoomRecording!TypeOK
<1>5. /\ finish' \in [RoomRecording!Finishers -> RoomRecording!Thread]
      /\ finish'[p].at \in {"idle", "take"}
      /\ \A f \in RoomRecording!Finishers \ {p} : finish'[f] = finish[f]
  <2> DEFINE w == [finish[p] EXCEPT !.at = "take"]
  <2>1. w \in RoomRecording!Thread /\ w.at = "take"
    <3>1. finish[p] \in RoomRecording!Thread
      BY FinishersFacts DEF RoomRecording!TypeOK
    <3> QED
      BY <3>1, ThreadAt
  <2>2. finish' = IF present = {} THEN [finish EXCEPT ![p] = w] ELSE finish
    BY DEF RoomRecording!JudgeEmpty
  <2> HIDE DEF w
  <2> QED
    BY <1>3, <2>1, <2>2, FinishersFacts, RestingFacts DEF RoomRecording!TypeOK
<1>6. RoomRecording!TypeOK'
  BY <1>1, <1>4, <1>5 DEF RoomRecording!TypeOK
<1>7. NewAreFresh' /\ TrackingIsMixed' /\ InputsAreFiled'
  BY <1>1 DEF NewAreFresh, Fresh, TrackingIsMixed, InputsAreFiled
<1>8. StartsAlone' /\ StartKnows'
  BY <1>1, <1>3 DEF StartsAlone, StartKnows
<1>9. FinishersKnow'
  BY <1>1, <1>5 DEF FinishersKnow
<1>10. MoversKnow'
  BY <1>1, <1>4, <1>5, FinishersFacts DEF MoversKnow
<1>11. TracksAreHeld'
  <2>1. \A s \in Recordings, q \in Parties : StopIsDue(s, q) => StopIsDue(s, q)'
    BY <1>3, <1>5, RestingFacts DEF StopIsDue
  <2> QED
    BY <1>1, <1>4, <2>1 DEF TracksAreHeld, Runs
<1>12. PresentAreAsked' /\ PausesMatch'
  BY <1>1 DEF PresentAreAsked, PausesMatch, Runs
<1> QED
  BY <1>6, <1>7, <1>8, <1>9, <1>10, <1>11, <1>12

LEMMA StopRecordingInv ==
    ASSUME RecordingInv, RoomRecording!StopRecording
    PROVE  RecordingInv'
<1> USE DEF RecordingInv
<1> DEFINE f == RoomRecording!Stop
<1>1. /\ UNCHANGED <<present, gone, joins, recordTap, mixing, tracking, mix, multi, track,
                     starting, joining, leaving, pausing, pauses>>
      /\ starting = Resting /\ finish[f] = Resting
      /\ finish' = [finish EXCEPT ![f] = [@ EXCEPT !.at = "take"]]
  BY DEF RoomRecording!StopRecording, RoomRecording!Quiet, RoomRecording!room, Resting
<1> HIDE DEF f
<1>2. /\ f \in RoomRecording!Finishers
      /\ \A p \in Parties : p \in RoomRecording!Finishers \ {f}
  BY FinishersFacts DEF f
<1>3. /\ finish' \in [RoomRecording!Finishers -> RoomRecording!Thread]
      /\ finish'[f].at = "take"
      /\ \A g \in RoomRecording!Finishers \ {f} : finish'[g] = finish[g]
  <2> DEFINE w == [finish[f] EXCEPT !.at = "take"]
  <2>1. w \in RoomRecording!Thread /\ w.at = "take"
    <3>1. finish[f] \in RoomRecording!Thread
      BY <1>2 DEF RoomRecording!TypeOK
    <3> QED
      BY <3>1, ThreadAt
  <2>2. finish' = [finish EXCEPT ![f] = w]
    BY <1>1
  <2> HIDE DEF w
  <2> QED
    BY <1>2, <2>1, <2>2 DEF RoomRecording!TypeOK
<1>4. RoomRecording!TypeOK'
  BY <1>1, <1>3 DEF RoomRecording!TypeOK
<1>5. NewAreFresh' /\ TrackingIsMixed' /\ InputsAreFiled'
  BY <1>1 DEF NewAreFresh, Fresh, TrackingIsMixed, InputsAreFiled
<1>6. StartsAlone' /\ StartKnows'
  BY <1>1 DEF StartsAlone, StartKnows
<1>7. FinishersKnow' /\ MoversKnow'
  BY <1>1, <1>2, <1>3 DEF FinishersKnow, MoversKnow
<1>8. TracksAreHeld'
  <2>1. \A s \in Recordings, q \in Parties : StopIsDue(s, q) => StopIsDue(s, q)'
    BY <1>1, <1>3, RestingFacts DEF StopIsDue
  <2> QED
    BY <1>1, <2>1 DEF TracksAreHeld, Runs
<1>9. PresentAreAsked' /\ PausesMatch'
  BY <1>1 DEF PresentAreAsked, PausesMatch, Runs
<1> QED
  BY <1>4, <1>5, <1>6, <1>7, <1>8, <1>9

LEMMA TrackEndsInv ==
    ASSUME RecordingInv, NEW r \in Recordings, NEW p \in Parties, RoomRecording!TrackEnds(r, p)
    PROVE  RecordingInv'
<1> USE DEF RecordingInv
<1>1. /\ UNCHANGED <<present, gone, joins, recordTap, mixing, tracking, mix, multi, starting,
                     joining, leaving, finish, pausing, pauses>>
      /\ track[r][p].state = "stopping"
  BY DEF RoomRecording!TrackEnds, RoomRecording!room
<1>2. /\ track' \in Tracks
      /\ track'[r][p].state \in {"filed", "lost"}
      /\ \A s \in Recordings, q \in Parties : (s # r \/ q # p) => track'[s][q] = track[s][q]
  <2>1. PICK end \in {"filed", "lost"} :
          track' = [track EXCEPT ![r] = [track[r] EXCEPT ![p] = [state |-> end, paused |-> FALSE]]]
    BY DEF RoomRecording!TrackEnds
  <2> DEFINE t == [state |-> end, paused |-> FALSE]
  <2>2. /\ t \in TrackRecords
        /\ t.state \in {"filed", "lost"}
    BY DEF TrackRecords
  <2> HIDE DEF t
  <2> QED
    BY <2>1, <2>2 DEF RoomRecording!TypeOK, MultiRecords, Tracks, TrackRecords
<1>3. \A s \in Recordings, q \in Parties :
         Runs(s, q)' => Runs(s, q) /\ track'[s][q] = track[s][q]
  BY <1>1, <1>2 DEF Runs
<1>4. RoomRecording!TypeOK'
  BY <1>1, <1>2 DEF RoomRecording!TypeOK, MultiRecords, Tracks, TrackRecords
<1>5. NewAreFresh'
  BY <1>1, <1>2 DEF NewAreFresh, Fresh
<1>6. StartsAlone' /\ FinishersKnow' /\ MoversKnow' /\ TrackingIsMixed'
  BY <1>1 DEF StartsAlone, FinishersKnow, MoversKnow, TrackingIsMixed
<1>7. StartKnows'
  <2>1. \A s \in Recordings : Fresh(s) => Fresh(s)'
    BY <1>1, <1>2 DEF Fresh
  <2> QED
    BY <1>1, <2>1 DEF StartKnows
<1>8. TracksAreHeld'
  BY <1>1, <1>3 DEF TracksAreHeld, StopIsDue
<1>9. PresentAreAsked'
  BY <1>1, <1>3 DEF PresentAreAsked
<1>10. PausesMatch'
  BY <1>1, <1>3 DEF PausesMatch
<1>11. InputsAreFiled'
  <2> SUFFICES ASSUME NEW s \in Recordings, multi[s].inputs # None, NEW q \in multi[s].inputs
               PROVE  track'[s][q].state = "filed"
    BY <1>1 DEF InputsAreFiled
  <2>1. q \in Parties /\ track[s][q].state = "filed"
    <3>1. multi[s].order \subseteq Parties
      BY DEF RoomRecording!TypeOK
    <3> QED
      BY <3>1 DEF InputsAreFiled
  <2> QED
    BY <1>1, <1>2, <2>1
<1> QED
  BY <1>4, <1>5, <1>6, <1>7, <1>8, <1>9, <1>10, <1>11

LEMMA TakeTracksInv ==
    ASSUME RecordingInv, NEW f \in RoomRecording!Finishers, RoomRecording!TakeTracks(f)
    PROVE  RecordingInv'
<1> USE DEF RecordingInv
<1>1. /\ UNCHANGED <<present, gone, joins, recordTap, mixing, mix, track, starting, joining,
                     leaving, pausing, pauses>>
      /\ finish[f].at = "take" /\ tracking' = None
  BY DEF RoomRecording!TakeTracks, RoomRecording!room
<1>2. finish[f] \in RoomRecording!Thread /\ finish[f] # Resting
  BY <1>1, RestingFacts DEF RoomRecording!TypeOK
<1>3. starting = Resting /\ \A p \in Parties : leaving[p] # Resting => p # f
  BY <1>2 DEF StartsAlone, MoversKnow
<1>4. /\ multi' \in [Recordings -> MultiRecords]
      /\ \A s \in Recordings :
            /\ multi'[s].active = FALSE /\ multi'[s].paused = multi[s].paused
            /\ multi'[s].order = multi[s].order /\ multi'[s].asked = multi[s].asked
            /\ multi'[s].inputs = multi[s].inputs
  <2>1. CASE tracking = None
    <3>1. multi' = multi
      BY <2>1 DEF RoomRecording!TakeTracks
    <3> QED
      BY <2>1, <3>1, ServicesAssumption DEF TrackingIsMixed, RoomRecording!TypeOK, MultiRecords
  <2>2. CASE tracking # None
    <3> DEFINE r == tracking
               m == [multi[r] EXCEPT !.active = FALSE]
    <3>1. r \in Recordings /\ multi' = [multi EXCEPT ![r] = m]
      BY <2>2 DEF RoomRecording!TakeTracks, RoomRecording!TypeOK
    <3>2. /\ m \in MultiRecords /\ m.active = FALSE /\ m.paused = multi[r].paused
          /\ m.order = multi[r].order /\ m.asked = multi[r].asked /\ m.inputs = multi[r].inputs
      <4>1. multi[r] \in MultiRecords
        BY <3>1 DEF MultiRecords, RoomRecording!TypeOK
      <4> QED
        BY <4>1 DEF MultiRecords
    <3>3. \A s \in Recordings \ {r} : multi[s].active = FALSE
      BY DEF TrackingIsMixed, RoomRecording!TypeOK
    <3> HIDE DEF m, r
    <3> QED
      BY <3>1, <3>2, <3>3 DEF RoomRecording!TypeOK, MultiRecords
  <2> QED
    BY <2>1, <2>2
<1>5. /\ finish' \in [RoomRecording!Finishers -> RoomRecording!Thread]
      /\ \A g \in RoomRecording!Finishers \ {f} : finish'[g] = finish[g]
      /\ \/ tracking = None /\ finish'[f].at = "mix"
         \/ /\ tracking \in Recordings /\ finish'[f].at = "stop" /\ finish'[f].rec = tracking
            /\ \A p \in Parties : Runs(tracking, p) => p \in finish'[f].todo
  <2>1. CASE tracking = None
    <3> DEFINE w == [finish[f] EXCEPT !.at = "mix"]
    <3>1. w \in RoomRecording!Thread /\ w.at = "mix"
      BY <1>2, ThreadAt
    <3>2. finish' = [finish EXCEPT ![f] = w]
      BY <2>1 DEF RoomRecording!TakeTracks
    <3> HIDE DEF w
    <3> QED
      BY <2>1, <3>1, <3>2 DEF RoomRecording!TypeOK
  <2>2. CASE tracking # None
    <3> DEFINE w == [at |-> "stop", rec |-> tracking, todo |-> RoomRecording!Tracked(tracking),
                     waits |-> {}]
    <3>1. tracking \in Recordings
      BY <2>2 DEF RoomRecording!TypeOK
    <3>2. /\ w \in RoomRecording!Thread /\ w.at = "stop" /\ w.rec = tracking
          /\ \A p \in Parties : Runs(tracking, p) => p \in w.todo
      BY <3>1 DEF RoomRecording!Thread, RoomRecording!Tracked, Runs
    <3>3. finish' = [finish EXCEPT ![f] = w]
      BY <2>2 DEF RoomRecording!TakeTracks
    <3> HIDE DEF w
    <3> QED
      BY <3>1, <3>2, <3>3 DEF RoomRecording!TypeOK
  <2> QED
    BY <2>1, <2>2
<1>6. RoomRecording!TypeOK'
  BY <1>1, <1>4, <1>5 DEF RoomRecording!TypeOK, MultiRecords
<1>7. NewAreFresh'
  BY <1>1, <1>4 DEF NewAreFresh, Fresh
<1>8. StartsAlone' /\ StartKnows' /\ TrackingIsMixed'
  BY <1>1, <1>3, <1>4, ServicesAssumption DEF StartsAlone, StartKnows, TrackingIsMixed
<1>9. FinishersKnow'
  BY <1>1, <1>5 DEF FinishersKnow, TrackingIsMixed, NewAreFresh, Fresh
<1>10. MoversKnow'
  BY <1>1, <1>3, <1>5, FinishersFacts DEF MoversKnow
<1>11. TracksAreHeld'
  <2>1. \A s \in Recordings, q \in Parties : StopIsDue(s, q) => StopIsDue(s, q)'
    BY <1>1, <1>5 DEF StopIsDue
  <2>2. \A s \in Recordings, q \in Parties : tracking = s /\ Runs(s, q) => StopIsDue(s, q)'
    BY <1>5, ServicesAssumption DEF StopIsDue
  <2> QED
    BY <1>1, <2>1, <2>2, ServicesAssumption DEF TracksAreHeld, Runs
<1>12. PresentAreAsked' /\ PausesMatch'
  BY <1>1, <1>4, ServicesAssumption DEF PresentAreAsked, PausesMatch, Runs
<1>13. InputsAreFiled'
  BY <1>1, <1>4 DEF InputsAreFiled
<1> QED
  BY <1>6, <1>7, <1>8, <1>9, <1>10, <1>11, <1>12, <1>13

LEMMA StopTrackInv ==
    ASSUME RecordingInv, NEW f \in RoomRecording!Finishers, NEW p \in Parties,
           RoomRecording!StopTrack(f, p)
    PROVE  RecordingInv'
<1> USE DEF RecordingInv
<1> DEFINE r == finish[f].rec
<1>1. /\ UNCHANGED <<present, gone, joins, mixing, tracking, mix, multi, starting, joining,
                     leaving, pausing, pauses>>
      /\ finish[f].at = "stop" /\ p \in finish[f].todo /\ RoomRecording!StopLeg(r, p)
  BY DEF RoomRecording!StopTrack, RoomRecording!room
<1>2. finish[f] \in RoomRecording!Thread /\ finish[f] # Resting
  BY <1>1, RestingFacts DEF RoomRecording!TypeOK
<1>3. r \in Recordings /\ mix[r].state # "new" /\ tracking = None
  BY <1>1 DEF FinishersKnow
<1>4. starting = Resting /\ \A q \in Parties : leaving[q] # Resting => q # f
  BY <1>2 DEF StartsAlone, MoversKnow
<1>5. /\ finish' \in [RoomRecording!Finishers -> RoomRecording!Thread]
      /\ \A g \in RoomRecording!Finishers \ {f} : finish'[g] = finish[g]
      /\ finish'[f].at = "stop" /\ finish'[f].rec = r /\ finish'[f].todo = finish[f].todo \ {p}
  <2> DEFINE d == finish[f].todo \ {p}
             e == {p} \cap RoomRecording!Tracked(finish[f].rec)
             w == [finish[f] EXCEPT !.todo = d, !.waits = e]
  <2>1. finish' = [finish EXCEPT ![f] = w]
    BY DEF RoomRecording!StopTrack
  <2>2. d \in SUBSET Parties /\ e \in SUBSET Parties
    BY <1>2 DEF RoomRecording!Thread
  <2> HIDE DEF d, e
  <2>3. w \in RoomRecording!Thread /\ w.at = "stop" /\ w.rec = r /\ w.todo = d
    BY <1>1, <1>2, <2>2 DEF RoomRecording!Thread
  <2> HIDE DEF w
  <2> QED
    BY <2>1, <2>3 DEF RoomRecording!TypeOK, d
<1> HIDE DEF r
<1>6. /\ NewAreFresh' /\ TrackingIsMixed' /\ PausesMatch' /\ InputsAreFiled'
      /\ \A s \in Recordings, q \in Parties :
            Runs(s, q)' => Runs(s, q) /\ (s # r \/ q # p)
      /\ \A q \in Parties \ {p} : recordTap'[q] = recordTap[q]
  <2> HIDE DEF RecordingInv
  <2> QED
    BY <1>1, <1>3, StopLegInv
<1>7. RoomRecording!TypeOK'
  <2>1. recordTap' \in [Parties -> Recordings \cup {None}] /\ track' \in Tracks
    BY <1>1, <1>3, StopLegFacts
  <2> QED
    BY <1>1, <1>5, <2>1 DEF RoomRecording!TypeOK, MultiRecords, Tracks, TrackRecords
<1>8. StartsAlone' /\ StartKnows'
  BY <1>1, <1>4 DEF StartsAlone, StartKnows
<1>9. FinishersKnow'
  BY <1>1, <1>3, <1>5 DEF FinishersKnow
<1>10. MoversKnow'
  BY <1>1, <1>4, <1>5, FinishersFacts DEF MoversKnow
<1>11. TracksAreHeld'
  <2>1. \A s \in Recordings, q \in Parties :
           StopIsDue(s, q) /\ (s # r \/ q # p) => StopIsDue(s, q)'
    BY <1>5 DEF StopIsDue, r
  <2> QED
    BY <1>1, <1>3, <1>6, <2>1, ServicesAssumption DEF TracksAreHeld
<1>12. PresentAreAsked'
  BY <1>1, <1>6 DEF PresentAreAsked
<1> QED
  BY <1>6, <1>7, <1>8, <1>9, <1>10, <1>11, <1>12

LEMMA MergeInv ==
    ASSUME RecordingInv, NEW f \in RoomRecording!Finishers, RoomRecording!Merge(f)
    PROVE  RecordingInv'
<1> USE DEF RecordingInv
<1> DEFINE r == finish[f].rec
           in == {p \in multi[r].order : track[r][p].state = "filed"}
<1>1. /\ UNCHANGED <<present, gone, joins, recordTap, mixing, tracking, mix, track, starting,
                     joining, leaving, pausing, pauses>>
      /\ finish[f].at = "stop" /\ finish[f].todo = {}
  BY DEF RoomRecording!Merge, RoomRecording!room
<1>2. finish[f] \in RoomRecording!Thread /\ finish[f] # Resting
  BY <1>1, RestingFacts DEF RoomRecording!TypeOK
<1>3. r \in Recordings /\ mix[r].state # "new" /\ tracking = None
  BY <1>1 DEF FinishersKnow
<1>4. starting = Resting /\ \A q \in Parties : leaving[q] # Resting => q # f
  BY <1>2 DEF StartsAlone, MoversKnow
<1>5. /\ finish' \in [RoomRecording!Finishers -> RoomRecording!Thread]
      /\ \A g \in RoomRecording!Finishers \ {f} : finish'[g] = finish[g]
      /\ finish'[f].at = "mix"
  <2> DEFINE w == [finish[f] EXCEPT !.at = "mix"]
  <2>1. w \in RoomRecording!Thread /\ w.at = "mix"
    BY <1>2, ThreadAt
  <2>2. finish' = [finish EXCEPT ![f] = w]
    BY DEF RoomRecording!Merge
  <2> HIDE DEF w
  <2> QED
    BY <2>1, <2>2 DEF RoomRecording!TypeOK
<1>6. /\ in \subseteq multi[r].order /\ in \subseteq Parties
      /\ \A p \in in : track[r][p].state = "filed"
  BY <1>3 DEF RoomRecording!TypeOK
<1>7. /\ multi' \in [Recordings -> MultiRecords]
      /\ \A s \in Recordings \ {r} : multi'[s] = multi[s]
      /\ multi'[r].active = multi[r].active /\ multi'[r].paused = multi[r].paused
      /\ multi'[r].order = multi[r].order /\ multi'[r].asked = multi[r].asked
      /\ multi'[r].inputs = in
  <2> DEFINE m == [multi[r] EXCEPT !.inputs = in]
  <2>1. multi' = [multi EXCEPT ![r] = m]
    BY DEF RoomRecording!Merge
  <2> HIDE DEF in, r
  <2>2. /\ m \in MultiRecords /\ m.active = multi[r].active /\ m.paused = multi[r].paused
        /\ m.order = multi[r].order /\ m.asked = multi[r].asked /\ m.inputs = in
    <3>1. multi[r] \in MultiRecords
      BY <1>3 DEF MultiRecords, RoomRecording!TypeOK
    <3> QED
      BY <1>6, <3>1 DEF MultiRecords
  <2> HIDE DEF m
  <2> QED
    BY <1>3, <2>1, <2>2 DEF RoomRecording!TypeOK, MultiRecords
<1> HIDE DEF in
<1>8. RoomRecording!TypeOK'
  BY <1>1, <1>5, <1>7 DEF RoomRecording!TypeOK, MultiRecords
<1>9. NewAreFresh'
  BY <1>1, <1>3, <1>7 DEF NewAreFresh, Fresh
<1>10. StartsAlone' /\ StartKnows'
  BY <1>1, <1>4 DEF StartsAlone, StartKnows
<1>11. TrackingIsMixed'
  BY <1>1, <1>3, <1>7 DEF TrackingIsMixed
<1>12. FinishersKnow'
  BY <1>1, <1>3, <1>5 DEF FinishersKnow
<1>13. MoversKnow'
  BY <1>1, <1>4, <1>5, FinishersFacts DEF MoversKnow
<1>14. TracksAreHeld'
  <2>1. \A s \in Recordings, q \in Parties : StopIsDue(s, q) => StopIsDue(s, q)'
    BY <1>1, <1>5 DEF StopIsDue
  <2> QED
    BY <1>1, <2>1 DEF TracksAreHeld, Runs
<1>15. PresentAreAsked' /\ PausesMatch'
  BY <1>1, <1>3, <1>7, ServicesAssumption DEF PresentAreAsked, PausesMatch, Runs
<1>16. InputsAreFiled'
  <2>1. multi[r].active = FALSE
    BY <1>3, ServicesAssumption DEF TrackingIsMixed, RoomRecording!TypeOK
  <2> QED
    BY <1>1, <1>6, <1>7, <2>1 DEF InputsAreFiled
<1> QED
  BY <1>8, <1>9, <1>10, <1>11, <1>12, <1>13, <1>14, <1>15, <1>16

LEMMA StopMixInv ==
    ASSUME RecordingInv, NEW f \in RoomRecording!Finishers, RoomRecording!StopMix(f)
    PROVE  RecordingInv'
<1> USE DEF RecordingInv
<1>1. /\ UNCHANGED <<present, gone, joins, recordTap, tracking, multi, track, starting,
                     joining, leaving, pausing, pauses>>
      /\ finish[f].at = "mix" /\ mixing' = None /\ finish' = [finish EXCEPT ![f] = Resting]
  BY DEF RoomRecording!StopMix, RoomRecording!room, Resting
<1>2. finish[f] # Resting /\ tracking = None
  BY <1>1, RestingFacts DEF FinishersKnow
<1>3. starting = Resting
  BY <1>2 DEF StartsAlone
<1>4. /\ finish' \in [RoomRecording!Finishers -> RoomRecording!Thread]
      /\ finish'[f] = Resting
      /\ \A g \in RoomRecording!Finishers \ {f} : finish'[g] = finish[g]
  BY <1>1, RestingFacts DEF RoomRecording!TypeOK
<1>5. /\ mix' \in [Recordings -> MixRecords]
      /\ \A s \in Recordings :
            \/ mix'[s] = mix[s]
            \/ mix[s].state # "new" /\ mix'[s].state = "stopped"
  <2>1. CASE mixing = None
    BY <2>1 DEF RoomRecording!StopMix, RoomRecording!TypeOK, MixRecords
  <2>2. CASE mixing # None
    <3> DEFINE m == [mix[mixing] EXCEPT !.state = "stopped", !.paused = FALSE]
    <3>1. mixing \in Recordings /\ mix' = [mix EXCEPT ![mixing] = m]
      BY <2>2 DEF RoomRecording!StopMix, RoomRecording!TypeOK
    <3>2. m \in MixRecords /\ m.state = "stopped"
      <4>1. mix[mixing] \in MixRecords
        BY <3>1 DEF MixRecords, RoomRecording!TypeOK
      <4> QED
        BY <4>1 DEF MixRecords
    <3>3. mix[mixing].state # "new"
      BY <3>1 DEF NewAreFresh
    <3> HIDE DEF m
    <3> QED
      BY <3>1, <3>2, <3>3 DEF RoomRecording!TypeOK, MixRecords
  <2> QED
    BY <2>1, <2>2
<1>6. RoomRecording!TypeOK'
  BY <1>1, <1>4, <1>5 DEF RoomRecording!TypeOK, MixRecords
<1>7. NewAreFresh'
  BY <1>1, <1>5, ServicesAssumption DEF NewAreFresh, Fresh
<1>8. StartsAlone' /\ StartKnows'
  BY <1>1, <1>3 DEF StartsAlone, StartKnows
<1>9. TrackingIsMixed' /\ InputsAreFiled'
  BY <1>1, <1>2 DEF TrackingIsMixed, InputsAreFiled
<1>10. FinishersKnow'
  BY <1>1, <1>4, <1>5, RestingFacts DEF FinishersKnow
<1>11. MoversKnow'
  BY <1>1, <1>4, FinishersFacts DEF MoversKnow
<1>12. TracksAreHeld'
  <2>1. \A s \in Recordings, q \in Parties : StopIsDue(s, q) => StopIsDue(s, q)'
    BY <1>1, <1>4 DEF StopIsDue
  <2> QED
    BY <1>1, <2>1 DEF TracksAreHeld, Runs
<1>13. PresentAreAsked' /\ PausesMatch'
  BY <1>1, <1>2, ServicesAssumption DEF PresentAreAsked, PausesMatch, Runs
<1> QED
  BY <1>6, <1>7, <1>8, <1>9, <1>10, <1>11, <1>12, <1>13

LEMMA PauseInv ==
    ASSUME RecordingInv, NEW to \in BOOLEAN, RoomRecording!Pause(to)
    PROVE  RecordingInv'
<1> USE DEF RecordingInv
<1>1. /\ UNCHANGED <<present, gone, joins, recordTap, mixing, tracking, multi, track, starting,
                     joining, leaving, finish>>
      /\ starting = Resting /\ pausing = Resting /\ mixing # None
  BY DEF RoomRecording!Pause, RoomRecording!room, RoomRecording!Quiet, Resting
<1>2. mixing \in Recordings /\ mix[mixing].state # "new"
  BY <1>1 DEF NewAreFresh, RoomRecording!TypeOK
<1>3. /\ mix' \in [Recordings -> MixRecords]
      /\ \A s \in Recordings \ {mixing} : mix'[s] = mix[s]
      /\ mix'[mixing].state = mix[mixing].state /\ mix'[mixing].paused = to
  <2> DEFINE m == [mix[mixing] EXCEPT !.paused = to]
  <2>1. mix' = [mix EXCEPT ![mixing] = m]
    BY DEF RoomRecording!Pause
  <2>2. m \in MixRecords /\ m.state = mix[mixing].state /\ m.paused = to
    <3>1. mix[mixing] \in MixRecords
      BY <1>2 DEF MixRecords, RoomRecording!TypeOK
    <3> QED
      BY <3>1 DEF MixRecords
  <2> HIDE DEF m
  <2> QED
    BY <1>2, <2>1, <2>2 DEF RoomRecording!TypeOK, MixRecords
<1>4. /\ pausing' \in RoomRecording!Thread /\ pausing'.rec = None
      /\ pausing'.at = IF to THEN "pause" ELSE "resume"
  <2> DEFINE a == IF to THEN "pause" ELSE "resume"
  <2>1. a \in {"pause", "resume"}
    OBVIOUS
  <2>2. pausing' = [Resting EXCEPT !.at = a]
    BY DEF RoomRecording!Pause, Resting
  <2> HIDE DEF a
  <2>3. pausing' \in RoomRecording!Thread /\ pausing'.rec = None /\ pausing'.at = a
    BY <2>1, <2>2, RestingFacts DEF RoomRecording!Thread
  <2> QED
    BY <2>3 DEF a
<1>5. /\ pausing' # Resting /\ pausing'.at \in {"pause", "resume"}
      /\ (pausing'.at = "pause") = to
  BY <1>4, RestingFacts
<1>6. RoomRecording!TypeOK'
  <2>1. pauses' \in 0..MaxPauses
    BY ServicesAssumption DEF RoomRecording!Pause, RoomRecording!TypeOK
  <2> QED
    BY <1>1, <1>3, <1>4, <2>1 DEF RoomRecording!TypeOK, MixRecords
<1>7. NewAreFresh'
  BY <1>1, <1>2, <1>3 DEF NewAreFresh, Fresh
<1>8. StartsAlone' /\ StartKnows'
  BY <1>1 DEF StartsAlone, StartKnows
<1>9. TrackingIsMixed' /\ InputsAreFiled' /\ MoversKnow'
  BY <1>1 DEF TrackingIsMixed, InputsAreFiled, MoversKnow
<1>10. FinishersKnow'
  BY <1>1, <1>2, <1>3 DEF FinishersKnow
<1>11. TracksAreHeld' /\ PresentAreAsked'
  BY <1>1 DEF TracksAreHeld, StopIsDue, PresentAreAsked, Runs
<1>12. PausesMatch'
  <2> SUFFICES ASSUME NEW s \in Recordings, tracking = s
               PROVE  /\ mix'[s].paused = (pausing'.at = "pause")
                      /\ \A p \in Parties : Runs(s, p) => track[s][p].paused = multi[s].paused
    BY <1>1, <1>4, <1>5 DEF PausesMatch, Runs
  <2>1. mixing = s
    BY ServicesAssumption DEF TrackingIsMixed
  <2> QED
    BY <1>1, <1>3, <1>5, <2>1, RestingFacts DEF PausesMatch
<1> QED
  BY <1>6, <1>7, <1>8, <1>9, <1>10, <1>11, <1>12

LEMMA PauseMultiInv ==
    ASSUME RecordingInv, RoomRecording!PauseMulti
    PROVE  RecordingInv'
<1> USE DEF RecordingInv
<1>1. /\ UNCHANGED <<present, gone, joins, recordTap, mixing, tracking, mix, track, starting,
                     joining, leaving, finish, pauses>>
      /\ pausing.at \in {"pause", "resume"} /\ pausing.rec = None
  BY DEF RoomRecording!PauseMulti, RoomRecording!room
<1>2. pausing # Resting /\ starting = Resting /\ pausing \in RoomRecording!Thread
  BY <1>1, RestingFacts DEF StartsAlone, RoomRecording!TypeOK
<1>3. CASE tracking = None
  <2>1. multi' = multi /\ pausing' = Resting
    BY <1>3 DEF RoomRecording!PauseMulti, Resting
  <2>2. RoomRecording!TypeOK'
    BY <1>1, <2>1, RestingFacts DEF RoomRecording!TypeOK
  <2>3. NewAreFresh' /\ StartsAlone' /\ StartKnows'
    BY <1>1, <1>2, <2>1 DEF NewAreFresh, Fresh, StartsAlone, StartKnows
  <2>4. TrackingIsMixed' /\ InputsAreFiled' /\ MoversKnow' /\ FinishersKnow'
    BY <1>1, <2>1 DEF TrackingIsMixed, InputsAreFiled, MoversKnow, FinishersKnow
  <2>5. TracksAreHeld' /\ PresentAreAsked'
    BY <1>1, <2>1 DEF TracksAreHeld, StopIsDue, PresentAreAsked, Runs
  <2>6. PausesMatch'
    BY <1>1, <1>3, ServicesAssumption DEF PausesMatch
  <2> QED
    BY <2>2, <2>3, <2>4, <2>5, <2>6
<1>4. CASE tracking # None
  <2> DEFINE r == tracking
             to == pausing.at = "pause"
             m == [multi[r] EXCEPT !.paused = to]
             t == RoomRecording!Tracked(r)
             w == [pausing EXCEPT !.rec = r, !.todo = t]
  <2>1. /\ r \in Recordings /\ multi' = [multi EXCEPT ![r] = m]
        /\ pausing' = IF t = {} THEN Resting ELSE w
    BY <1>4 DEF RoomRecording!PauseMulti, RoomRecording!TypeOK, Resting
  <2>2. t \in SUBSET Parties /\ \A p \in Parties : Runs(r, p) <=> p \in t
    BY DEF RoomRecording!Tracked, Runs
  <2> HIDE DEF r, t
  <2>3. w \in RoomRecording!Thread /\ w.at = pausing.at /\ w.rec = r /\ w.todo = t
    BY <1>2, <2>1, <2>2 DEF RoomRecording!Thread
  <2>4. to \in BOOLEAN
    OBVIOUS
  <2>to. to = (pausing.at = "pause")
    OBVIOUS
  <2> HIDE DEF to, w
  <2>5. /\ m \in MultiRecords /\ m.active = multi[r].active /\ m.paused = to
        /\ m.order = multi[r].order /\ m.asked = multi[r].asked /\ m.inputs = multi[r].inputs
    <3>1. multi[r] \in MultiRecords
      BY <2>1 DEF MultiRecords, RoomRecording!TypeOK
    <3> QED
      BY <2>4, <3>1 DEF MultiRecords
  <2> HIDE DEF m
  <2>6. /\ multi' \in [Recordings -> MultiRecords]
        /\ \A s \in Recordings \ {r} : multi'[s] = multi[s]
        /\ multi'[r].active = multi[r].active /\ multi'[r].paused = to
        /\ multi'[r].order = multi[r].order /\ multi'[r].asked = multi[r].asked
        /\ multi'[r].inputs = multi[r].inputs
    BY <2>1, <2>5 DEF RoomRecording!TypeOK, MultiRecords
  <2>7. pausing' \in RoomRecording!Thread
    BY <2>1, <2>3, RestingFacts
  <2>8. RoomRecording!TypeOK'
    BY <1>1, <2>6, <2>7 DEF RoomRecording!TypeOK, MultiRecords
  <2>9. tracking = r /\ multi[r].active
    BY <2>1 DEF TrackingIsMixed, r
  <2>10. NewAreFresh'
    BY <1>1, <2>1, <2>6, <2>9 DEF NewAreFresh, Fresh
  <2>11. StartsAlone' /\ StartKnows'
    BY <1>1, <1>2 DEF StartsAlone, StartKnows
  <2>12. MoversKnow' /\ FinishersKnow'
    BY <1>1 DEF MoversKnow, FinishersKnow
  <2>13. TrackingIsMixed'
    BY <1>1, <2>1, <2>6 DEF TrackingIsMixed
  <2>14. InputsAreFiled'
    BY <1>1, <2>1, <2>6 DEF InputsAreFiled
  <2>15. TracksAreHeld'
    BY <1>1 DEF TracksAreHeld, StopIsDue, Runs
  <2>16. PresentAreAsked'
    BY <1>1, <2>1, <2>6 DEF PresentAreAsked, Runs
  <2>17. mix[r].paused = to
    BY <1>2, <2>1, <2>9, <2>to DEF PausesMatch
  <2>18. PausesMatch'
    <3> SUFFICES /\ pausing'.rec \in {None, r}
                 /\ pausing' = Resting => multi'[r].paused = mix[r].paused
                 /\ pausing' # Resting =>
                      pausing'.at \in {"pause", "resume"} /\ mix[r].paused = (pausing'.at = "pause")
                 /\ pausing'.rec # None => multi'[r].paused = (pausing'.at = "pause")
                 /\ \A p \in Parties :
                      Runs(r, p) /\ (pausing'.rec = None \/ p \notin pausing'.todo)
                        => track[r][p].paused = multi'[r].paused
      BY <1>1, <2>9 DEF PausesMatch, Runs
    <3>1. CASE t = {}
      BY <2>1, <2>2, <2>6, <2>17, <3>1, RestingFacts
    <3>2. CASE t # {}
      <4>1. /\ pausing' = w /\ pausing'.at = pausing.at /\ pausing'.rec = r /\ pausing'.todo = t
            /\ r # None
        BY <1>4, <2>1, <2>3, <2>9, <3>2
      <4> QED
        BY <1>1, <2>2, <2>6, <2>17, <2>to, <4>1, RestingFacts
    <3> QED
      BY <3>1, <3>2
  <2> QED
    BY <2>8, <2>10, <2>11, <2>12, <2>13, <2>14, <2>15, <2>16, <2>18
<1> QED
  BY <1>3, <1>4

LEMMA PauseTrackInv ==
    ASSUME RecordingInv, NEW p \in Parties, RoomRecording!PauseTrack(p)
    PROVE  RecordingInv'
<1> USE DEF RecordingInv
<1> DEFINE r == pausing.rec
           to == pausing.at = "pause"
<1>1. /\ UNCHANGED <<present, gone, joins, recordTap, mixing, tracking, mix, multi, starting,
                     joining, leaving, finish, pauses>>
      /\ r # None /\ p \in pausing.todo
  BY DEF RoomRecording!PauseTrack, RoomRecording!room
<1>2. /\ pausing # Resting /\ starting = Resting /\ pausing \in RoomRecording!Thread
      /\ r \in Recordings
  BY <1>1, RestingFacts DEF StartsAlone, RoomRecording!TypeOK, RoomRecording!Thread
<1>3. \/ pausing' = Resting /\ pausing.todo = {p}
      \/ /\ pausing' \in RoomRecording!Thread /\ pausing'.at = pausing.at /\ pausing'.rec = r
         /\ pausing'.todo = pausing.todo \ {p}
  <2>1. pausing.todo \ {p} \in SUBSET Parties
    BY <1>2 DEF RoomRecording!Thread
  <2> QED
    BY <1>2, <2>1, ThreadTodo DEF RoomRecording!PauseTrack, Resting
<1>to. to \in BOOLEAN /\ to = (pausing.at = "pause")
  OBVIOUS
<1>4. /\ track' \in Tracks
      /\ \A s \in Recordings, q \in Parties :
            /\ track'[s][q].state = track[s][q].state
            /\ (s # r \/ q # p \/ ~ Runs(s, q)) => track'[s][q] = track[s][q]
      /\ Runs(r, p) => track'[r][p].paused = to
  <2>1. CASE ~ Runs(r, p)
    <3>1. track' = track
      BY <2>1 DEF RoomRecording!PauseTrack, RoomRecording!Tracked, Runs
    <3> QED
      BY <2>1, <3>1 DEF RoomRecording!TypeOK, MultiRecords, Tracks, TrackRecords
  <2>2. CASE Runs(r, p)
    <3> DEFINE t == [track[r][p] EXCEPT !.paused = to]
    <3>1. track' = [track EXCEPT ![r] = [track[r] EXCEPT ![p] = t]]
      BY <2>2 DEF RoomRecording!PauseTrack, RoomRecording!Tracked, Runs
    <3>2. track[r][p] \in TrackRecords
      BY <1>2 DEF RoomRecording!TypeOK, TrackRecords
    <3> HIDE DEF to, r
    <3>3. /\ t \in TrackRecords
          /\ t.state = track[r][p].state /\ t.paused = to
      BY <1>to, <3>2 DEF TrackRecords
    <3> HIDE DEF t
    <3> QED
      BY <1>2, <2>2, <3>1, <3>3 DEF RoomRecording!TypeOK, MultiRecords, Tracks, TrackRecords
  <2> QED
    BY <2>1, <2>2
<1> HIDE DEF to
<1>5. \A s \in Recordings, q \in Parties : Runs(s, q)' <=> Runs(s, q)
  BY <1>4 DEF Runs
<1>6. RoomRecording!TypeOK'
  <2>1. pausing' \in RoomRecording!Thread
    BY <1>3, RestingFacts
  <2> QED
    BY <1>1, <1>4, <2>1 DEF RoomRecording!TypeOK, MultiRecords, Tracks, TrackRecords
<1>7. NewAreFresh'
  BY <1>1, <1>4 DEF NewAreFresh, Fresh
<1>8. StartsAlone' /\ StartKnows'
  BY <1>1, <1>2 DEF StartsAlone, StartKnows
<1>9. TrackingIsMixed' /\ MoversKnow' /\ FinishersKnow'
  BY <1>1 DEF TrackingIsMixed, MoversKnow, FinishersKnow
<1>10. InputsAreFiled'
  <2> SUFFICES ASSUME NEW s \in Recordings, multi[s].inputs # None, NEW q \in multi[s].inputs
               PROVE  track'[s][q].state = "filed"
    BY <1>1 DEF InputsAreFiled
  <2>1. q \in Parties /\ track[s][q].state = "filed"
    <3>1. multi[s].order \subseteq Parties
      BY DEF RoomRecording!TypeOK
    <3> QED
      BY <3>1 DEF InputsAreFiled
  <2> QED
    BY <1>4, <2>1
<1>11. TracksAreHeld' /\ PresentAreAsked'
  BY <1>1, <1>5 DEF TracksAreHeld, StopIsDue, PresentAreAsked
<1>12. PausesMatch'
  <2> SUFFICES ASSUME tracking = r
               PROVE  /\ pausing'.rec \in {None, r}
                      /\ pausing' = Resting => multi[r].paused = mix[r].paused
                      /\ pausing' # Resting =>
                           /\ pausing'.at \in {"pause", "resume"}
                           /\ mix[r].paused = (pausing'.at = "pause")
                      /\ pausing'.rec # None => multi[r].paused = (pausing'.at = "pause")
                      /\ \A q \in Parties :
                           Runs(r, q) /\ (pausing'.rec = None \/ q \notin pausing'.todo)
                             => track'[r][q].paused = multi[r].paused
    <3> HIDE DEF r
    <3>1. \A s \in Recordings : tracking = s => s = r
      BY <1>1, ServicesAssumption DEF PausesMatch, r
    <3> QED
      BY <1>1, <1>2, <1>5, <3>1 DEF PausesMatch
  <2>1. /\ multi[r].paused = to /\ mix[r].paused = to /\ pausing.at \in {"pause", "resume"}
        /\ \A q \in Parties : Runs(r, q) /\ q \notin pausing.todo
              => track[r][q].paused = multi[r].paused
    BY <1>1, <1>2, <1>to DEF PausesMatch
  <2>2. \A q \in Parties : Runs(r, q) /\ (q = p \/ q \notin pausing.todo)
              => track'[r][q].paused = multi[r].paused
    BY <1>2, <1>4, <2>1
  <2>r. r # None
    BY <1>1
  <2> HIDE DEF r
  <2>3. CASE pausing' = Resting /\ pausing.todo = {p}
    BY <2>1, <2>2, <2>3, RestingFacts
  <2>4. CASE /\ pausing' \in RoomRecording!Thread /\ pausing'.at = pausing.at
             /\ pausing'.rec = r /\ pausing'.todo = pausing.todo \ {p}
    BY <2>1, <2>2, <2>4, <2>r, <1>to, RestingFacts
  <2> QED
    BY <1>3, <2>3, <2>4 DEF r
<1> QED
  BY <1>6, <1>7, <1>8, <1>9, <1>10, <1>11, <1>12

-----------------------------------------------------------------------------
LEMMA RecordingInvInit == RoomRecording!Init => RecordingInv
<1> SUFFICES ASSUME RoomRecording!Init PROVE RecordingInv
  OBVIOUS
<1>1. /\ present \in SUBSET Parties /\ gone = {} /\ mixing = None /\ tracking = None
      /\ joins = [p \in Parties |-> IF p \in present THEN 1 ELSE 0]
      /\ recordTap = [p \in Parties |-> None] /\ pauses = 0
      /\ starting = Resting /\ pausing = Resting
      /\ finish = [f \in RoomRecording!Finishers |-> Resting]
      /\ joining = [p \in Parties |-> None] /\ leaving = [p \in Parties |-> Resting]
  BY DEF RoomRecording!Init, Resting
<1>2. /\ mix \in [Recordings -> MixRecords]
      /\ \A r \in Recordings : mix[r].state = "new" /\ mix[r].paused = FALSE
  BY DEF RoomRecording!Init, MixRecords
<1>3. /\ multi \in [Recordings -> MultiRecords]
      /\ \A r \in Recordings :
            /\ multi[r].active = FALSE /\ multi[r].paused = FALSE
            /\ multi[r].order = {} /\ multi[r].asked = {} /\ multi[r].inputs = None
  <2> DEFINE m == [active |-> FALSE, paused |-> FALSE, order |-> {}, asked |-> {}, inputs |-> None]
  <2>1. /\ m \in MultiRecords /\ m.active = FALSE /\ m.paused = FALSE
        /\ m.order = {} /\ m.asked = {} /\ m.inputs = None
    <3>1. {} \in SUBSET Parties /\ None \in (SUBSET Parties) \cup {None}
      BY Zenon
    <3>2. m \in MultiRecords
      BY <3>1, Zenon DEF MultiRecords
    <3> QED
      BY <3>2, Zenon
  <2>2. multi = [r \in Recordings |-> m]
    BY DEF RoomRecording!Init
  <2> HIDE DEF m
  <2> QED
    BY <2>1, <2>2
<1>4. /\ track \in Tracks
      /\ \A r \in Recordings, p \in Parties : track[r][p].state = "none"
  BY DEF RoomRecording!Init, RoomRecording!NotTracked, MultiRecords, Tracks, TrackRecords
<1>5. RoomRecording!TypeOK
  <2>1. joins \in [Parties -> 0..MaxJoins] /\ pauses \in 0..MaxPauses
    BY <1>1, ServicesAssumption
  <2> QED
    BY <2>1, <1>1, <1>2, <1>3, <1>4, RestingFacts, ServicesAssumption
       DEF RoomRecording!TypeOK, Tracks, TrackRecords, MixRecords, MultiRecords
<1>6. NewAreFresh /\ InputsAreFiled
  BY <1>1, <1>2, <1>3, <1>4, ServicesAssumption DEF NewAreFresh, Fresh, InputsAreFiled
<1>7. StartsAlone /\ StartKnows /\ TrackingIsMixed /\ FinishersKnow /\ MoversKnow
  BY <1>1, <1>3, RestingFacts, ServicesAssumption
     DEF StartsAlone, StartKnows, TrackingIsMixed, FinishersKnow, MoversKnow
<1>8. TracksAreHeld /\ PresentAreAsked /\ PausesMatch
  BY <1>1, <1>3, <1>4, ServicesAssumption DEF TracksAreHeld, PresentAreAsked, PausesMatch, Runs
<1> QED
  BY <1>5, <1>6, <1>7, <1>8 DEF RecordingInv

LEMMA RecordingInvStep ==
    RecordingInv /\ [RoomRecording!Next]_recordingVars => RecordingInv'
<1> SUFFICES ASSUME RecordingInv, [RoomRecording!Next]_recordingVars PROVE RecordingInv'
  OBVIOUS
<1>1. CASE UNCHANGED recordingVars
  <2> USE <1>1 DEF RecordingInv, recordingVars
  <2>1. RoomRecording!TypeOK'
    BY DEF RoomRecording!TypeOK
  <2>2. NewAreFresh' /\ StartsAlone' /\ StartKnows' /\ TrackingIsMixed' /\ FinishersKnow'
    BY DEF NewAreFresh, Fresh, StartsAlone, StartKnows, TrackingIsMixed, FinishersKnow
  <2>3. MoversKnow' /\ TracksAreHeld'
    BY DEF MoversKnow, TracksAreHeld, StopIsDue, Runs
  <2>4. PresentAreAsked' /\ PausesMatch' /\ InputsAreFiled'
    BY DEF PresentAreAsked, PausesMatch, InputsAreFiled, Runs
  <2> QED
    BY <2>1, <2>2, <2>3, <2>4
<1>2. CASE RoomRecording!Next
  BY <1>2, StartRecordingInv, RegisterMixInv, RegisterMultiInv, StopRecordingInv,
     PauseMultiInv, StartSourceInv, JoinInv, JoinHookInv, LeaveInv, RemoveInv, JudgeEmptyInv,
     PauseTrackInv, TrackEndsInv, TakeTracksInv, MergeInv, StopMixInv, StopTrackInv, PauseInv
     DEF RoomRecording!Next
<1> QED
  BY <1>1, <1>2

LEMMA RecordingIsSound ==
    RecordingInv => /\ RoomRecording!TypeOK /\ RoomRecording!TracksFollowRoom
                    /\ RoomRecording!PauseCoversTracks /\ RoomRecording!MergeIsAccounted
<1> SUFFICES ASSUME RecordingInv
             PROVE  /\ RoomRecording!TracksFollowRoom /\ RoomRecording!PauseCoversTracks
                    /\ RoomRecording!MergeIsAccounted
  BY DEF RecordingInv
<1> USE DEF RecordingInv
<1>1. ASSUME RoomRecording!AtRest
      PROVE  /\ starting = Resting /\ pausing = Resting
             /\ \A p \in Parties : joining[p] = None /\ leaving[p] = Resting
             /\ \A f \in RoomRecording!Finishers : finish[f] = Resting
  BY <1>1 DEF RoomRecording!AtRest, RoomRecording!NoCallUnderWay, Resting
<1>2. RoomRecording!TracksFollowRoom
  <2> SUFFICES ASSUME RoomRecording!AtRest, NEW r \in Recordings, NEW p \in Parties
               PROVE  /\ Runs(r, p) => tracking = r /\ p \in present /\ recordTap[p] = r
                      /\ tracking = r /\ p \in present => p \in multi[r].asked
    BY DEF RoomRecording!TracksFollowRoom, RoomRecording!Tracked, Runs
  <2>1. ~ StopIsDue(r, p)
    BY <1>1, RestingFacts DEF StopIsDue
  <2>2. Runs(r, p) => tracking = r /\ p \in present /\ recordTap[p] = r
    BY <2>1 DEF TracksAreHeld
  <2>3. tracking = r /\ p \in present => p \in multi[r].asked
    BY <1>1, RestingFacts, ServicesAssumption DEF PresentAreAsked
  <2> QED
    BY <2>2, <2>3
<1>3. RoomRecording!PauseCoversTracks
  <2> SUFFICES ASSUME RoomRecording!AtRest, NEW r \in Recordings, tracking = r,
                      NEW p \in Parties, Runs(r, p)
               PROVE  track[r][p].paused = mix[r].paused
    BY DEF RoomRecording!PauseCoversTracks, RoomRecording!Tracked, Runs, RoomRecording!TypeOK
  <2> QED
    BY <1>1, RestingFacts DEF PausesMatch
<1>4. RoomRecording!MergeIsAccounted
  BY DEF RoomRecording!MergeIsAccounted, RoomRecording!Omitted, InputsAreFiled, PresentAreAsked
<1> QED
  BY <1>2, <1>3, <1>4

(* Once no call is under way a room's tracks are those of its parties, they are     *)
(* paused while the mix is, and whoever was to be recorded is in the merged file or  *)
(* named as omitted: for any parties, recordings, joins and pauses (recording.go).   *)
THEOREM TracksStaySound ==
    RoomRecording!Spec =>
        [](/\ RoomRecording!TypeOK /\ RoomRecording!TracksFollowRoom
           /\ RoomRecording!PauseCoversTracks /\ RoomRecording!MergeIsAccounted)
<1>1. RecordingInv /\ [RoomRecording!Next]_(RoomRecording!vars) => RecordingInv'
  BY RecordingInvStep DEF recordingVars, RoomRecording!vars, RoomRecording!room
<1> QED
  BY <1>1, RecordingInvInit, RecordingIsSound, PTL DEF RoomRecording!Spec

(* The same of the composite: its steps are the recording's own or leave it alone.   *)
THEOREM TracksStayAccounted == MCSpec => []TracksAreAccounted
<1>1. [MCNext]_<<active, vars, trunkVars, registrarVars, recordingVars, streamVars>>
         => [RoomRecording!Next]_recordingVars
  BY DEF MCNext
<1>2. MCInit => RoomRecording!Init
  BY DEF MCInit
<1>3. RecordingInv => TracksAreAccounted
  BY RecordingIsSound DEF TracksAreAccounted
<1> QED
  BY <1>1, <1>2, <1>3, RecordingInvInit, RecordingInvStep, PTL DEF MCSpec

-----------------------------------------------------------------------------
(* Trunks: who stops a trunk waits for its loop, and then has its CSeq and its *)
(* status to itself and the other stoppers.                                    *)

Stoppers == SipTrunks!Stoppers
Registers(t) == SipTrunks!Registers(t)

\* From the cancellation to the final status, and to the final event.
Settling == {"await", "unregister", "wait", "gone", "unsure"}
Ending == Settling \cup {"tell unregistered", "tell shutdown"}
StoppedAt(t, pcs) == \E p \in Stoppers : stop[p].trunk = t /\ stop[p].pc \in pcs

TrunkRecords == [status : {"none", "registering", "active", "failed",
                           "unregistering", "expired"},
                 run : {"new", "armed", "cancelled"}, seq : Nat,
                 granted : BOOLEAN, late : BOOLEAN, lapseTold : BOOLEAN, once : BOOLEAN]
LoopRecords == [pc : SipTrunks!LoopPCs, seq : Nat, auth : BOOLEAN, reply : SipTrunks!Replies]
StopRecords == [pc : SipTrunks!StopPCs, trunk : Trunks \cup {None}, seq : Nat,
                auth : BOOLEAN, reply : SipTrunks!Replies]
Events == {"none", "active", "failed", "lapsed", "up", "down", "unregistered", "shutdown"}

TrunkTypes ==
    /\ byID \subseteq Trunks
    /\ byAOR \in [SipTrunks!AORs -> Trunks \cup {None}]
    /\ trust \in [SipTrunks!Hosts -> Nat]
    /\ trunk \in [Trunks -> TrunkRecords]
    /\ loop \in [Trunks -> LoopRecords]
    /\ told \in [Trunks -> Events]
    /\ stop \in [Stoppers -> StopRecords]
    /\ shutdown \in {"no", "stopping", "done"}
    /\ registrar \in [Trunks -> [bound : BOOLEAN, seq : Nat]]
    /\ wire \subseteq [trunk : Trunks, seq : Nat, bind : BOOLEAN]

\* The loop is there from Start, and over only when it was cancelled.
LoopsMatch == \A t \in Trunks :
    /\ loop[t].pc = "none" <=> trunk[t].run = "new"
    /\ trunk[t].run = "new" => told[t] = "none"
    /\ loop[t].pc = "done" => trunk[t].run = "cancelled"

\* A stopper has a trunk that was started, cancels it first, and waits for its loop.
StoppersKnow == \A p \in Stoppers :
    /\ stop[p].pc \in {"idle", "over"} <=> stop[p].trunk = None
    /\ \A t \in Trunks : stop[p].trunk = t =>
          /\ trunk[t].run # "new"
          /\ stop[p].pc # "stop" => trunk[t].run = "cancelled"
          /\ stop[p].pc \notin {"stop", "await"} => loop[t].pc = "done"

\* Only a trunk that registers is unregistered.
StoppersRegister == \A p \in Stoppers, t \in Trunks :
    stop[p].trunk = t /\ stop[p].pc \in {"wait", "tell unregistered", "tell shutdown"} =>
        Kind[t] = "sip_register"

\* Shutdown's goroutines are there from its begin.
ShutdownIsNew == shutdown = "no" => \A t \in Trunks : stop[t] = SipTrunks!Nowhere

\* Where the loop of a trunk that nobody stops has told its status.
LoopRests == {"none", "send", "wait", "sleep", "done"}
RegisterTold(t) ==
    /\ loop[t].pc \in LoopRests =>
          \/ trunk[t].status \in {"none", "registering"} /\ told[t] = "none"
          \/ trunk[t].status = "active" /\ told[t] = "active"
          \/ trunk[t].status = "failed" /\ told[t] \in {"failed", "lapsed"}
    /\ loop[t].pc = "tell active" => trunk[t].status = "active"
    /\ loop[t].pc \in {"tell failed", "tell both", "tell lapsed"} => trunk[t].status = "failed"
    /\ loop[t].pc \notin {"tell up", "tell down"}

PingTold(t) ==
    /\ loop[t].pc \in LoopRests =>
          \/ trunk[t].status \in {"none", "active"} /\ told[t] = "none"
          \/ trunk[t].status = "active" /\ told[t] = "up"
          \/ trunk[t].status = "failed" /\ told[t] = "down"
    /\ loop[t].pc = "tell up" => trunk[t].status = "active"
    /\ loop[t].pc = "tell down" => trunk[t].status = "failed"
    /\ loop[t].pc \in LoopRests \cup {"tell up", "tell down"}

\* A cancelled loop that still runs has someone who waits for it; a status that is not
\* the final one has someone who will set it, and one that is was told or will be.
StopTold(t) ==
    /\ loop[t].pc # "done" => StoppedAt(t, {"await"})
    /\ trunk[t].status # "expired" => StoppedAt(t, Settling)
    /\ trunk[t].status = "expired" =>
          StoppedAt(t, Ending) \/ told[t] \in {"unregistered", "shutdown"}

StatusTold(t) ==
    /\ ~Registers(t) => PingTold(t)
    /\ Registers(t) /\ trunk[t].run # "cancelled" => RegisterTold(t)
    /\ Registers(t) /\ trunk[t].run = "cancelled" => StopTold(t)
StatusMatches == \A t \in Trunks : StatusTold(t)

\* No REGISTER on its way brings a binding back.
Unbound(t) ==
    /\ ~registrar[t].bound
    /\ \A m \in wire : m.trunk = t /\ m.bind => m.seq <= registrar[t].seq

SeqsMatch ==
    /\ \A m \in wire : m.seq <= trunk[m.trunk].seq
    /\ \A p \in Stoppers, t \in Trunks : stop[p].trunk = t =>
          /\ stop[p].pc = "wait" =>
                \A m \in wire : m.trunk = t /\ m.bind => m.seq < stop[p].seq
          /\ stop[p].pc = "wait" /\ stop[p].reply = "ok" => Unbound(t)
          /\ stop[p].pc \in {"gone", "tell unregistered"} => Unbound(t)
    /\ \A t \in Trunks : told[t] = "unregistered" => Unbound(t) /\ loop[t].pc = "done"

AORsMatch == \A a \in SipTrunks!AORs : byAOR[a] # None =>
    byAOR[a] \in byID /\ AOR[byAOR[a]] = a

TrunkInv ==
    /\ TrunkTypes /\ LoopsMatch /\ StoppersKnow /\ StoppersRegister /\ ShutdownIsNew
    /\ StatusMatches /\ SeqsMatch /\ AORsMatch /\ SipTrunks!TrustIsCounted

(* A step of a loop that goes from rest to rest.                                  *)
LEMMA LoopMoveInv ==
    ASSUME TrunkInv, NEW t \in Trunks, NEW rec \in LoopRecords,
           loop' = [loop EXCEPT ![t] = rec],
           loop[t].pc \in LoopRests \ {"none", "done"}, rec.pc \in LoopRests \ {"none"},
           rec.pc = "done" => trunk[t].run = "cancelled",
           UNCHANGED <<byID, byAOR, trust, trunk, told, stop, shutdown, registrar, wire>>
    PROVE  TrunkInv'
<1> USE DEF TrunkInv
<1>1. TrunkTypes'
  BY DEF TrunkTypes
<1> USE DEF TrunkTypes
<1>2. /\ \A u \in Trunks : u # t => loop'[u] = loop[u]
      /\ loop'[t] = rec
  OBVIOUS
<1>3. LoopsMatch'
  BY <1>2 DEF LoopsMatch, LoopRests
<1>4. StoppersKnow' /\ StoppersRegister'
  <2>1. StoppersKnow'
    BY <1>2 DEF StoppersKnow
  <2>2. StoppersRegister'
    BY <1>2 DEF StoppersRegister, Registers, SipTrunks!Registers
  <2> QED
    BY <2>1, <2>2
<1>5. ShutdownIsNew'
  BY DEF ShutdownIsNew
<1>6. StatusMatches'
  <2> SUFFICES ASSUME NEW u \in Trunks
               PROVE  /\ ~Registers(u) => PingTold(u)'
                      /\ Registers(u) /\ trunk[u].run # "cancelled" => RegisterTold(u)'
                      /\ Registers(u) /\ trunk[u].run = "cancelled" => StopTold(u)'
    BY DEF StatusMatches, StatusTold, Registers, SipTrunks!Registers
  <2>1. /\ ~Registers(u) => PingTold(u)
        /\ Registers(u) /\ trunk[u].run # "cancelled" => RegisterTold(u)
        /\ Registers(u) /\ trunk[u].run = "cancelled" => StopTold(u)
    BY DEF StatusMatches, StatusTold
  <2>2. ~Registers(u) => PingTold(u)'
    BY <1>2, <2>1 DEF PingTold, LoopRests
  <2>3. Registers(u) /\ trunk[u].run # "cancelled" => RegisterTold(u)'
    BY <1>2, <2>1 DEF RegisterTold, LoopRests
  <2>4. Registers(u) /\ trunk[u].run = "cancelled" => StopTold(u)'
    BY <1>2, <2>1 DEF StopTold, StoppedAt
  <2> QED
    BY <2>2, <2>3, <2>4
<1>7. SeqsMatch'
  BY <1>2 DEF SeqsMatch, Unbound, LoopRests
<1>8. AORsMatch' /\ SipTrunks!TrustIsCounted'
  BY DEF AORsMatch, SipTrunks!TrustIsCounted
<1> QED
  BY <1>1, <1>3, <1>4, <1>5, <1>6, <1>7, <1>8

(* A stopper that has waited for the loop goes on before the final status.        *)
LEMMA StopMoveInv ==
    ASSUME TrunkInv, NEW p \in Stoppers, NEW t \in Trunks, NEW rec \in StopRecords,
           stop' = [stop EXCEPT ![p] = rec], stop[p].trunk = t, rec.trunk = t,
           stop[p].pc \in Settling, rec.pc \in {"unregister", "gone", "unsure"},
           loop[t].pc = "done", rec.pc = "gone" => Unbound(t),
           UNCHANGED <<byID, byAOR, trust, trunk, loop, told, shutdown, registrar, wire>>
    PROVE  TrunkInv'
<1> USE DEF TrunkInv
<1>1. TrunkTypes'
  BY DEF TrunkTypes
<1> USE DEF TrunkTypes
<1>2. /\ \A q \in Stoppers : q # p => stop'[q] = stop[q]
      /\ stop'[p] = rec /\ t # None /\ trunk[t].run = "cancelled"
  BY ServicesAssumption DEF StoppersKnow, Settling
<1>3. LoopsMatch'
  BY DEF LoopsMatch
<1>4. StoppersKnow' /\ StoppersRegister'
  <2>1. StoppersKnow'
    BY <1>2 DEF StoppersKnow
  <2>2. StoppersRegister'
    BY <1>2 DEF StoppersRegister, Registers, SipTrunks!Registers
  <2> QED
    BY <2>1, <2>2
<1>5. ShutdownIsNew'
  <2>1. shutdown = "no" => p \notin Trunks
    BY <1>2 DEF ShutdownIsNew, SipTrunks!Nowhere
  <2> QED
    BY <1>2, <2>1 DEF ShutdownIsNew, Stoppers, SipTrunks!Stoppers
<1>6. StatusMatches'
  <2> SUFFICES ASSUME NEW u \in Trunks
               PROVE  /\ ~Registers(u) => PingTold(u)'
                      /\ Registers(u) /\ trunk[u].run # "cancelled" => RegisterTold(u)'
                      /\ Registers(u) /\ trunk[u].run = "cancelled" => StopTold(u)'
    BY DEF StatusMatches, StatusTold, Registers, SipTrunks!Registers
  <2>1. /\ ~Registers(u) => PingTold(u)
        /\ Registers(u) /\ trunk[u].run # "cancelled" => RegisterTold(u)
        /\ Registers(u) /\ trunk[u].run = "cancelled" => StopTold(u)
    BY DEF StatusMatches, StatusTold
  <2>2. ~Registers(u) => PingTold(u)'
    BY <2>1 DEF PingTold
  <2>3. Registers(u) /\ trunk[u].run # "cancelled" => RegisterTold(u)'
    BY <2>1 DEF RegisterTold
  <2>4. Registers(u) /\ trunk[u].run = "cancelled" => StopTold(u)'
    <3>1. StoppedAt(t, Settling)' /\ StoppedAt(t, Ending)'
      BY <1>2 DEF StoppedAt, Settling, Ending
    <3>2. u # t => /\ StoppedAt(u, {"await"}) => StoppedAt(u, {"await"})'
                   /\ StoppedAt(u, Settling) => StoppedAt(u, Settling)'
                   /\ StoppedAt(u, Ending) => StoppedAt(u, Ending)'
      BY <1>2 DEF StoppedAt
    <3> QED
      BY <2>1, <3>1, <3>2 DEF StopTold
  <2> QED
    BY <2>2, <2>3, <2>4
<1>7. SeqsMatch'
  <2>1. ASSUME NEW q \in Stoppers, NEW u \in Trunks, stop'[q].trunk = u
        PROVE  /\ stop'[q].pc = "wait" =>
                     \A m \in wire : m.trunk = u /\ m.bind => m.seq < stop'[q].seq
               /\ stop'[q].pc = "wait" /\ stop'[q].reply = "ok" => Unbound(u)
               /\ stop'[q].pc \in {"gone", "tell unregistered"} => Unbound(u)
    BY <1>2, <2>1 DEF SeqsMatch
  <2>2. \A u \in Trunks : Unbound(u)' <=> Unbound(u)
    BY DEF Unbound
  <2> QED
    BY <2>1, <2>2 DEF SeqsMatch
<1>8. AORsMatch' /\ SipTrunks!TrustIsCounted'
  BY DEF AORsMatch, SipTrunks!TrustIsCounted
<1> QED
  BY <1>1, <1>3, <1>4, <1>5, <1>6, <1>7, <1>8

LEMMA SmallLoopSteps ==
    ASSUME TrunkInv, NEW t \in Trunks,
           \/ SipTrunks!Challenged(t) \/ SipTrunks!Wake(t) \/ SipTrunks!LoopEnds(t)
           \/ SipTrunks!SendOptions(t) \/ SipTrunks!PingIgnored(t)
    PROVE  TrunkInv'
<1>1. loop[t] \in LoopRecords
  BY DEF TrunkInv, TrunkTypes
<1>2. /\ \A pc \in LoopRests : [loop[t] EXCEPT !.pc = pc] \in LoopRecords
      /\ [loop[t] EXCEPT !.pc = "send", !.auth = TRUE, !.reply = "none"] \in LoopRecords
      /\ \A pc \in LoopRests : [loop[t] EXCEPT !.pc = pc].pc = pc
      /\ [loop[t] EXCEPT !.pc = "send", !.auth = TRUE, !.reply = "none"].pc = "send"
  BY <1>1 DEF LoopRecords, SipTrunks!LoopPCs, SipTrunks!Replies, LoopRests
<1>3. CASE SipTrunks!Challenged(t)
  <2> DEFINE rec == [loop[t] EXCEPT !.pc = "send", !.auth = TRUE, !.reply = "none"]
  <2>1. /\ loop' = [loop EXCEPT ![t] = rec] /\ loop[t].pc = "wait"
        /\ UNCHANGED <<byID, byAOR, trust, trunk, told, stop, shutdown, registrar, wire>>
    BY <1>3 DEF SipTrunks!Challenged, SipTrunks!LoopAt, SipTrunks!upstream
  <2>2. rec \in LoopRecords /\ rec.pc = "send"
    BY <1>2
  <2> HIDE DEF rec
  <2> QED
    BY <2>1, <2>2, LoopMoveInv DEF LoopRests
<1>4. ASSUME NEW pc \in LoopRests \ {"none"}, pc = "done" => trunk[t].run = "cancelled",
             loop' = [loop EXCEPT ![t].pc = pc], loop[t].pc \in LoopRests \ {"none", "done"},
             UNCHANGED <<byID, byAOR, trust, trunk, told, stop, shutdown, registrar, wire>>
      PROVE  TrunkInv'
  <2> DEFINE rec == [loop[t] EXCEPT !.pc = pc]
  <2>1. rec \in LoopRecords /\ rec.pc = pc /\ loop' = [loop EXCEPT ![t] = rec]
    BY <1>2, <1>4
  <2> HIDE DEF rec
  <2> QED
    BY <1>4, <2>1, LoopMoveInv
<1>5. CASE SipTrunks!Wake(t)
  BY <1>5, <1>4 DEF SipTrunks!Wake, SipTrunks!LoopAt, SipTrunks!upstream, LoopRests
<1>6. CASE SipTrunks!LoopEnds(t)
  BY <1>6, <1>4 DEF SipTrunks!LoopEnds, SipTrunks!LoopAt, SipTrunks!upstream, LoopRests,
     SipTrunks!Cancelled
<1>7. CASE SipTrunks!SendOptions(t)
  BY <1>7, <1>4 DEF SipTrunks!SendOptions, SipTrunks!LoopAt, SipTrunks!upstream, LoopRests
<1>8. CASE SipTrunks!PingIgnored(t)
  BY <1>8, <1>4 DEF SipTrunks!PingIgnored, SipTrunks!LoopAt, SipTrunks!upstream, LoopRests
<1> QED
  BY <1>3, <1>5, <1>6, <1>7, <1>8

LEMMA SmallStopSteps ==
    ASSUME TrunkInv, NEW p \in Stoppers,
           \/ SipTrunks!StopAwaitsLoop(p) \/ SipTrunks!UnregisterChallenged(p)
           \/ SipTrunks!UnregisterEnds(p) \/ SipTrunks!StopPing(p)
    PROVE  TrunkInv'
<1> DEFINE t == stop[p].trunk
<1>1. stop[p] \in StopRecords
  BY DEF TrunkInv, TrunkTypes
<1>2. /\ \A pc \in SipTrunks!StopPCs :
            /\ [stop[p] EXCEPT !.pc = pc] \in StopRecords
            /\ [stop[p] EXCEPT !.pc = pc].pc = pc /\ [stop[p] EXCEPT !.pc = pc].trunk = t
      /\ [stop[p] EXCEPT !.pc = "unregister", !.auth = TRUE, !.reply = "none"] \in StopRecords
      /\ [stop[p] EXCEPT !.pc = "unregister", !.auth = TRUE, !.reply = "none"].pc = "unregister"
      /\ [stop[p] EXCEPT !.pc = "unregister", !.auth = TRUE, !.reply = "none"].trunk = t
  BY <1>1 DEF StopRecords, SipTrunks!StopPCs, SipTrunks!Replies
<1>3. stop[p].pc \in Settling => t \in Trunks
  BY <1>1 DEF TrunkInv, StoppersKnow, Settling, StopRecords
<1> HIDE DEF t
<1>4. stop[p].pc \in Settling \ {"await"} => loop[t].pc = "done"
  BY <1>3 DEF TrunkInv, StoppersKnow, Settling, t
<1>5. stop[p].pc = "wait" /\ stop[p].reply = "ok" => Unbound(t)
  BY <1>3 DEF TrunkInv, SeqsMatch, Settling, t
<1>6. CASE SipTrunks!UnregisterChallenged(p)
  <2> DEFINE rec == [stop[p] EXCEPT !.pc = "unregister", !.auth = TRUE, !.reply = "none"]
  <2>1. /\ stop' = [stop EXCEPT ![p] = rec] /\ stop[p].pc = "wait"
        /\ UNCHANGED <<byID, byAOR, trust, trunk, loop, told, shutdown, registrar, wire>>
    BY <1>6 DEF SipTrunks!UnregisterChallenged, SipTrunks!StopAt, SipTrunks!upstream
  <2>2. rec \in StopRecords /\ rec.pc = "unregister" /\ rec.trunk = t
    BY <1>2
  <2> HIDE DEF rec
  <2>3. stop[p].pc \in Settling \ {"await"} /\ stop[p].trunk = t
    BY <2>1 DEF Settling, t
  <2> QED
    BY <1>3, <1>4, <2>1, <2>2, <2>3, StopMoveInv
<1>7. ASSUME NEW pc \in {"unregister", "gone", "unsure"}, stop[p].pc \in Settling,
             loop[t].pc = "done", pc = "gone" => Unbound(t),
             stop' = [stop EXCEPT ![p].pc = pc],
             UNCHANGED <<byID, byAOR, trust, trunk, loop, told, shutdown, registrar, wire>>
      PROVE  TrunkInv'
  <2> DEFINE rec == [stop[p] EXCEPT !.pc = pc]
  <2>1. /\ rec \in StopRecords /\ rec.pc = pc /\ rec.trunk = t
        /\ stop' = [stop EXCEPT ![p] = rec] /\ stop[p].trunk = t
    BY <1>2, <1>7 DEF SipTrunks!StopPCs, t
  <2> HIDE DEF rec
  <2> QED
    BY <1>3, <1>7, <2>1, StopMoveInv
<1>8. CASE SipTrunks!StopAwaitsLoop(p)
  BY <1>8, <1>7 DEF SipTrunks!StopAwaitsLoop, SipTrunks!StopAt, SipTrunks!LoopOver,
     SipTrunks!LoopAt, SipTrunks!upstream, Settling, t
<1>9. CASE SipTrunks!UnregisterEnds(p)
  BY <1>9, <1>4, <1>5, <1>7 DEF SipTrunks!UnregisterEnds, SipTrunks!StopAt,
     SipTrunks!upstream, Settling
<1>10. CASE SipTrunks!StopPing(p)
  BY <1>10, <1>4, <1>7 DEF SipTrunks!StopPing, SipTrunks!StopAt, SipTrunks!upstream, Settling
<1> QED
  BY <1>6, <1>8, <1>9, <1>10

(* A step of a loop that records or tells something of its trunk.                 *)
LEMMA LoopStepInv ==
    ASSUME TrunkInv, NEW t \in Trunks, NEW rec \in TrunkRecords, NEW run \in LoopRecords,
           NEW event \in Events, NEW sent \in SUBSET [trunk : {t}, seq : {rec.seq}, bind : {TRUE}],
           trunk' = [trunk EXCEPT ![t] = rec], loop' = [loop EXCEPT ![t] = run],
           told' = [told EXCEPT ![t] = event], wire' = wire \cup sent,
           UNCHANGED <<byID, byAOR, trust, stop, shutdown, registrar>>,
           loop[t].pc \notin {"none", "done"}, run.pc \notin {"none", "done"},
           rec.run = trunk[t].run, rec.once = trunk[t].once, rec.seq >= trunk[t].seq,
           event # "unregistered",
           ~Registers(t) => PingTold(t)',
           Registers(t) /\ rec.run # "cancelled" => RegisterTold(t)'
    PROVE  TrunkInv'
<1> USE DEF TrunkInv
<1>1. TrunkTypes'
  BY DEF TrunkTypes, TrunkRecords
<1> USE DEF TrunkTypes
<1>2. /\ \A u \in Trunks : u # t =>
            loop'[u] = loop[u] /\ trunk'[u] = trunk[u] /\ told'[u] = told[u]
      /\ loop'[t] = run /\ trunk'[t] = rec /\ told'[t] = event
  OBVIOUS
<1>3. trunk[t].run # "new"
  BY DEF LoopsMatch
<1>4. \A p \in Stoppers : stop[p].trunk = t => stop[p].pc \in {"stop", "await"}
  BY DEF StoppersKnow
<1>5. LoopsMatch'
  BY <1>2, <1>3 DEF LoopsMatch
<1>6. StoppersKnow' /\ StoppersRegister'
  <2>1. StoppersKnow'
    BY <1>2, <1>4 DEF StoppersKnow
  <2>2. StoppersRegister'
    BY <1>2, <1>4 DEF StoppersRegister, Registers, SipTrunks!Registers
  <2> QED
    BY <2>1, <2>2
<1>7. ShutdownIsNew'
  BY DEF ShutdownIsNew
<1>8. StatusMatches'
  <2> SUFFICES ASSUME NEW u \in Trunks
               PROVE  /\ ~Registers(u) => PingTold(u)'
                      /\ Registers(u) /\ trunk'[u].run # "cancelled" => RegisterTold(u)'
                      /\ Registers(u) /\ trunk'[u].run = "cancelled" => StopTold(u)'
    BY DEF StatusMatches, StatusTold, Registers, SipTrunks!Registers
  <2>1. /\ ~Registers(u) => PingTold(u)
        /\ Registers(u) /\ trunk[u].run # "cancelled" => RegisterTold(u)
        /\ Registers(u) /\ trunk[u].run = "cancelled" => StopTold(u)
    BY DEF StatusMatches, StatusTold
  <2>2. CASE u # t
    <3>1. ~Registers(u) => PingTold(u)'
      BY <1>2, <2>1, <2>2 DEF PingTold
    <3>2. Registers(u) /\ trunk[u].run # "cancelled" => RegisterTold(u)'
      BY <1>2, <2>1, <2>2 DEF RegisterTold
    <3>3. Registers(u) /\ trunk[u].run = "cancelled" => StopTold(u)'
      BY <1>2, <2>1, <2>2 DEF StopTold, StoppedAt
    <3> QED
      BY <1>2, <2>2, <3>1, <3>2, <3>3
  <2>3. CASE u = t
    <3>1. ASSUME Registers(t), trunk[t].run = "cancelled"
          PROVE  StopTold(t)'
      <4>1. PICK p \in Stoppers : stop[p].trunk = t /\ stop[p].pc = "await"
        BY <2>1, <2>3, <3>1 DEF StopTold, StoppedAt
      <4>2. StoppedAt(t, {"await"})' /\ StoppedAt(t, Settling)' /\ StoppedAt(t, Ending)'
        BY <4>1 DEF StoppedAt, Settling, Ending
      <4> QED
        BY <4>2 DEF StopTold
    <3> QED
      BY <1>2, <2>3, <3>1
  <2> QED
    BY <2>2, <2>3
<1>9. SeqsMatch'
  <2>1. ASSUME NEW m \in wire' PROVE m.seq <= trunk'[m.trunk].seq
    <3>1. rec.seq \in Nat /\ \A u \in Trunks : trunk[u].seq \in Nat
      BY DEF TrunkRecords
    <3>2. CASE m \in wire
      <4>1. m.trunk \in Trunks /\ m.seq \in Nat /\ m.seq <= trunk[m.trunk].seq
        BY <3>2 DEF SeqsMatch
      <4> QED
        BY <1>2, <3>1, <4>1
    <3>3. CASE m \in sent
      <4>1. m.trunk = t /\ m.seq = rec.seq
        BY <3>3
      <4> QED
        BY <1>2, <3>1, <4>1
    <3> QED
      BY <3>2, <3>3
  <2>2. \A u \in Trunks : u # t /\ Unbound(u) => Unbound(u)'
    BY DEF Unbound
  <2>3. ASSUME NEW q \in Stoppers, NEW u \in Trunks, stop'[q].trunk = u
        PROVE  /\ stop'[q].pc = "wait" =>
                     \A m \in wire' : m.trunk = u /\ m.bind => m.seq < stop'[q].seq
               /\ stop'[q].pc = "wait" /\ stop'[q].reply = "ok" => Unbound(u)'
               /\ stop'[q].pc \in {"gone", "tell unregistered"} => Unbound(u)'
    <3>1. CASE u = t
      BY <1>4, <2>3, <3>1
    <3>2. CASE u # t
      BY <2>2, <2>3, <3>2 DEF SeqsMatch
    <3> QED
      BY <3>1, <3>2
  <2>4. \A u \in Trunks : told'[u] = "unregistered" => Unbound(u)' /\ loop'[u].pc = "done"
    BY <1>2, <2>2 DEF SeqsMatch
  <2> QED
    BY <2>1, <2>3, <2>4 DEF SeqsMatch
<1>10. AORsMatch'
  BY DEF AORsMatch
<1>11. SipTrunks!TrustIsCounted'
  <2>1. \A h : {u \in Trunks : Host[u] = h /\ trunk'[u].once}
                 = {u \in Trunks : Host[u] = h /\ trunk[u].once}
    BY <1>2
  <2> QED
    BY <2>1 DEF SipTrunks!TrustIsCounted
<1> QED
  BY <1>1, <1>5, <1>6, <1>7, <1>8, <1>9, <1>10, <1>11

LEMMA SendRegisterInv ==
    ASSUME TrunkInv, NEW t \in Trunks, SipTrunks!SendRegister(t) PROVE TrunkInv'
<1> DEFINE rec == [trunk[t] EXCEPT !.seq = trunk[t].seq + 1]
           run == [loop[t] EXCEPT !.pc = "wait", !.seq = trunk[t].seq + 1, !.reply = "none"]
           sent == {[trunk |-> t, seq |-> rec.seq, bind |-> TRUE]}
<1>1. /\ trunk[t] \in TrunkRecords /\ loop[t] \in LoopRecords /\ told[t] \in Events
      /\ trunk \in [Trunks -> TrunkRecords] /\ loop \in [Trunks -> LoopRecords]
      /\ told \in [Trunks -> Events]
  BY DEF TrunkInv, TrunkTypes
<1> DEFINE next == trunk[t].seq + 1
<1>0. next \in Nat /\ next >= trunk[t].seq
  BY <1>1 DEF TrunkRecords
<1>2. /\ rec \in TrunkRecords /\ rec.run = trunk[t].run /\ rec.once = trunk[t].once
      /\ rec.seq = next /\ rec.seq >= trunk[t].seq /\ rec.status = trunk[t].status
      /\ run \in LoopRecords /\ run.pc = "wait"
  <2> HIDE DEF next
  <2>1. rec = [trunk[t] EXCEPT !.seq = next]
    BY DEF next
  <2>2. run = [loop[t] EXCEPT !.pc = "wait", !.seq = next, !.reply = "none"]
    BY DEF next
  <2> QED
    BY <1>0, <1>1, <2>1, <2>2 DEF TrunkRecords, LoopRecords, SipTrunks!LoopPCs, SipTrunks!Replies
<1>3. /\ loop[t].pc = "send" /\ Registers(t) /\ trunk' = [trunk EXCEPT ![t] = rec]
      /\ loop' = [loop EXCEPT ![t] = run] /\ wire' = wire \cup sent
      /\ UNCHANGED <<byID, byAOR, trust, told, stop, shutdown, registrar>>
  BY <1>2 DEF SipTrunks!SendRegister, SipTrunks!LoopAt, Registers, SipTrunks!NextSeq,
     SipTrunks!Request
<1>4. sent \in SUBSET [trunk : {t}, seq : {rec.seq}, bind : {TRUE}]
  OBVIOUS
<1>5. told' = [told EXCEPT ![t] = told[t]]
  BY <1>1, <1>3
<1> HIDE DEF rec, run, sent, next
<1>6. told[t] # "unregistered"
  BY <1>3 DEF TrunkInv, SeqsMatch
<1>7. trunk'[t] = rec /\ loop'[t] = run /\ told'[t] = told[t]
  BY <1>1, <1>3
<1>8. rec.run # "cancelled" => RegisterTold(t)'
  BY <1>2, <1>3, <1>7 DEF TrunkInv, StatusMatches, StatusTold, RegisterTold, LoopRests
<1>9. run.pc \notin {"none", "done"} /\ loop[t].pc \notin {"none", "done"}
  BY <1>2, <1>3
<1> QED
  BY <1>1, <1>2, <1>3, <1>4, <1>5, <1>6, <1>8, <1>9, LoopStepInv

(* What no REGISTER goes out with, and leaves no trace elsewhere.                  *)
LEMMA LoopRecordInv ==
    ASSUME TrunkInv, NEW t \in Trunks, NEW rec \in TrunkRecords, NEW run \in LoopRecords,
           NEW event \in Events,
           trunk' = [trunk EXCEPT ![t] = rec], loop' = [loop EXCEPT ![t] = run],
           told' = [told EXCEPT ![t] = event],
           UNCHANGED <<byID, byAOR, trust, stop, shutdown, registrar, wire>>,
           loop[t].pc \notin {"none", "done"}, run.pc \notin {"none", "done"},
           rec.run = trunk[t].run, rec.once = trunk[t].once, rec.seq = trunk[t].seq,
           event # "unregistered",
           ~Registers(t) => PingTold(t)',
           Registers(t) /\ rec.run # "cancelled" => RegisterTold(t)'
    PROVE  TrunkInv'
<1>1. rec.seq >= trunk[t].seq
  BY DEF TrunkRecords
<1>2. wire' = wire \cup {}
  OBVIOUS
<1> QED
  BY <1>1, <1>2, LoopStepInv

LEMMA RegisteredInv ==
    ASSUME TrunkInv, NEW t \in Trunks, SipTrunks!Registered(t) PROVE TrunkInv'
<1> DEFINE rec == [trunk[t] EXCEPT !.status = "active", !.granted = TRUE, !.late = FALSE,
                                   !.lapseTold = FALSE]
           run == [SipTrunks!NoLoop EXCEPT !.pc = "tell active"]
<1>1. /\ trunk[t] \in TrunkRecords /\ told[t] \in Events
      /\ trunk \in [Trunks -> TrunkRecords] /\ loop \in [Trunks -> LoopRecords]
      /\ told \in [Trunks -> Events]
  BY DEF TrunkInv, TrunkTypes
<1>2. /\ rec \in TrunkRecords /\ rec.run = trunk[t].run /\ rec.once = trunk[t].once
      /\ rec.seq = trunk[t].seq /\ rec.status = "active"
      /\ run \in LoopRecords /\ run.pc = "tell active"
  BY <1>1 DEF TrunkRecords, LoopRecords, SipTrunks!LoopPCs, SipTrunks!Replies,
     SipTrunks!NoLoop
<1>3. /\ loop[t].pc = "wait" /\ Registers(t) /\ trunk' = [trunk EXCEPT ![t] = rec]
      /\ loop' = [loop EXCEPT ![t] = run]
      /\ UNCHANGED <<byID, byAOR, trust, told, stop, shutdown, registrar, wire>>
  BY DEF SipTrunks!Registered, SipTrunks!LoopAt, Registers, SipTrunks!upstream
<1>4. told' = [told EXCEPT ![t] = told[t]]
  BY <1>1, <1>3
<1> HIDE DEF rec, run
<1>5. told[t] # "unregistered"
  BY <1>3 DEF TrunkInv, SeqsMatch
<1>6. trunk'[t] = rec /\ loop'[t] = run /\ told'[t] = told[t]
  BY <1>1, <1>3
<1>7. RegisterTold(t)'
  BY <1>2, <1>3, <1>6 DEF RegisterTold, LoopRests
<1> QED
  BY <1>1, <1>2, <1>3, <1>4, <1>5, <1>7, LoopRecordInv

LEMMA MarkFailedInv ==
    ASSUME TrunkInv, NEW t \in Trunks, SipTrunks!MarkFailed(t) PROVE TrunkInv'
<1> DEFINE lapsed == trunk[t].granted /\ trunk[t].late /\ ~trunk[t].lapseTold
           rec == [trunk[t] EXCEPT !.status = "failed",
                                   !.lapseTold = trunk[t].lapseTold \/ lapsed]
           run == [SipTrunks!NoLoop EXCEPT
                      !.pc = IF lapsed THEN "tell both" ELSE "tell failed"]
<1>1. /\ trunk[t] \in TrunkRecords /\ told[t] \in Events
      /\ trunk \in [Trunks -> TrunkRecords] /\ loop \in [Trunks -> LoopRecords]
      /\ told \in [Trunks -> Events]
  BY DEF TrunkInv, TrunkTypes
<1>2. /\ rec \in TrunkRecords /\ rec.run = trunk[t].run /\ rec.once = trunk[t].once
      /\ rec.seq = trunk[t].seq /\ rec.status = "failed"
      /\ run \in LoopRecords /\ run.pc \in {"tell both", "tell failed"}
  BY <1>1 DEF TrunkRecords, LoopRecords, SipTrunks!LoopPCs, SipTrunks!Replies,
     SipTrunks!NoLoop
<1>3. /\ loop[t].pc = "wait" /\ Registers(t) /\ trunk' = [trunk EXCEPT ![t] = rec]
      /\ loop' = [loop EXCEPT ![t] = run]
      /\ UNCHANGED <<byID, byAOR, trust, told, stop, shutdown, registrar, wire>>
  BY DEF SipTrunks!MarkFailed, SipTrunks!LoopAt, Registers, SipTrunks!upstream
<1>4. told' = [told EXCEPT ![t] = told[t]]
  BY <1>1, <1>3
<1> HIDE DEF rec, run
<1>5. told[t] # "unregistered"
  BY <1>3 DEF TrunkInv, SeqsMatch
<1>6. trunk'[t] = rec /\ loop'[t] = run /\ told'[t] = told[t]
  BY <1>1, <1>3
<1>7. RegisterTold(t)'
  BY <1>2, <1>3, <1>6 DEF RegisterTold, LoopRests
<1> QED
  BY <1>1, <1>2, <1>3, <1>4, <1>5, <1>7, LoopRecordInv

LEMMA TellInv ==
    ASSUME TrunkInv, NEW t \in Trunks, SipTrunks!Tell(t) PROVE TrunkInv'
<1> DEFINE pc == IF loop[t].pc = "tell both" THEN "tell lapsed" ELSE "sleep"
           run == [loop[t] EXCEPT !.pc = pc]
           event == told'[t]
<1>1. /\ trunk[t] \in TrunkRecords /\ loop[t] \in LoopRecords /\ told[t] \in Events
      /\ trunk \in [Trunks -> TrunkRecords] /\ loop \in [Trunks -> LoopRecords]
      /\ told \in [Trunks -> Events]
  BY DEF TrunkInv, TrunkTypes
<1>2. run \in LoopRecords /\ run.pc = pc
  BY <1>1 DEF LoopRecords, SipTrunks!LoopPCs
<1>3. /\ \/ loop[t].pc = "tell active" /\ event = "active"
         \/ loop[t].pc = "tell failed" /\ event = "failed"
         \/ loop[t].pc = "tell both" /\ event = "failed"
         \/ loop[t].pc = "tell lapsed" /\ event = "lapsed"
         \/ loop[t].pc = "tell up" /\ event = "up"
         \/ loop[t].pc = "tell down" /\ event = "down"
      /\ event \in Events /\ event # "unregistered" /\ told' = [told EXCEPT ![t] = event]
      /\ loop' = [loop EXCEPT ![t] = run]
      /\ UNCHANGED <<byID, byAOR, trust, trunk, stop, shutdown, registrar, wire>>
  BY <1>1 DEF SipTrunks!Tell, SipTrunks!LoopAt, SipTrunks!upstream, Events
<1>4. trunk' = [trunk EXCEPT ![t] = trunk[t]]
  BY <1>1, <1>3
<1> HIDE DEF run, event
<1>5. trunk'[t] = trunk[t] /\ loop'[t] = run /\ told'[t] = event
  BY <1>1, <1>3
<1>6. ~Registers(t) => PingTold(t)'
  BY <1>2, <1>3, <1>5 DEF TrunkInv, StatusMatches, StatusTold, PingTold, LoopRests
<1>7. Registers(t) /\ trunk[t].run # "cancelled" => RegisterTold(t)'
  BY <1>2, <1>3, <1>5 DEF TrunkInv, StatusMatches, StatusTold, RegisterTold, LoopRests
<1>8. loop[t].pc \notin {"none", "done"} /\ run.pc \notin {"none", "done"}
  BY <1>2, <1>3
<1> QED
  BY <1>1, <1>2, <1>3, <1>4, <1>6, <1>7, <1>8, LoopRecordInv

LEMMA PingedInv ==
    ASSUME TrunkInv, NEW t \in Trunks, SipTrunks!Pinged(t) PROVE TrunkInv'
<1>1. PICK up \in BOOLEAN :
        /\ trunk' = [trunk EXCEPT ![t].status = IF up THEN "active" ELSE "failed"]
        /\ loop' = [loop EXCEPT ![t].pc =
              IF told[t] = (IF up THEN "up" ELSE "down") THEN "sleep"
              ELSE IF up THEN "tell up" ELSE "tell down"]
  BY DEF SipTrunks!Pinged
<1> DEFINE status == IF up THEN "active" ELSE "failed"
           pc == IF told[t] = (IF up THEN "up" ELSE "down") THEN "sleep"
                 ELSE IF up THEN "tell up" ELSE "tell down"
           rec == [trunk[t] EXCEPT !.status = status]
           run == [loop[t] EXCEPT !.pc = pc]
<1>2. /\ trunk[t] \in TrunkRecords /\ loop[t] \in LoopRecords /\ told[t] \in Events
      /\ trunk \in [Trunks -> TrunkRecords] /\ loop \in [Trunks -> LoopRecords]
      /\ told \in [Trunks -> Events]
  BY DEF TrunkInv, TrunkTypes
<1>3. /\ rec \in TrunkRecords /\ rec.run = trunk[t].run /\ rec.once = trunk[t].once
      /\ rec.seq = trunk[t].seq /\ rec.status = status
      /\ run \in LoopRecords /\ run.pc = pc
  BY <1>2 DEF TrunkRecords, LoopRecords, SipTrunks!LoopPCs
<1>4. /\ loop[t].pc = "wait" /\ ~Registers(t) /\ trunk' = [trunk EXCEPT ![t] = rec]
      /\ loop' = [loop EXCEPT ![t] = run]
      /\ UNCHANGED <<byID, byAOR, trust, told, stop, shutdown, registrar, wire>>
  BY <1>1 DEF SipTrunks!Pinged, SipTrunks!LoopAt, Registers, SipTrunks!upstream
<1>5. told' = [told EXCEPT ![t] = told[t]]
  BY <1>2, <1>4
<1> HIDE DEF rec, run
<1>6. told[t] # "unregistered"
  BY <1>4 DEF TrunkInv, SeqsMatch
<1>7. trunk'[t] = rec /\ loop'[t] = run /\ told'[t] = told[t]
  BY <1>2, <1>4
<1>8. PingTold(t)'
  BY <1>3, <1>4, <1>7 DEF TrunkInv, StatusMatches, StatusTold, PingTold, LoopRests
<1>9. run.pc \notin {"none", "done"} /\ loop[t].pc \notin {"none", "done"}
  BY <1>3, <1>4
<1> QED
  BY <1>2, <1>3, <1>4, <1>5, <1>6, <1>8, <1>9, LoopRecordInv

\* The hosts' exemptions, trunk by trunk.
Trusting(h) == {u \in Trunks : Host[u] = h /\ trunk[u].once}

LEMMA TrustingFacts ==
    /\ SipTrunks!TrustIsCounted <=>
          \A h \in SipTrunks!Hosts : trust[h] = Cardinality(Trusting(h))
    /\ SipTrunks!TrustIsCounted' <=>
          \A h \in SipTrunks!Hosts : trust'[h] = Cardinality(Trusting(h)')
    /\ \A h : IsFiniteSet(Trusting(h))
<1>1. \A S : SipTrunks!Cardinality(S) = Cardinality(S)
  BY DEF SipTrunks!Cardinality, Cardinality
<1>2. \A h : IsFiniteSet(Trusting(h))
  BY ServicesAssumption, FS_Subset DEF Trusting
<1> QED
  BY <1>1, <1>2 DEF SipTrunks!TrustIsCounted, Trusting

LEMMA StatusElsewhere ==
    ASSUME TrunkInv, NEW u \in Trunks, loop'[u] = loop[u], told'[u] = told[u],
           trunk'[u].status = trunk[u].status, trunk'[u].run = trunk[u].run,
           StoppedAt(u, {"await"}) => StoppedAt(u, {"await"})',
           StoppedAt(u, Settling) => StoppedAt(u, Settling)',
           StoppedAt(u, Ending) => StoppedAt(u, Ending)'
    PROVE  StatusTold(u)'
<1>1. StatusTold(u)
  BY DEF TrunkInv, StatusMatches
<1>2. PingTold(u) => PingTold(u)'
  BY DEF PingTold
<1>3. RegisterTold(u) => RegisterTold(u)'
  BY DEF RegisterTold
<1>4. StopTold(u) => StopTold(u)'
  BY DEF StopTold
<1> QED
  BY <1>1, <1>2, <1>3, <1>4 DEF StatusTold, Registers, SipTrunks!Registers

LEMMA LifetimeEndsInv ==
    ASSUME TrunkInv, NEW t \in Trunks, SipTrunks!LifetimeEnds(t) PROVE TrunkInv'
<1> USE DEF TrunkInv
<1>1. /\ trunk' = [trunk EXCEPT ![t].late = TRUE]
      /\ UNCHANGED <<byID, byAOR, trust, loop, told, stop, shutdown, registrar, wire>>
  BY DEF SipTrunks!LifetimeEnds, SipTrunks!upstream
<1>2. trunk \in [Trunks -> TrunkRecords]
  BY DEF TrunkTypes
<1>3. [trunk[t] EXCEPT !.late = TRUE] \in TrunkRecords
  BY <1>2 DEF TrunkRecords
<1>4. trunk' \in [Trunks -> TrunkRecords]
  BY <1>1, <1>2, <1>3
<1>5. \A u \in Trunks : /\ trunk'[u].status = trunk[u].status /\ trunk'[u].run = trunk[u].run
                        /\ trunk'[u].seq = trunk[u].seq /\ trunk'[u].once = trunk[u].once
  BY <1>1, <1>2 DEF TrunkRecords
<1>6. TrunkTypes'
  BY <1>1, <1>4 DEF TrunkTypes
<1>7. LoopsMatch' /\ StoppersKnow' /\ StoppersRegister' /\ ShutdownIsNew'
  <2>1. LoopsMatch' /\ StoppersKnow' /\ ShutdownIsNew'
    BY <1>1, <1>5 DEF LoopsMatch, StoppersKnow, ShutdownIsNew
  <2>2. StoppersRegister'
    BY <1>1, <1>5 DEF StoppersRegister, Registers, SipTrunks!Registers
  <2> QED
    BY <2>1, <2>2
<1>8. StatusMatches'
  BY <1>1, <1>5, StatusElsewhere DEF StatusMatches, StoppedAt
<1>9. SeqsMatch'
  BY <1>1, <1>5 DEF SeqsMatch, Unbound, TrunkTypes
<1>10. AORsMatch'
  BY <1>1 DEF AORsMatch
<1>11. SipTrunks!TrustIsCounted'
  <2>1. \A h : Trusting(h)' = Trusting(h)
    BY <1>5 DEF Trusting
  <2> QED
    BY <1>1, <2>1, TrustingFacts
<1> QED
  BY <1>6, <1>7, <1>8, <1>9, <1>10, <1>11

LEMMA StartInv ==
    ASSUME TrunkInv, NEW t \in Trunks, SipTrunks!Start(t) PROVE TrunkInv'
<1> USE DEF TrunkInv
<1> DEFINE rec == [trunk[t] EXCEPT !.run = "armed"]
           run == [loop[t] EXCEPT !.pc = "send"]
<1>1. /\ trunk' = [trunk EXCEPT ![t] = rec] /\ loop' = [loop EXCEPT ![t] = run]
      /\ loop[t].pc = "none"
      /\ UNCHANGED <<byID, byAOR, trust, told, stop, shutdown, registrar, wire>>
  BY DEF SipTrunks!Start, SipTrunks!upstream, SipTrunks!NoLoop
<1>2. /\ trunk \in [Trunks -> TrunkRecords] /\ loop \in [Trunks -> LoopRecords]
      /\ trunk[t] \in TrunkRecords /\ loop[t] \in LoopRecords
  BY DEF TrunkTypes
<1>3. /\ rec \in TrunkRecords /\ rec.run = "armed" /\ rec.status = trunk[t].status
      /\ rec.seq = trunk[t].seq /\ rec.once = trunk[t].once
      /\ run \in LoopRecords /\ run.pc = "send"
  BY <1>2 DEF TrunkRecords, LoopRecords, SipTrunks!LoopPCs
<1> HIDE DEF rec, run
<1>4. /\ \A u \in Trunks : u # t => trunk'[u] = trunk[u] /\ loop'[u] = loop[u]
      /\ trunk'[t] = rec /\ loop'[t] = run
  BY <1>1, <1>2
<1>5. trunk[t].run = "new" /\ told[t] = "none" /\ \A p \in Stoppers : stop[p].trunk # t
  BY <1>1 DEF LoopsMatch, StoppersKnow
<1>6. TrunkTypes'
  BY <1>1, <1>2, <1>3 DEF TrunkTypes
<1>7. LoopsMatch'
  BY <1>1, <1>3, <1>4 DEF LoopsMatch
<1>8. StoppersKnow' /\ StoppersRegister' /\ ShutdownIsNew'
  <2>1. StoppersKnow' /\ ShutdownIsNew'
    BY <1>1, <1>4, <1>5 DEF StoppersKnow, ShutdownIsNew
  <2>2. StoppersRegister'
    BY <1>1, <1>4, <1>5 DEF StoppersRegister, Registers, SipTrunks!Registers
  <2> QED
    BY <2>1, <2>2
<1>9. StatusMatches'
  <2>1. \A u \in Trunks : u # t => StatusTold(u)'
    BY <1>1, <1>4, StatusElsewhere DEF StoppedAt
  <2>2. ~Registers(t) => PingTold(t)'
    BY <1>1, <1>3, <1>4, <1>5 DEF StatusMatches, StatusTold, PingTold, LoopRests
  <2>3. Registers(t) => RegisterTold(t)'
    BY <1>1, <1>3, <1>4, <1>5 DEF StatusMatches, StatusTold, RegisterTold, LoopRests
  <2>4. StatusTold(t)'
    BY <1>3, <1>4, <2>2, <2>3 DEF StatusTold, Registers, SipTrunks!Registers
  <2> QED
    BY <2>1, <2>4 DEF StatusMatches
<1>10. SeqsMatch'
  <2>1. \A u \in Trunks : trunk'[u].seq = trunk[u].seq /\ (Unbound(u)' <=> Unbound(u))
    BY <1>1, <1>3, <1>4 DEF Unbound
  <2>2. \A m \in wire' : m.seq <= trunk'[m.trunk].seq
    BY <1>1, <2>1 DEF SeqsMatch, TrunkTypes
  <2>3. \A u \in Trunks : told'[u] = "unregistered" => Unbound(u)' /\ loop'[u].pc = "done"
    BY <1>1, <1>4, <1>5, <2>1 DEF SeqsMatch
  <2> QED
    BY <1>1, <2>1, <2>2, <2>3 DEF SeqsMatch
<1>11. AORsMatch'
  BY <1>1 DEF AORsMatch
<1>12. SipTrunks!TrustIsCounted'
  <2>1. \A h : Trusting(h)' = Trusting(h)
    BY <1>3, <1>4 DEF Trusting
  <2> QED
    BY <1>1, <2>1, TrustingFacts
<1> QED
  BY <1>6, <1>7, <1>8, <1>9, <1>10, <1>11, <1>12

LEMMA CreateInv ==
    ASSUME TrunkInv, NEW t \in Trunks, SipTrunks!Create(t) PROVE TrunkInv'
<1> USE DEF TrunkInv
<1> DEFINE rec == SipTrunks!NewTrunk(t)
<1>1. /\ trunk[t] = SipTrunks!NoTrunk /\ trunk' = [trunk EXCEPT ![t] = rec]
      /\ trust' = SipTrunks!Exempted(t) /\ byID' = byID \cup {t}
      /\ byAOR' = [byAOR EXCEPT ![AOR[t]] = t]
      /\ UNCHANGED <<loop, told, stop, shutdown, registrar, wire>>
  BY DEF SipTrunks!Create, SipTrunks!Add, SipTrunks!upstream
<1>2. trunk \in [Trunks -> TrunkRecords]
  BY DEF TrunkTypes
<1>3. /\ rec \in TrunkRecords /\ rec.run = "new" /\ rec.seq = 0
      /\ rec.once = (Host[t] # None)
      /\ rec.status = IF Registers(t) THEN "registering" ELSE "active"
  BY DEF SipTrunks!NewTrunk, SipTrunks!NewOutboundRegistration, SipTrunks!NewIPIPTrunk,
     SipTrunks!NoTrunk, TrunkRecords, Registers, SipTrunks!Registers
<1> HIDE DEF rec
<1>4. trunk[t].run = "new" /\ trunk[t].seq = 0 /\ ~trunk[t].once
  BY <1>1 DEF SipTrunks!NoTrunk
<1>5. (\A u \in Trunks : u # t => trunk'[u] = trunk[u]) /\ trunk'[t] = rec
  BY <1>1, <1>2
<1>6. /\ loop[t].pc = "none" /\ told[t] = "none"
      /\ \A p \in Stoppers : stop[p].trunk # t
  BY <1>4 DEF LoopsMatch, StoppersKnow
<1>7. AOR[t] \in SipTrunks!AORs /\ (Host[t] # None => Host[t] \in SipTrunks!Hosts)
  BY DEF SipTrunks!AORs, SipTrunks!Hosts
<1>8. TrunkTypes'
  <2>1. SipTrunks!Exempted(t) \in [SipTrunks!Hosts -> Nat]
    BY DEF TrunkTypes, SipTrunks!Exempted
  <2> QED
    BY <1>1, <1>2, <1>3, <1>7, <2>1 DEF TrunkTypes
<1>9. LoopsMatch'
  BY <1>1, <1>3, <1>5, <1>6 DEF LoopsMatch
<1>10. StoppersKnow' /\ StoppersRegister' /\ ShutdownIsNew'
  <2>1. StoppersKnow' /\ ShutdownIsNew'
    BY <1>1, <1>5, <1>6 DEF StoppersKnow, ShutdownIsNew
  <2>2. StoppersRegister'
    BY <1>1, <1>5, <1>6 DEF StoppersRegister, Registers, SipTrunks!Registers
  <2> QED
    BY <2>1, <2>2
<1>11. StatusMatches'
  <2>1. \A u \in Trunks : u # t => StatusTold(u)'
    BY <1>1, <1>5, StatusElsewhere DEF StoppedAt
  <2>2. ~Registers(t) => PingTold(t)'
    BY <1>1, <1>3, <1>5, <1>6 DEF PingTold, LoopRests
  <2>3. Registers(t) => RegisterTold(t)'
    BY <1>1, <1>3, <1>5, <1>6 DEF RegisterTold, LoopRests
  <2>4. StatusTold(t)'
    BY <1>3, <1>5, <2>2, <2>3 DEF StatusTold, Registers, SipTrunks!Registers
  <2> QED
    BY <2>1, <2>4 DEF StatusMatches
<1>12. SeqsMatch'
  <2>1. \A u \in Trunks : trunk'[u].seq = trunk[u].seq
    BY <1>3, <1>4, <1>5
  <2> QED
    BY <1>1, <1>5, <1>6, <2>1 DEF SeqsMatch, Unbound, TrunkTypes
<1>13. AORsMatch'
  BY <1>1, <1>7 DEF AORsMatch, TrunkTypes
<1>14. SipTrunks!TrustIsCounted'
  <2> SUFFICES ASSUME NEW h \in SipTrunks!Hosts PROVE trust'[h] = Cardinality(Trusting(h)')
    BY TrustingFacts
  <2>1. trust'[h] = IF h = Host[t] THEN trust[h] + 1 ELSE trust[h]
    BY <1>1 DEF SipTrunks!Exempted
  <2>2. trust[h] = Cardinality(Trusting(h)) /\ IsFiniteSet(Trusting(h))
    BY TrustingFacts
  <2>3. h # None
    BY DEF SipTrunks!Hosts
  <2>4. CASE h = Host[t]
    <3>1. Trusting(h)' = Trusting(h) \cup {t} /\ t \notin Trusting(h)
      BY <1>3, <1>4, <1>5, <2>3, <2>4 DEF Trusting
    <3>2. Cardinality(Trusting(h) \cup {t}) = Cardinality(Trusting(h)) + 1
      BY <2>2, <3>1, FS_AddElement
    <3> QED
      BY <2>1, <2>2, <2>4, <3>1, <3>2
  <2>5. CASE h # Host[t]
    <3>1. Trusting(h)' = Trusting(h)
      BY <1>5, <2>5 DEF Trusting
    <3> QED
      BY <2>1, <2>2, <2>5, <3>1
  <2> QED
    BY <2>4, <2>5
<1> QED
  BY <1>8, <1>9, <1>10, <1>11, <1>12, <1>13, <1>14

LEMMA DeleteInv ==
    ASSUME TrunkInv, NEW p \in Deleters, NEW t \in Trunks, SipTrunks!Delete(p, t)
    PROVE  TrunkInv'
<1> USE DEF TrunkInv
<1> DEFINE rec == [stop[p] EXCEPT !.pc = "stop", !.trunk = t]
<1>1. /\ stop[p] = SipTrunks!Nowhere /\ stop' = [stop EXCEPT ![p] = rec]
      /\ trunk[t].run # "new"
      /\ UNCHANGED <<byID, byAOR, trust, trunk, loop, told, shutdown, registrar, wire>>
  BY DEF SipTrunks!Delete, SipTrunks!upstream
<1>2. stop \in [Stoppers -> StopRecords] /\ p \in Stoppers /\ p \notin Trunks /\ t # None
  BY ServicesAssumption DEF TrunkTypes, Stoppers, SipTrunks!Stoppers
<1>3. rec \in StopRecords /\ rec.pc = "stop" /\ rec.trunk = t
  BY <1>2 DEF StopRecords, SipTrunks!StopPCs
<1> HIDE DEF rec
<1>4. /\ \A q \in Stoppers : q # p => stop'[q] = stop[q]
      /\ stop'[p] = rec /\ stop[p].trunk = None
  BY <1>1, <1>2 DEF SipTrunks!Nowhere
<1>5. TrunkTypes'
  BY <1>1, <1>2, <1>3 DEF TrunkTypes
<1>6. LoopsMatch'
  BY <1>1 DEF LoopsMatch
<1>7. StoppersKnow' /\ StoppersRegister'
  <2>1. StoppersKnow'
    BY <1>1, <1>2, <1>3, <1>4 DEF StoppersKnow
  <2>2. StoppersRegister'
    BY <1>1, <1>2, <1>3, <1>4 DEF StoppersRegister, Registers, SipTrunks!Registers
  <2> QED
    BY <2>1, <2>2
<1>8. ShutdownIsNew'
  BY <1>1, <1>2, <1>4 DEF ShutdownIsNew, Stoppers, SipTrunks!Stoppers
<1>9. StatusMatches'
  <2>1. \A u \in Trunks : \A pcs : StoppedAt(u, pcs) => StoppedAt(u, pcs)'
    BY <1>4, ServicesAssumption DEF StoppedAt
  <2> QED
    BY <1>1, <2>1, StatusElsewhere DEF StatusMatches
<1>10. SeqsMatch'
  <2>1. \A u \in Trunks : Unbound(u)' <=> Unbound(u)
    BY <1>1 DEF Unbound
  <2>2. ASSUME NEW q \in Stoppers, NEW u \in Trunks, stop'[q].trunk = u
        PROVE  /\ stop'[q].pc = "wait" =>
                     \A m \in wire : m.trunk = u /\ m.bind => m.seq < stop'[q].seq
               /\ stop'[q].pc = "wait" /\ stop'[q].reply = "ok" => Unbound(u)
               /\ stop'[q].pc \in {"gone", "tell unregistered"} => Unbound(u)
    BY <1>3, <1>4, <2>2 DEF SeqsMatch
  <2> QED
    BY <1>1, <2>1, <2>2 DEF SeqsMatch
<1>11. AORsMatch'
  BY <1>1 DEF AORsMatch
<1>12. SipTrunks!TrustIsCounted'
  BY <1>1 DEF SipTrunks!TrustIsCounted
<1> QED
  BY <1>5, <1>6, <1>7, <1>8, <1>9, <1>10, <1>11, <1>12

(* Whoever has begun to stop a trunk knows which.                                 *)
LEMMA StopperAt ==
    ASSUME TrunkInv, NEW p \in Stoppers, stop[p].pc \notin {"idle", "over"}
    PROVE  stop[p].trunk \in Trunks /\ (shutdown = "no" => p \notin Trunks)
<1>1. stop[p] \in StopRecords /\ stop[p].trunk # None
  BY DEF TrunkInv, TrunkTypes, StoppersKnow
<1> QED
  BY <1>1 DEF StopRecords, TrunkInv, ShutdownIsNew, SipTrunks!Nowhere

LEMMA StopBeginsInv ==
    ASSUME TrunkInv, NEW p \in Stoppers, SipTrunks!StopBegins(p) PROVE TrunkInv'
<1> USE DEF TrunkInv
<1>1. stop[p].pc = "stop"
  BY DEF SipTrunks!StopBegins, SipTrunks!StopAt
<1>2. PICK t \in Trunks : t = stop[p].trunk /\ t # None
  BY <1>1, StopperAt, ServicesAssumption
<1> DEFINE rec == [trunk[t] EXCEPT
              !.run = IF trunk[t].run = "armed" THEN "cancelled" ELSE trunk[t].run,
              !.status = IF Registers(t) THEN "unregistering" ELSE trunk[t].status]
           next == [stop[p] EXCEPT !.pc = "await"]
<1>3. /\ trunk \in [Trunks -> TrunkRecords] /\ trunk[t] \in TrunkRecords
      /\ stop \in [Stoppers -> StopRecords] /\ stop[p] \in StopRecords
  BY DEF TrunkTypes
<1>4. trunk[t].run \in {"armed", "cancelled"}
  BY <1>2, <1>3 DEF StoppersKnow, TrunkRecords
<1>5. /\ trunk' = [trunk EXCEPT ![t] = rec] /\ stop' = [stop EXCEPT ![p] = next]
      /\ UNCHANGED <<byID, byAOR, trust, loop, told, shutdown, registrar, wire>>
  BY <1>2, <1>4 DEF SipTrunks!StopBegins, Registers, SipTrunks!upstream
<1>6. /\ rec \in TrunkRecords /\ rec.run = "cancelled" /\ rec.seq = trunk[t].seq
      /\ rec.once = trunk[t].once
      /\ rec.status = IF Registers(t) THEN "unregistering" ELSE trunk[t].status
      /\ next \in StopRecords /\ next.pc = "await" /\ next.trunk = t
  BY <1>2, <1>3, <1>4 DEF TrunkRecords, StopRecords, SipTrunks!StopPCs
<1> HIDE DEF rec, next
<1>7. /\ \A u \in Trunks : u # t => trunk'[u] = trunk[u]
      /\ \A q \in Stoppers : q # p => stop'[q] = stop[q]
      /\ trunk'[t] = rec /\ stop'[p] = next
  BY <1>3, <1>5
<1>8. TrunkTypes'
  BY <1>3, <1>5, <1>6 DEF TrunkTypes
<1>9. LoopsMatch'
  BY <1>4, <1>5, <1>6, <1>7 DEF LoopsMatch
<1>10. StoppersKnow' /\ StoppersRegister'
  <2>1. StoppersKnow'
    BY <1>1, <1>2, <1>5, <1>6, <1>7 DEF StoppersKnow
  <2>2. StoppersRegister'
    BY <1>1, <1>2, <1>5, <1>6, <1>7 DEF StoppersRegister, Registers, SipTrunks!Registers
  <2> QED
    BY <2>1, <2>2
<1>11. ShutdownIsNew'
  BY <1>1, <1>5, <1>7, StopperAt DEF ShutdownIsNew, SipTrunks!Nowhere, Stoppers,
     SipTrunks!Stoppers
<1>12. StatusMatches'
  <2>1. /\ StoppedAt(t, {"await"})' /\ StoppedAt(t, Settling)'
    BY <1>6, <1>7 DEF StoppedAt, Settling
  <2>2. StatusTold(t)'
    <3>1. Registers(t) => StopTold(t)'
      BY <1>6, <1>7, <2>1 DEF StopTold
    <3>2. ~Registers(t) => PingTold(t)'
      BY <1>5, <1>6, <1>7 DEF StatusMatches, StatusTold, PingTold
    <3> QED
      BY <1>6, <1>7, <3>1, <3>2 DEF StatusTold, Registers, SipTrunks!Registers
  <2>3. ASSUME NEW u \in Trunks, u # t PROVE StatusTold(u)'
    <3>1. \A pcs : StoppedAt(u, pcs) => StoppedAt(u, pcs)'
      BY <1>2, <1>7, <2>3 DEF StoppedAt
    <3> QED
      BY <1>5, <1>7, <2>3, <3>1, StatusElsewhere
  <2> QED
    BY <2>2, <2>3 DEF StatusMatches
<1>13. SeqsMatch'
  <2>1. \A u \in Trunks : trunk'[u].seq = trunk[u].seq /\ (Unbound(u)' <=> Unbound(u))
    BY <1>5, <1>6, <1>7 DEF Unbound
  <2>2. ASSUME NEW q \in Stoppers, NEW u \in Trunks, stop'[q].trunk = u
        PROVE  /\ stop'[q].pc = "wait" =>
                     \A m \in wire : m.trunk = u /\ m.bind => m.seq < stop'[q].seq
               /\ stop'[q].pc = "wait" /\ stop'[q].reply = "ok" => Unbound(u)
               /\ stop'[q].pc \in {"gone", "tell unregistered"} => Unbound(u)
    BY <1>6, <1>7, <2>2 DEF SeqsMatch
  <2>3. \A m \in wire' : m.seq <= trunk'[m.trunk].seq
    BY <1>5, <2>1 DEF SeqsMatch, TrunkTypes
  <2> QED
    BY <1>5, <2>1, <2>2, <2>3 DEF SeqsMatch
<1>14. AORsMatch'
  BY <1>5 DEF AORsMatch
<1>15. SipTrunks!TrustIsCounted'
  <2>1. \A h : Trusting(h)' = Trusting(h)
    BY <1>6, <1>7 DEF Trusting
  <2> QED
    BY <1>5, <2>1, TrustingFacts
<1> QED
  BY <1>8, <1>9, <1>10, <1>11, <1>12, <1>13, <1>14, <1>15

LEMMA UnregisterInv ==
    ASSUME TrunkInv, NEW p \in Stoppers, SipTrunks!Unregister(p) PROVE TrunkInv'
<1> USE DEF TrunkInv
<1>1. stop[p].pc = "unregister"
  BY DEF SipTrunks!Unregister, SipTrunks!StopAt
<1>2. PICK t \in Trunks : t = stop[p].trunk /\ t # None
  BY <1>1, StopperAt, ServicesAssumption
<1> DEFINE next == trunk[t].seq + 1
           rec == [trunk[t] EXCEPT !.seq = next]
           wait == [stop[p] EXCEPT !.pc = "wait", !.seq = next, !.reply = "none"]
           m == [trunk |-> t, seq |-> next, bind |-> FALSE]
<1>3. /\ trunk \in [Trunks -> TrunkRecords] /\ trunk[t] \in TrunkRecords
      /\ stop \in [Stoppers -> StopRecords] /\ stop[p] \in StopRecords
  BY DEF TrunkTypes
<1>4. trunk[t].run = "cancelled" /\ loop[t].pc = "done"
  BY <1>1, <1>2 DEF StoppersKnow
<1>5. /\ trunk' = [trunk EXCEPT ![t] = rec] /\ stop' = [stop EXCEPT ![p] = wait]
      /\ wire' = wire \cup {m} /\ Registers(t)
      /\ UNCHANGED <<byID, byAOR, trust, loop, told, shutdown, registrar>>
  BY <1>2 DEF SipTrunks!Unregister, Registers, SipTrunks!NextSeq, SipTrunks!Request
<1>6. next \in Nat /\ next > trunk[t].seq /\ trunk[t].seq \in Nat
  BY <1>3 DEF TrunkRecords
<1> HIDE DEF next
<1>7. /\ rec \in TrunkRecords /\ rec.run = trunk[t].run /\ rec.seq = next
      /\ rec.once = trunk[t].once /\ rec.status = trunk[t].status
      /\ wait \in StopRecords /\ wait.pc = "wait" /\ wait.trunk = t /\ wait.seq = next
      /\ wait.reply = "none"
  BY <1>2, <1>3, <1>6 DEF TrunkRecords, StopRecords, SipTrunks!StopPCs, SipTrunks!Replies
<1>8. m \in [trunk : Trunks, seq : Nat, bind : BOOLEAN] /\ m.trunk = t /\ m.seq = next /\ ~m.bind
  BY <1>6
<1> HIDE DEF rec, wait, m
<1>9. /\ \A u \in Trunks : u # t => trunk'[u] = trunk[u]
      /\ \A q \in Stoppers : q # p => stop'[q] = stop[q]
      /\ trunk'[t] = rec /\ stop'[p] = wait
  BY <1>3, <1>5
<1>10. TrunkTypes'
  BY <1>3, <1>5, <1>7, <1>8 DEF TrunkTypes
<1>11. LoopsMatch'
  BY <1>5, <1>7, <1>9 DEF LoopsMatch
<1>12. StoppersKnow' /\ StoppersRegister'
  <2>1. ASSUME NEW q \in Stoppers
        PROVE  /\ stop'[q].pc \in {"idle", "over"} <=> stop'[q].trunk = None
               /\ \A u \in Trunks : stop'[q].trunk = u =>
                     /\ trunk'[u].run # "new"
                     /\ stop'[q].pc # "stop" => trunk'[u].run = "cancelled"
                     /\ stop'[q].pc \notin {"stop", "await"} => loop'[u].pc = "done"
                     /\ stop'[q].pc \in {"wait", "tell unregistered", "tell shutdown"} =>
                           Kind[u] = "sip_register"
    <3>1. \A u \in Trunks : trunk'[u].run = trunk[u].run
      BY <1>7, <1>9
    <3>2. CASE q = p
      <4>1. /\ stop'[q].trunk = t /\ stop'[q].pc \notin {"idle", "over"}
            /\ stop'[q].pc \in {"wait", "tell unregistered", "tell shutdown"} =>
                  Kind[t] = "sip_register"
        BY <1>5, <1>7, <1>9, <3>2 DEF Registers, SipTrunks!Registers
      <4> QED
        BY <1>2, <1>4, <1>5, <3>1, <4>1
    <3>3. CASE q # p
      <4>1. stop'[q] = stop[q]
        BY <1>5, <1>7, <1>9, <3>3
      <4>2. ASSUME NEW u \in Trunks, stop'[q].trunk = u
            PROVE  /\ trunk[u].run # "new"
                   /\ stop'[q].pc # "stop" => trunk[u].run = "cancelled"
                   /\ stop'[q].pc \notin {"stop", "await"} => loop[u].pc = "done"
        BY <4>1, <4>2 DEF StoppersKnow
      <4>3. \A u \in Trunks :
               /\ stop'[q].trunk = u
               /\ stop'[q].pc \in {"wait", "tell unregistered", "tell shutdown"}
               => Kind[u] = "sip_register"
        BY <4>1 DEF StoppersRegister
      <4>4. stop'[q].pc \in {"idle", "over"} <=> stop'[q].trunk = None
        BY <4>1 DEF StoppersKnow
      <4> QED
        BY <1>5, <3>1, <4>2, <4>3, <4>4
    <3> QED
      BY <3>2, <3>3
  <2>2. StoppersKnow'
    BY <2>1, ZenonT(30) DEF StoppersKnow
  <2>3. StoppersRegister'
    BY <2>1 DEF StoppersRegister
  <2> QED
    BY <2>2, <2>3
<1>13. ShutdownIsNew'
  BY <1>1, <1>5, <1>9, StopperAt DEF ShutdownIsNew, SipTrunks!Nowhere, Stoppers,
     SipTrunks!Stoppers
<1>14. StatusMatches'
  <2>1. StoppedAt(t, Settling)' /\ StoppedAt(t, Ending)'
    BY <1>7, <1>9 DEF StoppedAt, Settling, Ending
  <2>2. StatusTold(t)'
    BY <1>4, <1>5, <1>7, <1>9, <2>1
       DEF StatusTold, StopTold, Registers, SipTrunks!Registers
  <2>3. ASSUME NEW u \in Trunks, u # t PROVE StatusTold(u)'
    <3>1. \A pcs : StoppedAt(u, pcs) => StoppedAt(u, pcs)'
      BY <1>2, <1>9, <2>3 DEF StoppedAt
    <3> QED
      BY <1>5, <1>9, <2>3, <3>1, StatusElsewhere
  <2> QED
    BY <2>2, <2>3 DEF StatusMatches
<1>15. SeqsMatch'
  <2>1. \A u \in Trunks : Unbound(u)' <=> Unbound(u)
    BY <1>5, <1>8 DEF Unbound
  <2>2. \A k \in wire : k.trunk \in Trunks /\ k.seq \in Nat /\ k.seq <= trunk[k.trunk].seq
    BY DEF TrunkTypes, SeqsMatch
  <2>3. \A k \in wire' : k.seq <= trunk'[k.trunk].seq
    <3>1. \A u \in Trunks : trunk[u].seq \in Nat /\ trunk[u].seq <= trunk'[u].seq
      BY <1>3, <1>6, <1>7, <1>9 DEF TrunkRecords
    <3>2. m.seq <= trunk'[m.trunk].seq
      BY <1>6, <1>7, <1>8, <1>9
    <3>3. ASSUME NEW k \in wire PROVE k.seq <= trunk'[k.trunk].seq
      <4>1. trunk'[k.trunk].seq \in Nat
        BY <2>2, <1>10 DEF TrunkTypes, TrunkRecords
      <4> QED
        BY <2>2, <3>1, <4>1
    <3> QED
      BY <1>5, <3>2, <3>3
  <2>4. \A k \in wire : k.trunk = t => k.seq < next
    BY <1>6, <2>2
  <2>5. ASSUME NEW q \in Stoppers, NEW u \in Trunks, stop'[q].trunk = u
        PROVE  /\ stop'[q].pc = "wait" =>
                     \A k \in wire' : k.trunk = u /\ k.bind => k.seq < stop'[q].seq
               /\ stop'[q].pc = "wait" /\ stop'[q].reply = "ok" => Unbound(u)
               /\ stop'[q].pc \in {"gone", "tell unregistered"} => Unbound(u)
    <3>1. CASE q = p
      <4>1. u = t /\ stop'[q].seq = next /\ stop'[q].reply = "none" /\ stop'[q].pc = "wait"
        BY <1>7, <1>9, <2>5, <3>1
      <4>2. \A k \in wire' : k.trunk = t /\ k.bind => k.seq < next
        BY <1>5, <1>8, <2>4
      <4> QED
        BY <4>1, <4>2
    <3>2. CASE q # p
      BY <1>5, <1>8, <1>9, <2>5, <3>2 DEF SeqsMatch
    <3> QED
      BY <3>1, <3>2
  <2> QED
    BY <1>5, <2>1, <2>3, <2>5 DEF SeqsMatch
<1>16. AORsMatch'
  BY <1>5 DEF AORsMatch
<1>17. SipTrunks!TrustIsCounted'
  <2>1. \A h : Trusting(h)' = Trusting(h)
    BY <1>7, <1>9 DEF Trusting
  <2> QED
    BY <1>5, <2>1, TrustingFacts
<1> QED
  BY <1>10, <1>11, <1>12, <1>13, <1>14, <1>15, <1>16, <1>17

LEMMA StopSettlesInv ==
    ASSUME TrunkInv, NEW p \in Stoppers, SipTrunks!StopSettles(p) PROVE TrunkInv'
<1> USE DEF TrunkInv
<1>1. stop[p].pc \in {"gone", "unsure"}
  BY DEF SipTrunks!StopSettles, SipTrunks!StopAt
<1>2. PICK t \in Trunks : t = stop[p].trunk /\ t # None
  BY <1>1, StopperAt, ServicesAssumption
<1> DEFINE pc == IF ~Registers(t) THEN "stopped"
                 ELSE IF stop[p].pc = "gone" THEN "tell unregistered" ELSE "tell shutdown"
           rec == [trunk[t] EXCEPT !.once = FALSE,
                      !.status = IF Registers(t) THEN "expired" ELSE trunk[t].status]
           next == [stop[p] EXCEPT !.pc = pc]
<1>3. /\ trunk \in [Trunks -> TrunkRecords] /\ trunk[t] \in TrunkRecords
      /\ stop \in [Stoppers -> StopRecords] /\ stop[p] \in StopRecords
  BY DEF TrunkTypes
<1>4. trunk[t].run = "cancelled" /\ loop[t].pc = "done"
  BY <1>1, <1>2 DEF StoppersKnow
<1>5. /\ trunk' = [trunk EXCEPT ![t] = rec] /\ stop' = [stop EXCEPT ![p] = next]
      /\ trust' = IF trunk[t].once THEN SipTrunks!Unexempted(t) ELSE trust
      /\ UNCHANGED <<byID, byAOR, loop, told, shutdown, registrar, wire>>
  BY <1>2 DEF SipTrunks!StopSettles, SipTrunks!StopAt, SipTrunks!MayUntrust, Registers,
     SipTrunks!upstream
<1>6. /\ rec \in TrunkRecords /\ rec.run = trunk[t].run /\ rec.seq = trunk[t].seq
      /\ ~rec.once /\ rec.status = (IF Registers(t) THEN "expired" ELSE trunk[t].status)
      /\ next \in StopRecords /\ next.pc = pc /\ next.trunk = t
  <2>1. /\ rec \in TrunkRecords /\ rec.run = trunk[t].run /\ rec.seq = trunk[t].seq
        /\ ~rec.once /\ rec.status = (IF Registers(t) THEN "expired" ELSE trunk[t].status)
    BY <1>3 DEF TrunkRecords
  <2>2. next \in StopRecords /\ next.pc = pc /\ next.trunk = t
    BY <1>2, <1>3 DEF StopRecords, SipTrunks!StopPCs
  <2> QED
    BY <2>1, <2>2
<1> HIDE DEF rec, next
<1>7. /\ \A u \in Trunks : u # t => trunk'[u] = trunk[u]
      /\ \A q \in Stoppers : q # p => stop'[q] = stop[q]
      /\ trunk'[t] = rec /\ stop'[p] = next
  BY <1>3, <1>5
<1>8. TrunkTypes'
  <2>1. trust' \in [SipTrunks!Hosts -> Nat]
    BY <1>5 DEF TrunkTypes, SipTrunks!Unexempted
  <2> QED
    BY <1>3, <1>5, <1>6, <2>1 DEF TrunkTypes
<1>9. LoopsMatch'
  <2>1. \A u \in Trunks : trunk'[u].run = trunk[u].run
    BY <1>6, <1>7
  <2> QED
    BY <1>5, <2>1 DEF LoopsMatch
<1>10. StoppersKnow' /\ StoppersRegister'
  <2>1. ASSUME NEW q \in Stoppers
        PROVE  /\ stop'[q].pc \in {"idle", "over"} <=> stop'[q].trunk = None
               /\ \A u \in Trunks : stop'[q].trunk = u =>
                     /\ trunk'[u].run # "new"
                     /\ stop'[q].pc # "stop" => trunk'[u].run = "cancelled"
                     /\ stop'[q].pc \notin {"stop", "await"} => loop'[u].pc = "done"
                     /\ stop'[q].pc \in {"wait", "tell unregistered", "tell shutdown"} =>
                           Kind[u] = "sip_register"
    <3>1. \A u \in Trunks : trunk'[u].run = trunk[u].run
      BY <1>6, <1>7
    <3>2. CASE q = p
      <4>1. /\ stop'[q].trunk = t /\ stop'[q].pc \notin {"idle", "over"}
            /\ stop'[q].pc \in {"wait", "tell unregistered", "tell shutdown"} =>
                  Kind[t] = "sip_register"
        BY <1>6, <1>7, <3>2 DEF Registers, SipTrunks!Registers
      <4> QED
        BY <1>2, <1>4, <1>5, <3>1, <4>1
    <3>3. CASE q # p
      <4>1. stop'[q] = stop[q]
        BY <1>6, <1>7, <3>3
      <4>2. ASSUME NEW u \in Trunks, stop'[q].trunk = u
            PROVE  /\ trunk[u].run # "new"
                   /\ stop'[q].pc # "stop" => trunk[u].run = "cancelled"
                   /\ stop'[q].pc \notin {"stop", "await"} => loop[u].pc = "done"
        BY <4>1, <4>2 DEF StoppersKnow
      <4>3. \A u \in Trunks :
               /\ stop'[q].trunk = u
               /\ stop'[q].pc \in {"wait", "tell unregistered", "tell shutdown"}
               => Kind[u] = "sip_register"
        BY <4>1 DEF StoppersRegister
      <4>4. stop'[q].pc \in {"idle", "over"} <=> stop'[q].trunk = None
        BY <4>1 DEF StoppersKnow
      <4> QED
        BY <1>5, <3>1, <4>2, <4>3, <4>4
    <3> QED
      BY <3>2, <3>3
  <2>2. StoppersKnow'
    BY <2>1, ZenonT(30) DEF StoppersKnow
  <2>3. StoppersRegister'
    BY <2>1 DEF StoppersRegister
  <2> QED
    BY <2>2, <2>3
<1>11. ShutdownIsNew'
  BY <1>1, <1>5, <1>7, StopperAt DEF ShutdownIsNew, SipTrunks!Nowhere, Stoppers,
     SipTrunks!Stoppers
<1>12. StatusMatches'
  <2>1. Registers(t) => StoppedAt(t, Ending)'
    BY <1>6, <1>7 DEF StoppedAt, Ending
  <2>2. Registers(t) => StopTold(t)'
    BY <1>4, <1>5, <1>6, <1>7, <2>1 DEF StopTold
  <2>3. ~Registers(t) => PingTold(t)'
    BY <1>5, <1>6, <1>7 DEF StatusMatches, StatusTold, PingTold
  <2>4. StatusTold(t)'
    BY <1>4, <1>6, <1>7, <2>2, <2>3 DEF StatusTold, Registers, SipTrunks!Registers
  <2>5. ASSUME NEW u \in Trunks, u # t PROVE StatusTold(u)'
    <3>1. \A pcs : StoppedAt(u, pcs) => StoppedAt(u, pcs)'
      BY <1>2, <1>7, <2>5 DEF StoppedAt
    <3> QED
      BY <1>5, <1>7, <2>5, <3>1, StatusElsewhere
  <2> QED
    BY <2>4, <2>5 DEF StatusMatches
<1>13. SeqsMatch'
  <2>1. \A u \in Trunks : trunk'[u].seq = trunk[u].seq /\ (Unbound(u)' <=> Unbound(u))
    BY <1>5, <1>6, <1>7 DEF Unbound
  <2>2. ASSUME NEW q \in Stoppers, NEW u \in Trunks, stop'[q].trunk = u
        PROVE  /\ stop'[q].pc = "wait" =>
                     \A k \in wire : k.trunk = u /\ k.bind => k.seq < stop'[q].seq
               /\ stop'[q].pc = "wait" /\ stop'[q].reply = "ok" => Unbound(u)
               /\ stop'[q].pc \in {"gone", "tell unregistered"} => Unbound(u)
    <3>1. CASE q = p
      BY <1>1, <1>2, <1>6, <1>7, <2>2, <3>1 DEF SeqsMatch
    <3>2. CASE q # p
      BY <1>7, <2>2, <3>2 DEF SeqsMatch
    <3> QED
      BY <3>1, <3>2
  <2>3. \A k \in wire' : k.seq <= trunk'[k.trunk].seq
    BY <1>5, <2>1 DEF SeqsMatch, TrunkTypes
  <2> QED
    BY <1>5, <2>1, <2>2, <2>3 DEF SeqsMatch
<1>14. AORsMatch'
  BY <1>5 DEF AORsMatch
<1>15. SipTrunks!TrustIsCounted'
  <2> SUFFICES ASSUME NEW h \in SipTrunks!Hosts PROVE trust'[h] = Cardinality(Trusting(h)')
    BY TrustingFacts
  <2>1. /\ trust[h] = Cardinality(Trusting(h)) /\ IsFiniteSet(Trusting(h)) /\ trust[h] \in Nat
    BY TrustingFacts DEF TrunkTypes
  <2>2. CASE trunk[t].once /\ h = Host[t]
    <3>1. Trusting(h)' = Trusting(h) \ {t} /\ t \in Trusting(h)
      BY <1>6, <1>7, <2>2 DEF Trusting
    <3>2. Cardinality(Trusting(h) \ {t}) = Cardinality(Trusting(h)) - 1
      BY <2>1, <3>1, FS_RemoveElement
    <3>3. Cardinality(Trusting(h)) # 0
      BY <2>1, <3>1, FS_EmptySet
    <3>4. trust'[h] = trust[h] - 1
      BY <1>5, <2>1, <2>2, <3>3 DEF SipTrunks!Unexempted
    <3> QED
      BY <2>1, <3>1, <3>2, <3>4
  <2>3. CASE ~(trunk[t].once /\ h = Host[t])
    <3>1. Trusting(h)' = Trusting(h)
      BY <1>6, <1>7, <2>3 DEF Trusting
    <3>2. trust'[h] = trust[h]
      BY <1>5, <2>3 DEF SipTrunks!Unexempted
    <3> QED
      BY <2>1, <3>1, <3>2
  <2> QED
    BY <2>2, <2>3
<1> QED
  BY <1>8, <1>9, <1>10, <1>11, <1>12, <1>13, <1>14, <1>15

LEMMA StopTellsInv ==
    ASSUME TrunkInv, NEW p \in Stoppers, SipTrunks!StopTells(p) PROVE TrunkInv'
<1> USE DEF TrunkInv
<1>1. stop[p].pc \in {"tell unregistered", "tell shutdown"}
  BY DEF SipTrunks!StopTells, SipTrunks!StopAt
<1>2. PICK t \in Trunks : t = stop[p].trunk /\ t # None
  <2>1. stop[p].pc \notin {"idle", "over"}
    BY <1>1
  <2> QED
    BY <2>1, StopperAt, ServicesAssumption
<1> DEFINE next == [stop[p] EXCEPT !.pc = "stopped"]
           event == told'[t]
<1>3. /\ told \in [Trunks -> Events]
      /\ stop \in [Stoppers -> StopRecords] /\ stop[p] \in StopRecords
  BY DEF TrunkTypes
<1>4. trunk[t].run = "cancelled" /\ loop[t].pc = "done" /\ Registers(t)
  BY <1>1, <1>2 DEF StoppersKnow, StoppersRegister, Registers, SipTrunks!Registers
<1>5. /\ \/ stop[p].pc = "tell unregistered" /\ event = "unregistered"
         \/ stop[p].pc = "tell shutdown" /\ event = "shutdown"
      /\ event \in Events /\ told' = [told EXCEPT ![t] = event]
      /\ stop' = [stop EXCEPT ![p] = next]
      /\ UNCHANGED <<byID, byAOR, trust, trunk, loop, shutdown, registrar, wire>>
  BY <1>2, <1>3 DEF SipTrunks!StopTells, SipTrunks!StopAt, SipTrunks!upstream, Events
<1>6. next \in StopRecords /\ next.pc = "stopped" /\ next.trunk = t
  BY <1>2, <1>3 DEF StopRecords, SipTrunks!StopPCs
<1> HIDE DEF next, event
<1>7. /\ \A u \in Trunks : u # t => told'[u] = told[u]
      /\ \A q \in Stoppers : q # p => stop'[q] = stop[q]
      /\ told'[t] = event /\ stop'[p] = next
  BY <1>3, <1>5
<1>8. TrunkTypes'
  BY <1>3, <1>5, <1>6 DEF TrunkTypes
<1>9. LoopsMatch'
  <2>1. \A u \in Trunks : u # t => told'[u] = told[u]
    BY <1>7
  <2> QED
    BY <1>4, <1>5, <2>1 DEF LoopsMatch
<1>10. StoppersKnow' /\ StoppersRegister'
  <2>1. ASSUME NEW q \in Stoppers
        PROVE  /\ stop'[q].pc \in {"idle", "over"} <=> stop'[q].trunk = None
               /\ \A u \in Trunks : stop'[q].trunk = u =>
                     /\ trunk'[u].run # "new"
                     /\ stop'[q].pc # "stop" => trunk'[u].run = "cancelled"
                     /\ stop'[q].pc \notin {"stop", "await"} => loop'[u].pc = "done"
                     /\ stop'[q].pc \in {"wait", "tell unregistered", "tell shutdown"} =>
                           Kind[u] = "sip_register"
    <3>1. \A u \in Trunks : trunk'[u].run = trunk[u].run
      BY <1>5
    <3>2. CASE q = p
      <4>1. /\ stop'[q].trunk = t /\ stop'[q].pc \notin {"idle", "over"}
            /\ stop'[q].pc \in {"wait", "tell unregistered", "tell shutdown"} =>
                  Kind[t] = "sip_register"
        BY <1>6, <1>7, <3>2 DEF Registers, SipTrunks!Registers
      <4> QED
        BY <1>2, <1>4, <1>5, <3>1, <4>1
    <3>3. CASE q # p
      <4>1. stop'[q] = stop[q]
        BY <1>6, <1>7, <3>3
      <4>2. ASSUME NEW u \in Trunks, stop'[q].trunk = u
            PROVE  /\ trunk[u].run # "new"
                   /\ stop'[q].pc # "stop" => trunk[u].run = "cancelled"
                   /\ stop'[q].pc \notin {"stop", "await"} => loop[u].pc = "done"
        BY <4>1, <4>2 DEF StoppersKnow
      <4>3. \A u \in Trunks :
               /\ stop'[q].trunk = u
               /\ stop'[q].pc \in {"wait", "tell unregistered", "tell shutdown"}
               => Kind[u] = "sip_register"
        BY <4>1 DEF StoppersRegister
      <4>4. stop'[q].pc \in {"idle", "over"} <=> stop'[q].trunk = None
        BY <4>1 DEF StoppersKnow
      <4> QED
        BY <1>5, <3>1, <4>2, <4>3, <4>4
    <3> QED
      BY <3>2, <3>3
  <2>2. StoppersKnow'
    BY <2>1, ZenonT(30) DEF StoppersKnow
  <2>3. StoppersRegister'
    BY <2>1 DEF StoppersRegister
  <2> QED
    BY <2>2, <2>3
<1>11. ShutdownIsNew'
  BY <1>1, <1>5, <1>7, StopperAt DEF ShutdownIsNew, SipTrunks!Nowhere, Stoppers,
     SipTrunks!Stoppers
<1>12. StatusMatches'
  <2>1. StoppedAt(t, Settling) => StoppedAt(t, Settling)'
    BY <1>1, <1>7 DEF StoppedAt, Settling
  <2>2. StopTold(t)'
    BY <1>4, <1>5, <1>7, <2>1 DEF StatusMatches, StatusTold, StopTold
  <2>3. StatusTold(t)'
    BY <1>4, <1>5, <2>2 DEF StatusTold, Registers, SipTrunks!Registers
  <2>4. ASSUME NEW u \in Trunks, u # t PROVE StatusTold(u)'
    <3>1. \A pcs : StoppedAt(u, pcs) => StoppedAt(u, pcs)'
      BY <1>2, <1>7, <2>4 DEF StoppedAt
    <3> QED
      BY <1>5, <1>7, <2>4, <3>1, StatusElsewhere
  <2> QED
    BY <2>3, <2>4 DEF StatusMatches
<1>13. SeqsMatch'
  <2>1. \A u \in Trunks : Unbound(u)' <=> Unbound(u)
    BY <1>5 DEF Unbound
  <2>2. ASSUME NEW q \in Stoppers, NEW u \in Trunks, stop'[q].trunk = u
        PROVE  /\ stop'[q].pc = "wait" =>
                     \A k \in wire : k.trunk = u /\ k.bind => k.seq < stop'[q].seq
               /\ stop'[q].pc = "wait" /\ stop'[q].reply = "ok" => Unbound(u)
               /\ stop'[q].pc \in {"gone", "tell unregistered"} => Unbound(u)
    BY <1>6, <1>7, <2>2 DEF SeqsMatch
  <2>3. ASSUME NEW u \in Trunks, told'[u] = "unregistered"
        PROVE  Unbound(u) /\ loop[u].pc = "done"
    BY <1>2, <1>4, <1>5, <1>7, <2>3 DEF SeqsMatch
  <2>4. \A k \in wire' : k.seq <= trunk'[k.trunk].seq
    BY <1>5 DEF SeqsMatch
  <2> QED
    BY <1>5, <2>1, <2>2, <2>3, <2>4 DEF SeqsMatch
<1>14. AORsMatch' /\ SipTrunks!TrustIsCounted'
  BY <1>5 DEF AORsMatch, SipTrunks!TrustIsCounted
<1> QED
  BY <1>8, <1>9, <1>10, <1>11, <1>12, <1>13, <1>14

LEMMA RemoveTrunkInv ==
    ASSUME TrunkInv, NEW p \in Stoppers, SipTrunks!Remove(p) PROVE TrunkInv'
<1> USE DEF TrunkInv
<1>1. stop[p].pc = "stopped" /\ p \in Deleters
  BY DEF SipTrunks!Remove, SipTrunks!StopAt
<1>2. PICK t \in Trunks : t = stop[p].trunk /\ t # None
  BY <1>1, StopperAt, ServicesAssumption
<1> DEFINE through == [SipTrunks!Nowhere EXCEPT !.pc = "over"]
<1>3. /\ byID' = byID \ {t} /\ byAOR' = (IF t \in byID THEN SipTrunks!RemoveAOR(t) ELSE byAOR)
      /\ stop' = [stop EXCEPT ![p] = through]
      /\ UNCHANGED <<trust, trunk, loop, told, shutdown, registrar, wire>>
  BY <1>2 DEF SipTrunks!Remove, SipTrunks!upstream
<1>4. through \in StopRecords /\ through.pc = "over" /\ through.trunk = None
  BY DEF SipTrunks!Nowhere, StopRecords, SipTrunks!StopPCs, SipTrunks!Replies
<1> HIDE DEF through
<1>5. stop \in [Stoppers -> StopRecords]
  BY DEF TrunkTypes
<1>6. stop'[p] = through /\ \A q \in Stoppers : q # p => stop'[q] = stop[q]
  BY <1>3, <1>5
<1>7. \A a \in SipTrunks!AORs :
        /\ byAOR'[a] = byAOR[a] \/ byAOR'[a] = None
        /\ t \in byID /\ byAOR[a] = t => byAOR'[a] = None
  BY <1>3 DEF TrunkTypes, SipTrunks!RemoveAOR, AORsMatch
<1>8. TrunkTypes'
  <2>1. byAOR' \in [SipTrunks!AORs -> Trunks \cup {None}]
    BY <1>3 DEF TrunkTypes, SipTrunks!RemoveAOR
  <2> QED
    BY <1>3, <1>4, <2>1 DEF TrunkTypes
<1>9. LoopsMatch'
  BY <1>3 DEF LoopsMatch
<1>10. StoppersKnow'
  BY <1>3, <1>4, <1>6, ServicesAssumption DEF StoppersKnow
<1>11. StoppersRegister'
  BY <1>4, <1>6 DEF StoppersRegister
<1>12. ShutdownIsNew'
  BY <1>1, <1>3, <1>6, ServicesAssumption DEF ShutdownIsNew, Stoppers, SipTrunks!Stoppers
<1>13. StatusMatches'
  <2> SUFFICES ASSUME NEW u \in Trunks PROVE StatusTold(u)'
    BY DEF StatusMatches
  <2>1. \A pcs : "stopped" \notin pcs /\ StoppedAt(u, pcs) => StoppedAt(u, pcs)'
    BY <1>1, <1>6 DEF StoppedAt
  <2> QED
    BY <1>3, <2>1, StatusElsewhere DEF Settling, Ending
<1>14. SeqsMatch'
  <2>1. \A u \in Trunks : Unbound(u)' <=> Unbound(u)
    BY <1>3 DEF Unbound
  <2>2. ASSUME NEW q \in Stoppers, NEW u \in Trunks, stop'[q].trunk = u
        PROVE  /\ stop'[q].pc = "wait" =>
                     \A k \in wire : k.trunk = u /\ k.bind => k.seq < stop'[q].seq
               /\ stop'[q].pc = "wait" /\ stop'[q].reply = "ok" => Unbound(u)
               /\ stop'[q].pc \in {"gone", "tell unregistered"} => Unbound(u)
    BY <1>4, <1>6, <2>2 DEF SeqsMatch
  <2> QED
    BY <1>3, <2>1, <2>2 DEF SeqsMatch
<1>15. AORsMatch'
  <2> SUFFICES ASSUME NEW a \in SipTrunks!AORs, byAOR'[a] # None
               PROVE  byAOR'[a] \in byID' /\ AOR[byAOR'[a]] = a
    BY DEF AORsMatch
  <2>1. byAOR'[a] = byAOR[a] /\ byAOR[a] \in byID /\ AOR[byAOR[a]] = a
    BY <1>7 DEF AORsMatch
  <2> QED
    BY <1>3, <1>7, <2>1
<1>16. SipTrunks!TrustIsCounted'
  BY <1>3 DEF SipTrunks!TrustIsCounted
<1> QED
  BY <1>8, <1>9, <1>10, <1>11, <1>12, <1>13, <1>14, <1>15, <1>16

LEMMA ShutdownBeginsInv ==
    ASSUME TrunkInv, SipTrunks!ShutdownBegins PROVE TrunkInv'
<1> USE DEF TrunkInv
<1> DEFINE begun(p) == [SipTrunks!Nowhere EXCEPT !.pc = "stop", !.trunk = p]
<1>1. /\ shutdown = "no" /\ shutdown' = "stopping"
      /\ \A t \in byID : trunk[t].run # "new"
      /\ stop' = [p \in Stoppers |-> IF p \in byID THEN begun(p) ELSE stop[p]]
      /\ UNCHANGED <<byID, byAOR, trust, trunk, loop, told, registrar, wire>>
  BY DEF SipTrunks!ShutdownBegins, SipTrunks!upstream, Stoppers
<1>2. byID \subseteq Trunks /\ None \notin Trunks
  BY ServicesAssumption DEF TrunkTypes
<1>3. \A p \in Trunks : begun(p) \in StopRecords /\ begun(p).pc = "stop" /\ begun(p).trunk = p
  BY DEF SipTrunks!Nowhere, StopRecords, SipTrunks!StopPCs, SipTrunks!Replies
<1> HIDE DEF begun
<1>4. \A p \in byID : stop[p].trunk = None /\ p \in Stoppers
  BY <1>1, <1>2 DEF ShutdownIsNew, SipTrunks!Nowhere, Stoppers, SipTrunks!Stoppers
<1>5. /\ \A p \in byID : stop'[p] = begun(p)
      /\ \A p \in Stoppers : p \notin byID => stop'[p] = stop[p]
  BY <1>1, <1>4
<1>6. TrunkTypes'
  BY <1>1, <1>2, <1>3 DEF TrunkTypes
<1>7. LoopsMatch'
  BY <1>1 DEF LoopsMatch
<1>8. StoppersKnow'
  <2>1. ASSUME NEW p \in Stoppers, p \in byID
        PROVE  /\ stop'[p].pc = "stop" /\ stop'[p].trunk = p /\ p # None
               /\ trunk[p].run # "new"
    BY <1>1, <1>2, <1>3, <1>5, <2>1
  <2> QED
    BY <1>1, <1>5, <2>1 DEF StoppersKnow
<1>9. StoppersRegister'
  <2>1. \A p \in Stoppers : p \in byID => stop'[p].pc = "stop"
    BY <1>2, <1>3, <1>5
  <2>2. ASSUME NEW q \in Stoppers, NEW u \in Trunks, stop'[q].trunk = u,
               stop'[q].pc \in {"wait", "tell unregistered", "tell shutdown"}
        PROVE  Kind[u] = "sip_register"
    <3>1. stop'[q] = stop[q]
      BY <1>5, <2>1, <2>2
    <3> QED
      BY <2>2, <3>1 DEF StoppersRegister
  <2> QED
    BY <2>2 DEF StoppersRegister
<1>10. ShutdownIsNew'
  BY <1>1 DEF ShutdownIsNew
<1>11. StatusMatches'
  <2> SUFFICES ASSUME NEW u \in Trunks PROVE StatusTold(u)'
    BY DEF StatusMatches
  <2>1. \A pcs : StoppedAt(u, pcs) => StoppedAt(u, pcs)'
    BY <1>2, <1>4, <1>5 DEF StoppedAt
  <2> QED
    BY <1>1, <2>1, StatusElsewhere
<1>12. SeqsMatch'
  <2>1. \A u \in Trunks : Unbound(u)' <=> Unbound(u)
    BY <1>1 DEF Unbound
  <2>2. ASSUME NEW q \in Stoppers, NEW u \in Trunks, stop'[q].trunk = u
        PROVE  /\ stop'[q].pc = "wait" =>
                     \A k \in wire : k.trunk = u /\ k.bind => k.seq < stop'[q].seq
               /\ stop'[q].pc = "wait" /\ stop'[q].reply = "ok" => Unbound(u)
               /\ stop'[q].pc \in {"gone", "tell unregistered"} => Unbound(u)
    <3>1. CASE q \in byID
      BY <1>2, <1>3, <1>5, <3>1
    <3>2. CASE q \notin byID
      BY <1>5, <2>2, <3>2 DEF SeqsMatch
    <3> QED
      BY <3>1, <3>2
  <2> QED
    BY <1>1, <2>1, <2>2 DEF SeqsMatch
<1>13. AORsMatch' /\ SipTrunks!TrustIsCounted'
  BY <1>1 DEF AORsMatch, SipTrunks!TrustIsCounted
<1> QED
  BY <1>6, <1>7, <1>8, <1>9, <1>10, <1>11, <1>12, <1>13

LEMMA ShutdownEndsInv ==
    ASSUME TrunkInv, SipTrunks!ShutdownEnds PROVE TrunkInv'
<1> USE DEF TrunkInv
<1>1. /\ shutdown' = "done" /\ byID' = {} /\ byAOR' = [a \in SipTrunks!AORs |-> None]
      /\ UNCHANGED <<trust, trunk, loop, told, stop, registrar, wire>>
  BY DEF SipTrunks!ShutdownEnds, SipTrunks!upstream
<1>2. TrunkTypes'
  BY <1>1 DEF TrunkTypes
<1>3. LoopsMatch' /\ StoppersKnow' /\ StoppersRegister' /\ ShutdownIsNew'
  BY <1>1 DEF LoopsMatch, StoppersKnow, StoppersRegister, ShutdownIsNew
<1>4. StatusMatches'
  BY <1>1, StatusElsewhere DEF StatusMatches, StoppedAt
<1>5. SeqsMatch'
  BY <1>1 DEF SeqsMatch, Unbound
<1>6. AORsMatch' /\ SipTrunks!TrustIsCounted'
  BY <1>1 DEF AORsMatch, SipTrunks!TrustIsCounted
<1> QED
  BY <1>2, <1>3, <1>4, <1>5, <1>6

(* What happens upstream moves no loop and no stopper, but for a reply.            *)
UpstreamMoves ==
    /\ wire' \subseteq wire
    /\ registrar' \in [Trunks -> [bound : BOOLEAN, seq : Nat]]
    /\ loop' \in [Trunks -> LoopRecords]
    /\ stop' \in [Stoppers -> StopRecords]
    /\ \A t \in Trunks : loop'[t].pc = loop[t].pc
    /\ \A p \in Stoppers : p \in Trunks /\ stop[p] = SipTrunks!Nowhere => stop'[p] = stop[p]
    /\ \A p \in Stoppers : /\ stop'[p].pc = stop[p].pc /\ stop'[p].trunk = stop[p].trunk
                            /\ stop'[p].seq = stop[p].seq
    /\ \A t \in Trunks : Unbound(t) => Unbound(t)'
    /\ \A p \in Stoppers, t \in Trunks :
          stop[p].trunk = t /\ stop[p].pc = "wait" =>
             (stop'[p].reply = "ok" /\ stop[p].reply # "ok" => Unbound(t)')
    /\ UNCHANGED <<byID, byAOR, trust, trunk, told, shutdown>>

LEMMA UpstreamInv == ASSUME TrunkInv, UpstreamMoves PROVE TrunkInv'
<1> USE DEF TrunkInv, UpstreamMoves
<1>1. TrunkTypes'
  BY DEF TrunkTypes
<1>2. LoopsMatch'
  BY DEF LoopsMatch
<1>8. StoppersRegister'
  <2> SUFFICES ASSUME NEW q \in Stoppers, NEW u \in Trunks, stop'[q].trunk = u,
                      stop'[q].pc \in {"wait", "tell unregistered", "tell shutdown"}
               PROVE  Kind[u] = "sip_register"
    BY DEF StoppersRegister
  <2> QED
    BY DEF StoppersRegister
<1>3. StoppersKnow'
  BY DEF StoppersKnow
<1>4. ShutdownIsNew'
  BY DEF ShutdownIsNew, Stoppers, SipTrunks!Stoppers
<1>5. StatusMatches'
  <2> SUFFICES ASSUME NEW u \in Trunks PROVE StatusTold(u)'
    BY DEF StatusMatches
  <2>1. StatusTold(u)
    BY DEF StatusMatches
  <2>2. \A pcs : StoppedAt(u, pcs) => StoppedAt(u, pcs)'
    BY DEF StoppedAt
  <2>3. /\ PingTold(u) => PingTold(u)'
        /\ RegisterTold(u) => RegisterTold(u)'
        /\ StopTold(u) => StopTold(u)'
    BY <2>2 DEF PingTold, RegisterTold, StopTold
  <2> QED
    BY <2>1, <2>3 DEF StatusTold, Registers, SipTrunks!Registers
<1>6. SeqsMatch'
  <2>1. ASSUME NEW q \in Stoppers, NEW u \in Trunks, stop'[q].trunk = u
        PROVE  /\ stop'[q].pc = "wait" =>
                     \A k \in wire' : k.trunk = u /\ k.bind => k.seq < stop'[q].seq
               /\ stop'[q].pc = "wait" /\ stop'[q].reply = "ok" => Unbound(u)'
               /\ stop'[q].pc \in {"gone", "tell unregistered"} => Unbound(u)'
    BY <2>1 DEF SeqsMatch
  <2>2. \A u \in Trunks : told'[u] = "unregistered" => Unbound(u)' /\ loop'[u].pc = "done"
    BY DEF SeqsMatch
  <2>3. \A k \in wire' : k.seq <= trunk'[k.trunk].seq
    BY DEF SeqsMatch
  <2> QED
    BY <2>1, <2>2, <2>3 DEF SeqsMatch
<1>7. AORsMatch' /\ SipTrunks!TrustIsCounted'
  BY DEF AORsMatch, SipTrunks!TrustIsCounted
<1> QED
  BY <1>1, <1>2, <1>3, <1>4, <1>5, <1>6, <1>7, <1>8

LEMMA AnswerFacts ==
    ASSUME TrunkInv, NEW m \in wire, NEW code \in SipTrunks!Replies, SipTrunks!Answer(m, code)
    PROVE  /\ wire' \subseteq wire
           /\ loop' \in [Trunks -> LoopRecords] /\ stop' \in [Stoppers -> StopRecords]
           /\ \A t \in Trunks : loop'[t].pc = loop[t].pc
           /\ \A p \in Stoppers :
                 p \in Trunks /\ stop[p] = SipTrunks!Nowhere => stop'[p] = stop[p]
           /\ \A p \in Stoppers :
                 /\ stop'[p].pc = stop[p].pc /\ stop'[p].trunk = stop[p].trunk
                 /\ stop'[p].seq = stop[p].seq
                 /\ stop'[p].reply # stop[p].reply =>
                       /\ stop[p].trunk = m.trunk /\ stop[p].pc = "wait" /\ stop[p].seq = m.seq
                       /\ stop'[p].reply = code
           /\ UNCHANGED <<byID, byAOR, trust, trunk, told, shutdown>>
<1>1. /\ loop' = [t \in Trunks |->
            IF t = m.trunk /\ loop[t].pc = "wait" /\ loop[t].seq = m.seq
            THEN [loop[t] EXCEPT !.reply = code] ELSE loop[t]]
      /\ stop' = [p \in Stoppers |->
            IF stop[p].trunk = m.trunk /\ stop[p].pc = "wait" /\ stop[p].seq = m.seq
            THEN [stop[p] EXCEPT !.reply = code] ELSE stop[p]]
      /\ wire' = wire \ {m}
      /\ UNCHANGED <<byID, byAOR, trust, trunk, told, shutdown>>
  BY DEF SipTrunks!Answer, SipTrunks!LoopAt, SipTrunks!StopAt, Stoppers
<1>2. \A t \in Trunks : /\ loop[t] \in LoopRecords
                        /\ [loop[t] EXCEPT !.reply = code] \in LoopRecords
                        /\ [loop[t] EXCEPT !.reply = code].pc = loop[t].pc
  BY DEF TrunkInv, TrunkTypes, LoopRecords
<1>3. \A p \in Stoppers : /\ stop[p] \in StopRecords
                          /\ [stop[p] EXCEPT !.reply = code] \in StopRecords
                          /\ [stop[p] EXCEPT !.reply = code].pc = stop[p].pc
                          /\ [stop[p] EXCEPT !.reply = code].trunk = stop[p].trunk
                          /\ [stop[p] EXCEPT !.reply = code].seq = stop[p].seq
                          /\ [stop[p] EXCEPT !.reply = code].reply = code
  BY DEF TrunkInv, TrunkTypes, StopRecords
<1>4. loop' \in [Trunks -> LoopRecords] /\ \A t \in Trunks : loop'[t].pc = loop[t].pc
  BY <1>1, <1>2
<1>5. stop' \in [Stoppers -> StopRecords]
  BY <1>1, <1>3
<1>6. \A p \in Stoppers : stop[p] = SipTrunks!Nowhere => stop'[p] = stop[p]
  BY <1>1 DEF SipTrunks!Nowhere
<1>7. \A p \in Stoppers :
         /\ stop'[p].pc = stop[p].pc /\ stop'[p].trunk = stop[p].trunk
         /\ stop'[p].seq = stop[p].seq
         /\ stop'[p].reply # stop[p].reply =>
               /\ stop[p].trunk = m.trunk /\ stop[p].pc = "wait" /\ stop[p].seq = m.seq
               /\ stop'[p].reply = code
  BY <1>1, <1>3
<1> QED
  BY <1>1, <1>4, <1>5, <1>6, <1>7

LEMMA RegistrarRefusesInv ==
    ASSUME TrunkInv, NEW m \in wire, SipTrunks!RegistrarRefuses(m) PROVE TrunkInv'
<1>1. PICK code \in {"challenge", "reject"} : SipTrunks!Answer(m, code)
  BY DEF SipTrunks!RegistrarRefuses
<1>2. registrar' = registrar /\ code # "ok" /\ code \in SipTrunks!Replies
  BY DEF SipTrunks!RegistrarRefuses, SipTrunks!Replies
<1>3. registrar' \in [Trunks -> [bound : BOOLEAN, seq : Nat]]
  BY <1>2 DEF TrunkInv, TrunkTypes
<1>4. wire' \subseteq wire
  BY <1>1, <1>2, AnswerFacts
<1>5. \A t \in Trunks : Unbound(t) => Unbound(t)'
  BY <1>2, <1>4 DEF Unbound
<1>6. \A p \in Stoppers : stop'[p].reply = "ok" => stop[p].reply = "ok"
  BY <1>1, <1>2, AnswerFacts
<1> QED
  <2>1. UpstreamMoves
    BY <1>1, <1>2, <1>3, <1>5, <1>6, AnswerFacts DEF UpstreamMoves
  <2> QED
    BY <2>1, UpstreamInv

LEMMA RegistrarAcceptsInv ==
    ASSUME TrunkInv, NEW m \in wire, SipTrunks!RegistrarAccepts(m) PROVE TrunkInv'
<1> DEFINE binding == [bound |-> m.bind, seq |-> m.seq]
<1>1. /\ m.seq > registrar[m.trunk].seq
      /\ registrar' = [registrar EXCEPT ![m.trunk] = binding]
      /\ SipTrunks!Answer(m, "ok") /\ "ok" \in SipTrunks!Replies
  BY DEF SipTrunks!RegistrarAccepts, SipTrunks!Replies
<1>2. /\ m.trunk \in Trunks /\ m.seq \in Nat /\ m.bind \in BOOLEAN
      /\ registrar \in [Trunks -> [bound : BOOLEAN, seq : Nat]]
      /\ \A k \in wire : k.seq \in Nat
  BY DEF TrunkInv, TrunkTypes
<1>3. registrar' \in [Trunks -> [bound : BOOLEAN, seq : Nat]]
  BY <1>1, <1>2
<1>4. wire' \subseteq wire
  BY <1>1, AnswerFacts
<1>5. /\ registrar'[m.trunk].bound = m.bind /\ registrar'[m.trunk].seq = m.seq
      /\ \A t \in Trunks : t # m.trunk => registrar'[t] = registrar[t]
  BY <1>1, <1>2
<1>6. \A t \in Trunks : Unbound(t) => Unbound(t)'
  <2> SUFFICES ASSUME NEW t \in Trunks, Unbound(t) PROVE Unbound(t)'
    OBVIOUS
  <2>1. CASE t # m.trunk
    BY <1>4, <1>5, <2>1 DEF Unbound
  <2>2. CASE t = m.trunk
    <3>1. registrar[t].seq \in Nat
      BY <1>2
    <3>2. ~m.bind
      BY <1>1, <1>2, <2>2, <3>1 DEF Unbound
    <3>3. ASSUME NEW k \in wire, k.trunk = t, k.bind PROVE k.seq <= m.seq
      BY <1>1, <1>2, <2>2, <3>1, <3>3 DEF Unbound
    <3> QED
      BY <1>4, <1>5, <2>2, <3>2, <3>3 DEF Unbound
  <2> QED
    BY <2>1, <2>2
<1>7. ASSUME NEW p \in Stoppers, NEW t \in Trunks, stop[p].trunk = t, stop[p].pc = "wait",
             stop'[p].reply = "ok", stop[p].reply # "ok"
      PROVE  Unbound(t)'
  <2>1. t = m.trunk /\ stop[p].seq = m.seq
    BY <1>1, <1>7, AnswerFacts
  <2>2. \A k \in wire : k.trunk = t /\ k.bind => k.seq < m.seq
    BY <1>7, <2>1 DEF TrunkInv, SeqsMatch
  <2>3. ~m.bind
    BY <1>2, <2>1, <2>2
  <2> QED
    BY <1>2, <1>4, <1>5, <2>1, <2>2, <2>3 DEF Unbound
<1> HIDE DEF binding
<1> QED
  <2>1. UpstreamMoves
    BY <1>1, <1>3, <1>6, <1>7, AnswerFacts DEF UpstreamMoves
  <2> QED
    BY <2>1, UpstreamInv

LEMMA UpstreamAloneInv ==
    ASSUME TrunkInv,
           \/ \E m \in wire : SipTrunks!RegisterIsLost(m)
           \/ \E t \in Trunks : SipTrunks!BindingExpires(t)
    PROVE  TrunkInv'
<1>1. /\ wire' \subseteq wire
      /\ UNCHANGED <<byID, byAOR, trust, trunk, loop, told, stop, shutdown>>
  BY DEF SipTrunks!RegisterIsLost, SipTrunks!BindingExpires
<1>2. registrar \in [Trunks -> [bound : BOOLEAN, seq : Nat]]
  BY DEF TrunkInv, TrunkTypes
<1>3. registrar' = registrar \/ \E t \in Trunks : registrar' = [registrar EXCEPT ![t].bound = FALSE]
  BY DEF SipTrunks!RegisterIsLost, SipTrunks!BindingExpires
<1>4. registrar' \in [Trunks -> [bound : BOOLEAN, seq : Nat]]
  BY <1>2, <1>3
<1>5. \A t \in Trunks : registrar'[t].seq = registrar[t].seq
                        /\ (~registrar[t].bound => ~registrar'[t].bound)
  BY <1>2, <1>3
<1>6. \A t \in Trunks : Unbound(t) => Unbound(t)'
  BY <1>1, <1>5 DEF Unbound
<1>7. loop' \in [Trunks -> LoopRecords] /\ stop' \in [Stoppers -> StopRecords]
  BY <1>1 DEF TrunkInv, TrunkTypes
<1> QED
  <2>1. UpstreamMoves
    BY <1>1, <1>4, <1>6, <1>7 DEF UpstreamMoves
  <2> QED
    BY <2>1, UpstreamInv

LEMMA TrunkInvInit == SipTrunks!Init => TrunkInv
<1> SUFFICES ASSUME SipTrunks!Init PROVE TrunkInv
  OBVIOUS
<1>1. /\ byID = {} /\ byAOR = [a \in SipTrunks!AORs |-> None]
      /\ trust = [h \in SipTrunks!Hosts |-> 0]
      /\ trunk = [t \in Trunks |-> SipTrunks!NoTrunk]
      /\ loop = [t \in Trunks |-> SipTrunks!NoLoop]
      /\ told = [t \in Trunks |-> "none"]
      /\ stop = [p \in Stoppers |-> SipTrunks!Nowhere]
      /\ shutdown = "no"
      /\ registrar = [t \in Trunks |-> [bound |-> FALSE, seq |-> 0]]
      /\ wire = {}
  BY DEF SipTrunks!Init, Stoppers
<1>2. /\ SipTrunks!NoTrunk \in TrunkRecords /\ SipTrunks!NoLoop \in LoopRecords
      /\ SipTrunks!Nowhere \in StopRecords
  BY DEF SipTrunks!NoTrunk, SipTrunks!NoLoop, SipTrunks!Nowhere, TrunkRecords, LoopRecords,
     StopRecords, SipTrunks!LoopPCs, SipTrunks!StopPCs, SipTrunks!Replies
<1>3. TrunkTypes
  BY <1>1, <1>2 DEF TrunkTypes, Events
<1>4. /\ \A t \in Trunks :
            /\ trunk[t].status = "none" /\ trunk[t].run = "new" /\ ~trunk[t].once
            /\ loop[t].pc = "none" /\ told[t] = "none"
      /\ \A p \in Stoppers : stop[p] = SipTrunks!Nowhere
  BY <1>1 DEF SipTrunks!NoTrunk, SipTrunks!NoLoop
<1>5. SipTrunks!Nowhere.pc = "idle" /\ SipTrunks!Nowhere.trunk = None
  BY DEF SipTrunks!Nowhere
<1>6. LoopsMatch /\ AORsMatch
  BY <1>1, <1>4 DEF LoopsMatch, AORsMatch
<1>7. StoppersKnow /\ StoppersRegister
  BY <1>4, <1>5, ServicesAssumption DEF StoppersKnow, StoppersRegister
<1>8. ShutdownIsNew
  BY <1>4 DEF ShutdownIsNew, Stoppers, SipTrunks!Stoppers
<1>9. StatusMatches
  BY <1>4 DEF StatusMatches, StatusTold, PingTold, RegisterTold, LoopRests
<1>10. SeqsMatch
  BY <1>1, <1>4, <1>5, ServicesAssumption DEF SeqsMatch
<1>11. SipTrunks!TrustIsCounted
  <2>1. \A h : Trusting(h) = {}
    BY <1>4 DEF Trusting
  <2> QED
    BY <1>1, <2>1, TrustingFacts, FS_EmptySet
<1> QED
  BY <1>3, <1>6, <1>7, <1>8, <1>9, <1>10, <1>11 DEF TrunkInv

LEMMA TrunkInvStep ==
    ASSUME TrunkInv, [SipTrunks!Next]_trunkVars PROVE TrunkInv'
<1>1. CASE UNCHANGED trunkVars
  <2> USE <1>1 DEF TrunkInv, trunkVars
  <2>1. TrunkTypes' /\ LoopsMatch' /\ ShutdownIsNew'
    BY DEF TrunkTypes, LoopsMatch, ShutdownIsNew
  <2>4. StoppersKnow' /\ StoppersRegister'
    BY DEF StoppersKnow, StoppersRegister
  <2>2. StatusMatches'
    BY StatusElsewhere DEF StatusMatches, StoppedAt
  <2>3. SeqsMatch' /\ AORsMatch' /\ SipTrunks!TrustIsCounted'
    BY DEF SeqsMatch, Unbound, AORsMatch, SipTrunks!TrustIsCounted
  <2> QED
    BY <2>1, <2>2, <2>3, <2>4
<1>2. CASE SipTrunks!Next
  <2>1. ASSUME NEW t \in Trunks, SipTrunks!LoopStep(t) PROVE TrunkInv'
    BY <2>1, SendRegisterInv, RegisteredInv, MarkFailedInv, PingedInv, TellInv, SmallLoopSteps
       DEF SipTrunks!LoopStep
  <2>2. ASSUME NEW p \in Stoppers, SipTrunks!StopStep(p) PROVE TrunkInv'
    <3>1. ~SipTrunks!StopGivesUp(p)
      BY DEF SipTrunks!StopGivesUp
    <3> QED
      BY <2>2, <3>1, StopBeginsInv, UnregisterInv, SmallStopSteps, StopSettlesInv,
         StopTellsInv, RemoveTrunkInv DEF SipTrunks!StopStep
  <2> QED
    BY <1>2, <2>1, <2>2, CreateInv, StartInv, LifetimeEndsInv, DeleteInv, ShutdownBeginsInv,
       ShutdownEndsInv, RegistrarAcceptsInv, RegistrarRefusesInv, UpstreamAloneInv
       DEF SipTrunks!Next, Stoppers
<1> QED
  BY <1>1, <1>2

LEMMA TrunkIsSound ==
    TrunkInv => /\ SipTrunks!TypeOK /\ SipTrunks!UnregisteredIsGone /\ SipTrunks!StatusIsTold
                /\ SipTrunks!TrustIsCounted /\ SipTrunks!AORLeadsToManaged
<1> SUFFICES ASSUME TrunkInv
             PROVE  /\ SipTrunks!TypeOK /\ SipTrunks!UnregisteredIsGone
                    /\ SipTrunks!StatusIsTold /\ SipTrunks!AORLeadsToManaged
  BY DEF TrunkInv
<1> USE DEF TrunkInv
<1>1. SipTrunks!TypeOK
  BY DEF SipTrunks!TypeOK, TrunkTypes, TrunkRecords, LoopRecords, StopRecords, Events, Stoppers
<1>2. SipTrunks!UnregisteredIsGone
  BY DEF SipTrunks!UnregisteredIsGone, SeqsMatch, Unbound
<1>3. SipTrunks!AORLeadsToManaged
  BY DEF SipTrunks!AORLeadsToManaged, AORsMatch
<1>4. SipTrunks!StatusIsTold
  <2> SUFFICES ASSUME NEW t \in Trunks, SipTrunks!AtRest(t)
               PROVE  /\ trunk[t].status \in {"none", "registering"} => told[t] = "none"
                      /\ trunk[t].status = "active" => told[t] \in {"active", "up", "none"}
                      /\ trunk[t].status = "failed" => told[t] \in {"failed", "lapsed", "down"}
                      /\ trunk[t].status # "unregistering"
                      /\ trunk[t].status = "expired" => told[t] \in {"unregistered", "shutdown"}
    BY DEF SipTrunks!StatusIsTold, TrunkTypes, TrunkRecords
  <2>1. /\ loop[t].pc \in LoopRests
        /\ \A p \in Stoppers : stop[p].trunk = t => stop[p].pc \in {"stop", "stopped"}
    BY DEF SipTrunks!AtRest, LoopRests, Stoppers
  <2>2. ~StoppedAt(t, Settling) /\ ~StoppedAt(t, Ending)
    BY <2>1 DEF StoppedAt, Settling, Ending
  <2>3. StatusTold(t)
    BY DEF StatusMatches
  <2>4. CASE ~Registers(t)
    BY <2>1, <2>3, <2>4 DEF StatusTold, PingTold
  <2>5. CASE Registers(t) /\ trunk[t].run # "cancelled"
    BY <2>1, <2>3, <2>5 DEF StatusTold, RegisterTold
  <2>6. CASE Registers(t) /\ trunk[t].run = "cancelled"
    BY <2>2, <2>3, <2>6 DEF StatusTold, StopTold
  <2> QED
    BY <2>4, <2>5, <2>6
<1> QED
  BY <1>1, <1>2, <1>3, <1>4

(* A trunk told unregistered is not bound upstream and never again, a status is what  *)
(* was told of it, a next hop is exempted once per trunk and an address leads to a    *)
(* trunk that is managed: for any trunks, hosts, deleters and CSeqs, whatever the     *)
(* registrar answers and the network loses (outbound_registration.go, ip_ip_trunk.go, *)
(* trunk_manager.go, tls_client.go).                                                  *)
THEOREM TrunksStaySound ==
    SipTrunks!Spec =>
        [](/\ SipTrunks!TypeOK /\ SipTrunks!UnregisteredIsGone /\ SipTrunks!StatusIsTold
           /\ SipTrunks!TrustIsCounted /\ SipTrunks!AORLeadsToManaged)
<1>1. TrunkInv /\ [SipTrunks!Next]_(SipTrunks!vars) => TrunkInv'
  BY TrunkInvStep DEF trunkVars, SipTrunks!vars
<1> QED
  BY <1>1, TrunkInvInit, TrunkIsSound, PTL DEF SipTrunks!Spec

(* The same of the composite.                                                        *)
THEOREM TrunksStayTrue == MCSpec => []TrunksAreSound
<1>1. [MCNext]_<<active, vars, trunkVars, registrarVars, recordingVars, streamVars>>
         => [SipTrunks!Next]_trunkVars
  BY DEF MCNext
<1>2. MCInit => SipTrunks!Init
  BY DEF MCInit
<1>3. TrunkInv => TrunksAreSound
  BY TrunkIsSound DEF TrunksAreSound
<1> QED
  BY <1>1, <1>2, <1>3, TrunkInvInit, TrunkInvStep, PTL DEF MCSpec

-----------------------------------------------------------------------------
(* Registrar: a nonce that is pending was not answered yet, and is pending under    *)
(* one Call-ID only; who takes it spends it.                                        *)

ChallengeInv ==
    /\ challenges \in Nat
    /\ pending \in [Registration!CallIDs -> 0..challenges]
    /\ spent \in [Registration!Nonces -> 0..1]
    /\ \A i, j \in Registration!CallIDs : pending[i] = pending[j] /\ i # j => pending[i] = 0
    /\ \A n \in Registration!Nonces :
          n > challenges \/ (\E i \in Registration!CallIDs : pending[i] = n) => spent[n] = 0

DecisionsAreSome ==
    decision \in [Requests -> Registration!Decisions \cup {Registration!Undecided}]

LEMMA ChallengeInvInit == Registration!Init => ChallengeInv /\ DecisionsAreSome
  BY DEF ChallengeInv, DecisionsAreSome, Registration!Init, Registration!Nonces

LEMMA TakeInv ==
    ASSUME ChallengeInv, NEW i \in Registration!CallIDs, challenges' = challenges,
           pending' = [pending EXCEPT ![i] = 0],
           \/ spent' = spent
           \/ pending[i] # 0 /\ spent' = [spent EXCEPT ![pending[i]] = @ + 1]
    PROVE  ChallengeInv'
<1> USE DEF ChallengeInv
<1>1. /\ pending[i] \in 0..challenges /\ pending'[i] = 0
      /\ \A j \in Registration!CallIDs : j # i => pending'[j] = pending[j]
  OBVIOUS
<1>2. pending' \in [Registration!CallIDs -> 0..challenges']
  OBVIOUS
<1>3. \A j, k \in Registration!CallIDs : pending'[j] = pending'[k] /\ j # k => pending'[j] = 0
  BY <1>1
<1>4. CASE spent' = spent
  <2>1. ASSUME NEW n \in Registration!Nonces,
               n > challenges' \/ \E j \in Registration!CallIDs : pending'[j] = n
        PROVE  spent[n] = 0
    <3>1. n > challenges \/ \E j \in Registration!CallIDs : pending[j] = n
      BY <1>1, <2>1 DEF Registration!Nonces
    <3> QED
      BY <3>1
  <2> QED
    BY <1>2, <1>3, <1>4, <2>1
<1>5. CASE pending[i] # 0 /\ spent' = [spent EXCEPT ![pending[i]] = @ + 1]
  <2>1. pending[i] \in Registration!Nonces => spent[pending[i]] = 0
    BY <1>1
  <2>2. spent' \in [Registration!Nonces -> 0..1]
    <3>1. \A n \in Registration!Nonces : spent[n] \in 0..1
      OBVIOUS
    <3>2. \A n \in Registration!Nonces :
             spent'[n] = IF n = pending[i] THEN spent[n] + 1 ELSE spent[n]
      BY <1>5
    <3>3. \A n \in Registration!Nonces : spent'[n] \in 0..1
      BY <2>1, <3>1, <3>2
    <3>4. spent' = [n \in Registration!Nonces |-> spent'[n]]
      BY <1>5
    <3> QED
      BY <3>3, <3>4
  <2>3. \A n \in Registration!Nonces : n # pending[i] => spent'[n] = spent[n]
    BY <1>5
  <2>4. ASSUME NEW n \in Registration!Nonces,
               n > challenges' \/ \E j \in Registration!CallIDs : pending'[j] = n
        PROVE  spent'[n] = 0
    <3>1. n # pending[i]
      BY <1>1, <1>5, <2>4 DEF Registration!Nonces
    <3>2. n > challenges \/ \E j \in Registration!CallIDs : pending[j] = n
      BY <1>1, <2>4 DEF Registration!Nonces
    <3> QED
      BY <2>3, <3>1, <3>2
  <2> QED
    BY <1>2, <1>3, <2>2, <2>4
<1> QED
  BY <1>4, <1>5

LEMMA ApplyInv ==
    ASSUME ChallengeInv, NEW r \in Requests, NEW d \in Registration!Decisions,
           Registration!Apply(r, d), spent' = spent
    PROVE  ChallengeInv'
<1> USE DEF ChallengeInv
<1>1. CASE UNCHANGED <<pending, challenges>>
  BY <1>1
<1>2. CASE /\ challenges < MaxChallenges /\ challenges' = challenges + 1
           /\ pending' = [pending EXCEPT ![CallID[r]] = challenges + 1]
  <2> DEFINE i == CallID[r]
  <2>1. /\ i \in Registration!CallIDs /\ pending'[i] = challenges + 1
        /\ \A j \in Registration!CallIDs :
              j # i => pending'[j] = pending[j] /\ pending[j] \in 0..challenges
    BY <1>2 DEF Registration!CallIDs
  <2> HIDE DEF i
  <2>2. challenges' \in Nat /\ pending' \in [Registration!CallIDs -> 0..challenges']
    BY <1>2, <2>1
  <2>3. \A j, k \in Registration!CallIDs : pending'[j] = pending'[k] /\ j # k => pending'[j] = 0
    BY <2>1
  <2>4. ASSUME NEW n \in Registration!Nonces,
               n > challenges' \/ \E j \in Registration!CallIDs : pending'[j] = n
        PROVE  spent[n] = 0
    <3>1. n > challenges \/ \E j \in Registration!CallIDs : pending[j] = n
      BY <1>2, <2>1, <2>4 DEF Registration!Nonces
    <3> QED
      BY <3>1
  <2> QED
    BY <2>2, <2>3, <2>4
<1> QED
  BY <1>1, <1>2 DEF Registration!Apply, Registration!Decisions

LEMMA ChallengeInvStep ==
    ASSUME ChallengeInv, DecisionsAreSome, [Registration!Next]_(Registration!vars)
    PROVE  ChallengeInv' /\ DecisionsAreSome'
<1>1. DecisionsAreSome'
  <2>1. \/ UNCHANGED decision
        \/ \E r \in Requests, d \in Registration!Decisions \cup {Registration!Undecided} :
              decision' = [decision EXCEPT ![r] = d]
    BY DEF Registration!Next, Registration!vars, Registration!Handle, Registration!Arrive,
       Registration!Query, Registration!Unchallenged, Registration!Contents,
       Registration!UnbindWildcard, Registration!BadRequest, Registration!BindNext,
       Registration!UnbindNext, Registration!Finish, Registration!Decide, Registration!Tell,
       Registration!Lapse, Registration!Sweep, Registration!ForceUnbind, Registration!Verify,
       Registration!Decided, Registration!ConsultTimeout
  <2> QED
    BY <2>1 DEF DecisionsAreSome
<1>2. CASE UNCHANGED <<pending, challenges, spent>>
  BY <1>2, <1>1 DEF ChallengeInv
<1>3. ASSUME NEW r \in Requests, Registration!Verify(r) PROVE ChallengeInv'
  <2>1. CallID[r] \in Registration!CallIDs
    BY DEF Registration!CallIDs
  <2>2. /\ challenges' = challenges /\ pending' = [pending EXCEPT ![CallID[r]] = 0]
        /\ \/ spent' = spent
           \/ pending[CallID[r]] # 0 /\ spent' = [spent EXCEPT ![pending[CallID[r]]] = @ + 1]
    BY <1>3 DEF Registration!Verify, Registration!Take
  <2> QED
    BY <2>1, <2>2, TakeInv
<1>4. ASSUME NEW r \in Requests, Registration!Decided(r) PROVE ChallengeInv'
  <2>1. decision[r] \in Registration!Decisions \/ UNCHANGED <<pending, challenges>>
    BY <1>4 DEF Registration!Decided, DecisionsAreSome
  <2> QED
    BY <1>2, <1>4, <2>1, ApplyInv DEF Registration!Decided
<1>5. ASSUME NEW r \in Requests, Registration!ConsultTimeout(r) PROVE ChallengeInv'
  BY <1>5, ApplyInv DEF Registration!ConsultTimeout, Registration!Decisions
<1>6. CASE UNCHANGED Registration!vars
  BY <1>2, <1>6 DEF Registration!vars
<1>7. CASE \/ \E r \in Requests :
                 \/ Registration!Arrive(r) \/ Registration!Query(r)
                 \/ Registration!Unchallenged(r) \/ Registration!Contents(r)
                 \/ Registration!UnbindWildcard(r) \/ Registration!BadRequest(r)
                 \/ Registration!Finish(r)
                 \/ \E c \in Contacts : Registration!BindNext(r, c) \/ Registration!UnbindNext(r, c)
                 \/ \E d \in Registration!Decisions : Registration!Decide(r, d)
           \/ \E a \in Registration!Actors : Registration!Tell(a)
           \/ \E c \in Contacts : Registration!Lapse(c)
           \/ Registration!Sweep \/ Registration!ForceUnbind
  BY <1>2, <1>7 DEF Registration!Arrive, Registration!Query, Registration!Unchallenged,
     Registration!Contents, Registration!UnbindWildcard, Registration!BadRequest,
     Registration!BindNext, Registration!UnbindNext, Registration!Finish, Registration!Decide,
     Registration!Tell, Registration!Lapse, Registration!Sweep, Registration!ForceUnbind,
     Registration!auth
<1> QED
  BY <1>3, <1>4, <1>5, <1>6, <1>7, <1>1 DEF Registration!Next, Registration!Handle

(* A challenge admits one retry or refuses it, and then is no more: for any requests,  *)
(* Call-IDs and challenges, however they are answered (inbound_auth.go, take).         *)
THEOREM ChallengesAreSpent == Registration!Spec => []Registration!ChallengeIsSpent
<1>1. ChallengeInv => Registration!ChallengeIsSpent
  BY DEF ChallengeInv, Registration!ChallengeIsSpent
<1> QED
  BY <1>1, ChallengeInvInit, ChallengeInvStep, PTL DEF Registration!Spec

-----------------------------------------------------------------------------
(* Registrar: who ends a binding takes it from the list under the lock and owes its  *)
(* end from then on; an actor owes nothing when it takes more.                       *)

BindingRecords == [contact : Contacts, lapsed : BOOLEAN, number : Nat]
RegistrationEvents == [event : {"active", "expired"}, contact : Contacts, number : Nat]
EndOf(c, n) == [event |-> "expired", contact |-> c, number |-> n]
LiveAt(c, n) == \E b \in bindings : b.contact = c /\ b.number = n
OwedBy(a, c, n) == EndOf(c, n) \in untold[a]

BindingTypes ==
    /\ multiple \in BOOLEAN /\ bindings \subseteq BindingRecords
    /\ made \in [Contacts -> Nat] /\ over \in [Contacts -> SUBSET Nat]
    /\ untold \in [Registration!Actors -> SUBSET RegistrationEvents]

OneBindingEach ==
    /\ multiple \/ \A b, d \in bindings : b = d
    /\ \A b, d \in bindings : b.contact = d.contact => b = d

NumbersAreMade ==
    /\ \A b \in bindings : b.number \in 1..made[b.contact]
    /\ \A c \in Contacts : over[c] \subseteq 1..made[c]
    /\ \A a \in Registration!Actors : \A e \in untold[a] :
          e.event = "expired" => e.number \in 1..made[e.contact]

\* The n-th binding of a contact is there, owed by one actor, or told.
InOnePlace(c, n) ==
    /\ LiveAt(c, n) \/ n \in over[c] \/ \E a \in Registration!Actors : OwedBy(a, c, n)
    /\ ~(LiveAt(c, n) /\ n \in over[c])
    /\ \A a \in Registration!Actors : OwedBy(a, c, n) =>
          /\ ~LiveAt(c, n) /\ n \notin over[c]
          /\ \A b \in Registration!Actors : OwedBy(b, c, n) => a = b

\* A request owes nothing before it binds, and binds contacts.
RequestRecords ==
    [pc : {"none", "arrived", "wait", "admitted", "bind"}, todo : SUBSET Contacts,
     bind : BOOLEAN, nonce : Nat]
RequestsAreOrderly ==
    /\ register \in [Requests -> RequestRecords]
    /\ \A r \in Requests : register[r].pc # "bind" => untold[r] = {}

BindingInv ==
    /\ BindingTypes /\ OneBindingEach /\ NumbersAreMade
    /\ \A c \in Contacts : \A n \in 1..made[c] : InOnePlace(c, n)

LEMMA BindingInvInit == Registration!Init => BindingInv /\ RequestsAreOrderly
<1> SUFFICES ASSUME Registration!Init PROVE BindingInv /\ RequestsAreOrderly
  OBVIOUS
<1>1. BindingInv
  BY DEF Registration!Init, BindingInv, BindingTypes, OneBindingEach, NumbersAreMade
<1>2. register \in [Requests -> RequestRecords] /\ \A r \in Requests : untold[r] = {}
  BY DEF Registration!Init, Registration!NoRequest, Registration!Actors, RequestRecords
<1> QED
  BY <1>1, <1>2 DEF RequestsAreOrderly

\* Bindings are taken from the list, and their ends owed from then on.
LEMMA EndingOK ==
    ASSUME BindingInv, NEW a \in Registration!Actors, untold[a] = {},
           NEW ends, ends \subseteq bindings,
           bindings' = bindings \ ends, Registration!Owe(a, ends),
           UNCHANGED <<multiple, made, over>>
    PROVE  BindingInv'
<1>1. /\ \A b \in bindings : b \in BindingRecords
      /\ untold'[a] = {EndOf(b.contact, b.number) : b \in ends}
      /\ \A x \in Registration!Actors : x # a => untold'[x] = untold[x]
  BY DEF BindingInv, BindingTypes, Registration!Owe, Registration!Expired, EndOf
<1>2. BindingTypes'
  <2>1. untold'[a] \subseteq RegistrationEvents
    BY <1>1 DEF BindingRecords, RegistrationEvents, EndOf
  <2> QED
    BY <2>1 DEF BindingInv, BindingTypes, Registration!Owe, Registration!Expired
<1>3. OneBindingEach'
  BY DEF BindingInv, OneBindingEach
<1>4. NumbersAreMade'
  BY <1>1 DEF BindingInv, NumbersAreMade, EndOf
<1>5. ASSUME NEW c \in Contacts, NEW n \in 1..made[c] PROVE InOnePlace(c, n)'
  <2>0. InOnePlace(c, n)
    BY DEF BindingInv
  <2>1. OwedBy(a, c, n)' <=> \E b \in ends : b.contact = c /\ b.number = n
    BY <1>1 DEF OwedBy, EndOf
  <2>2. \A x \in Registration!Actors : x # a => (OwedBy(x, c, n)' <=> OwedBy(x, c, n))
    BY <1>1 DEF OwedBy, EndOf
  <2>3. LiveAt(c, n)' => LiveAt(c, n) /\ ~OwedBy(a, c, n)'
    BY <2>1 DEF LiveAt, BindingInv, OneBindingEach
  <2>4. LiveAt(c, n) => LiveAt(c, n)' \/ OwedBy(a, c, n)'
    BY <2>1 DEF LiveAt
  <2>5. OwedBy(a, c, n)' => LiveAt(c, n)
    BY <2>1 DEF LiveAt
  <2>6. ~OwedBy(a, c, n) /\ over' = over
    BY DEF OwedBy
  <2> QED
    BY <2>0, <2>2, <2>3, <2>4, <2>5, <2>6 DEF InOnePlace
<1> QED
  BY <1>2, <1>3, <1>4, <1>5 DEF BindingInv

\* An actor tells one of the events it owes.
LEMMA TellBindingOK ==
    ASSUME BindingInv, NEW a \in Registration!Actors, Registration!Tell(a)
    PROVE  BindingInv'
<1>1. PICK e \in untold[a] :
          /\ over' = [over EXCEPT ![e.contact] = @ \cup IF e.event = "expired" THEN {e.number} ELSE {}]
          /\ untold' = [untold EXCEPT ![a] = @ \ {e}]
          /\ UNCHANGED <<multiple, bindings, made>>
  BY DEF Registration!Tell, Registration!policy
<1>2. e \in RegistrationEvents
  BY DEF BindingInv, BindingTypes
<1>3. /\ untold'[a] = untold[a] \ {e}
      /\ \A x \in Registration!Actors : x # a => untold'[x] = untold[x]
      /\ \A c \in Contacts : c # e.contact => over'[c] = over[c]
      /\ e.event # "expired" => over' = over
      /\ e.event = "expired" => over'[e.contact] = over[e.contact] \cup {e.number}
  BY <1>1, <1>2 DEF BindingInv, BindingTypes, RegistrationEvents
<1>4. BindingTypes'
  BY <1>1, <1>2, <1>3 DEF BindingInv, BindingTypes, RegistrationEvents
<1>5. OneBindingEach'
  BY <1>1 DEF BindingInv, OneBindingEach
<1>6. NumbersAreMade'
  <2>1. \A c \in Contacts : over'[c] \subseteq 1..made[c]
    BY <1>2, <1>3 DEF BindingInv, NumbersAreMade, RegistrationEvents
  <2>2. \A x \in Registration!Actors : untold'[x] \subseteq untold[x]
    BY <1>3
  <2> QED
    BY <1>1, <2>1, <2>2 DEF BindingInv, NumbersAreMade
<1>7. ASSUME NEW c \in Contacts, NEW n \in 1..made[c] PROVE InOnePlace(c, n)'
  <2>0. InOnePlace(c, n)
    BY DEF BindingInv
  <2>1. LiveAt(c, n)' <=> LiveAt(c, n)
    BY <1>1 DEF LiveAt
  <2>2. \A x \in Registration!Actors : x # a => (OwedBy(x, c, n)' <=> OwedBy(x, c, n))
    BY <1>3 DEF OwedBy, EndOf
  <2>3. CASE e = EndOf(c, n)
    <3>1. /\ ~OwedBy(a, c, n)' /\ n \in over'[c] /\ OwedBy(a, c, n)
      BY <1>3, <2>3 DEF OwedBy, EndOf
    <3> QED
      BY <2>0, <2>1, <2>2, <3>1 DEF InOnePlace
  <2>4. CASE e # EndOf(c, n)
    <3>1. OwedBy(a, c, n)' <=> OwedBy(a, c, n)
      BY <1>3, <2>4 DEF OwedBy, EndOf
    <3>2. n \in over'[c] <=> n \in over[c]
      <4>1. CASE e.contact = c /\ e.event = "expired"
        <5>1. e.number # n
          BY <1>2, <2>4, <4>1 DEF EndOf, RegistrationEvents
        <5> QED
          BY <1>3, <4>1, <5>1
      <4>2. CASE ~(e.contact = c /\ e.event = "expired")
        BY <1>3, <4>2
      <4> QED
        BY <4>1, <4>2
    <3> QED
      BY <2>0, <2>1, <2>2, <3>1, <3>2 DEF InOnePlace
  <2> QED
    BY <2>3, <2>4
<1> QED
  BY <1>1, <1>4, <1>5, <1>6, <1>7 DEF BindingInv

\* A binding lapses: it is there as before.
LEMMA LapseOK ==
    ASSUME BindingInv, NEW c \in Contacts, Registration!Lapse(c)
    PROVE  BindingInv'
<1>1. /\ bindings' = {[b EXCEPT !.lapsed = @ \/ b.contact = c] : b \in bindings}
      /\ UNCHANGED <<multiple, untold, made, over>>
  BY DEF Registration!Lapse, Registration!policy, Registration!feed
<1> DEFINE Lapsed(b) == [b EXCEPT !.lapsed = @ \/ b.contact = c]
<1>0. ASSUME NEW b \in bindings
      PROVE  /\ Lapsed(b) \in BindingRecords
             /\ Lapsed(b).contact = b.contact /\ Lapsed(b).number = b.number
  <2>1. b \in BindingRecords
    BY DEF BindingInv, BindingTypes
  <2>2. (b.lapsed \/ b.contact = c) \in BOOLEAN
    OBVIOUS
  <2> QED
    BY <2>1, <2>2 DEF BindingRecords
<1>a. bindings' = {Lapsed(b) : b \in bindings}
  BY <1>1
<1> HIDE DEF Lapsed
<1>2. /\ \A b \in bindings' : \E d \in bindings :
             b = Lapsed(d) /\ b.contact = d.contact /\ b.number = d.number /\ b \in BindingRecords
      /\ \A d \in bindings : \E b \in bindings' : b.contact = d.contact /\ b.number = d.number
  BY <1>0, <1>a
<1>3. BindingTypes'
  BY <1>1, <1>2 DEF BindingInv, BindingTypes
<1>4. OneBindingEach'
  BY <1>1, <1>2 DEF BindingInv, OneBindingEach
<1>5. NumbersAreMade'
  BY <1>1, <1>2 DEF BindingInv, NumbersAreMade
<1>6. ASSUME NEW x \in Contacts, NEW n \in 1..made[x] PROVE InOnePlace(x, n)'
  <2>1. LiveAt(x, n)' <=> LiveAt(x, n)
    BY <1>2 DEF LiveAt
  <2> QED
    BY <1>1, <2>1 DEF BindingInv, InOnePlace, OwedBy
<1> QED
  BY <1>1, <1>3, <1>4, <1>5, <1>6 DEF BindingInv

\* A contact is bound or refreshed.
LEMMA BindOK ==
    ASSUME BindingInv, NEW a \in Registration!Actors, untold[a] = {}, NEW c \in Contacts,
           Registration!Bind(a, c), UNCHANGED multiple
    PROVE  BindingInv'
<1> DEFINE others  == IF multiple THEN {} ELSE bindings \ Registration!Of(c)
           fresh == others # {} \/ Registration!Of(c) = {}
           n     == IF fresh THEN made[c] + 1 ELSE (CHOOSE b \in Registration!Of(c) : TRUE).number
           new   == [contact |-> c, lapsed |-> FALSE, number |-> n]
<1>1. /\ bindings' = (IF others # {} THEN {} ELSE bindings \ Registration!Of(c)) \cup {new}
      /\ made' = [made EXCEPT ![c] = @ + IF fresh THEN 1 ELSE 0]
      /\ untold' = [untold EXCEPT ![a] = {Registration!Expired(b) : b \in others}
                                            \cup {Registration!Active(c)}]
      /\ over' = over
  BY DEF Registration!Bind, Registration!Replaced
<1>2. \A b \in bindings : b \in BindingRecords
  BY DEF BindingInv, BindingTypes
<1>3. /\ untold'[a] = {EndOf(b.contact, b.number) : b \in others} \cup {Registration!Active(c)}
      /\ \A x \in Registration!Actors : x # a => untold'[x] = untold[x]
  BY <1>1 DEF BindingInv, BindingTypes, Registration!Expired, EndOf
<1>4. /\ made'[c] = IF fresh THEN made[c] + 1 ELSE made[c]
      /\ \A x \in Contacts : x # c => made'[x] = made[x]
      /\ \A x \in Contacts : made[x] \in Nat /\ made'[x] \in Nat /\ made[x] <= made'[x]
  BY <1>1 DEF BindingInv, BindingTypes
<1>5. ~fresh => \E b \in bindings : b.contact = c /\ b.number = n /\ others = {}
  BY DEF Registration!Of
<1>6. n \in 1..made'[c] /\ new \in BindingRecords /\ (fresh => n = made[c] + 1)
  BY <1>2, <1>4, <1>5 DEF BindingInv, NumbersAreMade, BindingRecords
<1>7. bindings' = {b \in bindings : b.contact # c /\ others = {}} \cup {new}
  BY <1>1 DEF Registration!Of
<1>8. \A b \in others : b \in bindings /\ b.contact # c /\ fresh
  BY DEF Registration!Of
<1>9. \A b \in bindings : b.contact = c => others = {} /\ ~fresh
  BY DEF Registration!Of, BindingInv, OneBindingEach
<1>10. new.contact = c /\ new.number = n
  OBVIOUS
<1>11. multiple \/ \A b \in bindings : b.contact # c => b \in others
  BY DEF Registration!Of
<1> HIDE DEF others, fresh, n, new
<1>12. BindingTypes'
  <2>1. untold'[a] \subseteq RegistrationEvents
    BY <1>2, <1>3, <1>8 DEF BindingRecords, RegistrationEvents, EndOf, Registration!Active
  <2>2. untold' \in [Registration!Actors -> SUBSET RegistrationEvents]
    BY <1>1, <2>1 DEF BindingInv, BindingTypes
  <2>3. made' \in [Contacts -> Nat]
    BY <1>1, <1>4 DEF BindingInv, BindingTypes
  <2>4. bindings' \subseteq BindingRecords
    BY <1>2, <1>6, <1>7
  <2> QED
    BY <1>1, <2>2, <2>3, <2>4 DEF BindingInv, BindingTypes
<1>13. OneBindingEach'
  BY <1>7, <1>10, <1>11 DEF BindingInv, OneBindingEach, BindingTypes
<1>14. NumbersAreMade'
  <2>1. \A b \in bindings' : b.number \in 1..made'[b.contact]
    BY <1>2, <1>4, <1>6, <1>7, <1>10 DEF BindingInv, NumbersAreMade, BindingRecords
  <2>2. \A x \in Contacts : over'[x] \subseteq 1..made'[x]
    BY <1>1, <1>4 DEF BindingInv, NumbersAreMade
  <2>3. ASSUME NEW x \in Registration!Actors, NEW e \in untold'[x], e.event = "expired"
        PROVE  e.number \in 1..made'[e.contact]
    <3>1. CASE x = a
      BY <1>2, <1>3, <1>4, <1>8, <2>3, <3>1
         DEF BindingInv, NumbersAreMade, EndOf, Registration!Active, BindingRecords
    <3>2. CASE x # a
      BY <1>3, <1>4, <2>3, <3>2
         DEF BindingInv, NumbersAreMade, BindingTypes, RegistrationEvents
    <3> QED
      BY <3>1, <3>2
  <2> QED
    BY <2>1, <2>2, <2>3 DEF NumbersAreMade
<1>15. ASSUME NEW x \in Contacts, NEW m \in 1..made'[x] PROVE InOnePlace(x, m)'
  <2>1. OwedBy(a, x, m)' <=> \E b \in others : b.contact = x /\ b.number = m
    BY <1>3 DEF OwedBy, EndOf, Registration!Active
  <2>2. \A y \in Registration!Actors : y # a => (OwedBy(y, x, m)' <=> OwedBy(y, x, m))
    BY <1>3 DEF OwedBy, EndOf
  <2>3. ~OwedBy(a, x, m) /\ over' = over
    BY <1>1 DEF OwedBy
  <2>4. CASE x = c /\ m = n /\ fresh
    <3>1. LiveAt(x, m)'
      BY <1>7, <1>10, <2>4 DEF LiveAt
    <3>2. m \notin over[x]
      BY <1>4, <1>6, <2>4 DEF BindingInv, NumbersAreMade
    <3>3. \A y \in Registration!Actors : ~OwedBy(y, x, m)
      BY <1>4, <1>6, <2>4 DEF BindingInv, NumbersAreMade, OwedBy, EndOf
    <3>4. ~OwedBy(a, x, m)'
      BY <1>8, <2>1, <2>4
    <3> QED
      BY <2>2, <2>3, <3>1, <3>2, <3>3, <3>4 DEF InOnePlace
  <2>5. CASE ~(x = c /\ m = n /\ fresh)
    <3>0. m \in 1..made[x]
      BY <1>4, <1>6, <2>5
    <3>1. InOnePlace(x, m)
      BY <3>0 DEF BindingInv
    <3>2. CASE x = c
      <4>1. LiveAt(x, m)' <=> m = n
        BY <1>7, <1>10, <3>2 DEF LiveAt
      <4>2. LiveAt(x, m) => LiveAt(x, m)'
        <5>1. ASSUME NEW b \in bindings, b.contact = c, b.number = m PROVE m = n
          BY <1>5, <1>9, <5>1 DEF BindingInv, OneBindingEach
        <5> QED
          BY <3>2, <4>1, <5>1 DEF LiveAt
      <4>3. LiveAt(x, m)' => LiveAt(x, m)
        BY <1>5, <2>5, <3>2, <4>1 DEF LiveAt
      <4>4. ~OwedBy(a, x, m)'
        BY <1>8, <2>1, <3>2
      <4> QED
        BY <2>2, <2>3, <3>1, <4>2, <4>3, <4>4 DEF InOnePlace
    <3>3. CASE x # c
      <4>1. LiveAt(x, m)' => LiveAt(x, m) /\ ~OwedBy(a, x, m)'
        BY <1>7, <1>10, <2>1, <3>3 DEF LiveAt
      <4>2. LiveAt(x, m) => LiveAt(x, m)' \/ OwedBy(a, x, m)'
        <5>1. ASSUME NEW b \in bindings, b.contact = x, b.number = m
              PROVE  b \in bindings' \/ OwedBy(a, x, m)'
          <6>1. others = {} \/ b \in others
            BY <1>11, <3>3, <5>1 DEF others
          <6> QED
            BY <1>7, <2>1, <3>3, <5>1, <6>1
        <5> QED
          BY <5>1 DEF LiveAt
      <4>3. OwedBy(a, x, m)' => LiveAt(x, m)
        BY <1>8, <2>1 DEF LiveAt
      <4> QED
        BY <2>2, <2>3, <3>1, <4>1, <4>2, <4>3 DEF InOnePlace
    <3> QED
      BY <3>2, <3>3
  <2> QED
    BY <2>4, <2>5
<1> QED
  BY <1>12, <1>13, <1>14, <1>15 DEF BindingInv

\* What leaves the bindings alone leaves their invariant alone.
bindingVars == <<multiple, bindings, untold, made, over>>

LEMMA BindingsStay == BindingInv /\ UNCHANGED bindingVars => BindingInv'
BY DEF bindingVars, BindingInv, BindingTypes, OneBindingEach, NumbersAreMade, InOnePlace, LiveAt,
   OwedBy

\* A request goes on, and owes what it owed.
LEMMA RequestGoesOn ==
    ASSUME RequestsAreOrderly, NEW r \in Requests, UNCHANGED untold,
           NEW rec \in RequestRecords, register' = [register EXCEPT ![r] = rec],
           rec.pc = "bind" \/ register[r].pc # "bind" \/ untold[r] = {}
    PROVE  RequestsAreOrderly'
BY DEF RequestsAreOrderly

\* The actors are the requests, the sweeper and the administrator, all different.
LEMMA ActorsDiffer ==
    /\ Registration!Sweeper \in Registration!Actors /\ Registration!Admin \in Registration!Actors
    /\ Registration!Sweeper \notin Requests /\ Registration!Admin \notin Requests
    /\ \A r \in Requests : r \in Registration!Actors
    /\ "live" \notin Registration!Actors /\ "over" \notin Registration!Actors
BY ServicesAssumption DEF Registration!Actors, Registration!Sweeper, Registration!Admin

LEMMA UnbindOK ==
    ASSUME BindingInv, NEW a \in Registration!Actors, untold[a] = {}, UNCHANGED multiple,
           Registration!UnbindAll(a) \/ \E c \in Contacts : Registration!UnbindContact(a, c)
    PROVE  BindingInv' /\ untold' = [untold EXCEPT ![a] = untold'[a]]
<1>1. CASE Registration!UnbindAll(a)
  <2>1. bindings' = bindings \ bindings /\ Registration!Owe(a, bindings) /\ UNCHANGED <<made, over>>
    BY <1>1 DEF Registration!UnbindAll, Registration!feed
  <2>2. untold' = [untold EXCEPT ![a] = untold'[a]]
    BY <2>1 DEF Registration!Owe, BindingInv, BindingTypes
  <2> QED
    BY <2>1, <2>2, EndingOK
<1>2. ASSUME NEW c \in Contacts, Registration!UnbindContact(a, c)
      PROVE  BindingInv' /\ untold' = [untold EXCEPT ![a] = untold'[a]]
  <2> DEFINE ends == Registration!Of(c)
  <2>1. /\ ends \subseteq bindings /\ bindings' = bindings \ ends /\ Registration!Owe(a, ends)
        /\ UNCHANGED <<made, over>>
    BY <1>2 DEF Registration!UnbindContact, Registration!feed, Registration!Of
  <2> HIDE DEF ends
  <2>2. untold' = [untold EXCEPT ![a] = untold'[a]]
    BY <2>1 DEF Registration!Owe, BindingInv, BindingTypes
  <2> QED
    BY <2>1, <2>2, EndingOK
<1> QED
  BY <1>1, <1>2

\* A request that binds may owe something afterwards.
LEMMA RequestOwes ==
    ASSUME RequestsAreOrderly, BindingTypes, NEW r \in Requests,
           NEW rec \in RequestRecords, register' = [register EXCEPT ![r] = rec], rec.pc = "bind",
           untold' = [untold EXCEPT ![r] = untold'[r]]
    PROVE  RequestsAreOrderly'
BY ActorsDiffer DEF RequestsAreOrderly, BindingTypes

LEMMA OthersOwe ==
    ASSUME RequestsAreOrderly, BindingTypes, NEW a \in Registration!Actors \ Requests,
           UNCHANGED register, untold' = [untold EXCEPT ![a] = untold'[a]]
    PROVE  RequestsAreOrderly'
BY ActorsDiffer DEF RequestsAreOrderly, BindingTypes

RegistrarInv == BindingInv /\ RequestsAreOrderly /\ ChallengeInv /\ DecisionsAreSome

LEMMA RegistrarStep ==
    ASSUME RegistrarInv, [Registration!Next]_(Registration!vars)
    PROVE  RegistrarInv'
<1>0. ChallengeInv' /\ DecisionsAreSome'
  BY ChallengeInvStep DEF RegistrarInv
<1> SUFFICES BindingInv' /\ RequestsAreOrderly'
  BY <1>0 DEF RegistrarInv
<1> DEFINE Kept == BindingInv' /\ RequestsAreOrderly'
<1>1. /\ BindingInv /\ RequestsAreOrderly /\ BindingTypes /\ challenges \in Nat
      /\ \A r \in Requests : register[r] \in RequestRecords
  BY DEF RegistrarInv, BindingInv, RequestsAreOrderly, ChallengeInv
<1>2. ASSUME NEW r \in Requests, UNCHANGED bindingVars,
             \E rec \in RequestRecords :
                /\ register' = [register EXCEPT ![r] = rec]
                /\ rec.pc = "bind" \/ register[r].pc # "bind" \/ untold[r] = {}
      PROVE  Kept
  BY <1>1, <1>2, BindingsStay, RequestGoesOn DEF bindingVars
<1> DEFINE NR == Registration!NoRequest
<1>3. NR \in RequestRecords
  BY DEF RequestRecords, Registration!NoRequest
<1>4. ASSUME NEW r \in Requests, Registration!Respond(r), UNCHANGED bindingVars,
             register[r].pc # "bind" \/ untold[r] = {}
      PROVE  Kept
  BY <1>2, <1>3, <1>4 DEF Registration!Respond
<1>5. ASSUME NEW r \in Requests, NEW pc \in {"wait", "admitted"}, UNCHANGED bindingVars,
             register' = [register EXCEPT ![r].pc = pc], register[r].pc # "bind"
      PROVE  Kept
  <2>1. [register[r] EXCEPT !.pc = pc] \in RequestRecords
    BY <1>1 DEF RequestRecords
  <2>2. register' = [register EXCEPT ![r] = [register[r] EXCEPT !.pc = pc]]
    BY <1>5
  <2> QED
    BY <1>2, <1>5, <2>1, <2>2
<1>6. CASE UNCHANGED <<bindingVars, register>>
  BY <1>1, <1>6, BindingsStay DEF bindingVars, RequestsAreOrderly
<1>7. ASSUME NEW r \in Requests, Registration!Arrive(r) PROVE Kept
  <2>1. PICK nonce \in 0..challenges :
           register' = [register EXCEPT ![r] = [NR EXCEPT !.pc = "arrived", !.nonce = nonce]]
    BY <1>7 DEF Registration!Arrive
  <2>2. [NR EXCEPT !.pc = "arrived", !.nonce = nonce] \in RequestRecords
    <3>1. nonce \in Nat
      BY <1>1
    <3> HIDE DEF NR
    <3> QED
      BY <1>3, <3>1 DEF RequestRecords
  <2>3. UNCHANGED bindingVars /\ register[r].pc # "bind"
    BY <1>7 DEF Registration!Arrive, Registration!At, Registration!policy, Registration!feed, bindingVars
  <2> QED
    BY <1>2, <2>1, <2>2, <2>3
<1>8. ASSUME NEW r \in Requests,
             Registration!Query(r) \/ Registration!BadRequest(r) \/ Registration!Finish(r)
      PROVE  Kept
  BY <1>4, <1>8 DEF Registration!Query, Registration!BadRequest, Registration!Finish,
     Registration!At, Registration!policy, Registration!feed, bindingVars
<1>9. ASSUME NEW r \in Requests, Registration!Unchallenged(r) PROVE Kept
  BY <1>5, <1>9 DEF Registration!Unchallenged, Registration!Consult, Registration!At,
     Registration!policy, Registration!feed, bindingVars
<1>10. ASSUME NEW r \in Requests, Registration!Verify(r) PROVE Kept
  <2>1. UNCHANGED bindingVars /\ register[r].pc # "bind"
    BY <1>10 DEF Registration!Verify, Registration!At, Registration!policy, Registration!feed,
       bindingVars
  <2>2. \/ register' = [register EXCEPT ![r].pc = "admitted"] \/ Registration!Respond(r)
        \/ register' = [register EXCEPT ![r].pc = "wait"]
    BY <1>10 DEF Registration!Verify, Registration!Consult
  <2> QED
    BY <1>4, <1>5, <2>1, <2>2
<1>11. ASSUME NEW r \in Requests, Registration!Decided(r) \/ Registration!ConsultTimeout(r)
       PROVE  Kept
  <2>1. UNCHANGED bindingVars /\ register[r].pc # "bind"
    BY <1>11 DEF Registration!Decided, Registration!ConsultTimeout, Registration!At,
       Registration!policy, Registration!feed, bindingVars
  <2>2. \E d \in Registration!Decisions : Registration!Apply(r, d)
    BY <1>11 DEF Registration!Decided, Registration!ConsultTimeout, RegistrarInv, DecisionsAreSome,
       Registration!Decisions
  <2>3. register' = [register EXCEPT ![r].pc = "admitted"] \/ Registration!Respond(r)
    BY <2>2 DEF Registration!Apply, Registration!Decisions
  <2> QED
    BY <1>4, <1>5, <2>1, <2>3
<1>12. ASSUME NEW r \in Requests, NEW d \in Registration!Decisions, Registration!Decide(r, d)
       PROVE  Kept
  BY <1>6, <1>12 DEF Registration!Decide, Registration!policy, Registration!feed, bindingVars
<1>13. ASSUME NEW r \in Requests, Registration!Contents(r) PROVE Kept
  <2>1. UNCHANGED bindingVars /\ register[r].pc # "bind"
    BY <1>13 DEF Registration!Contents, Registration!At, Registration!policy, Registration!feed,
       bindingVars
  <2>2. PICK todo \in SUBSET Contacts, bind \in BOOLEAN :
           register' = [register EXCEPT ![r].pc = "bind", ![r].todo = todo, ![r].bind = bind]
    BY <1>13 DEF Registration!Contents
  <2>3. [register[r] EXCEPT !.pc = "bind", !.todo = todo, !.bind = bind] \in RequestRecords
    BY <1>1 DEF RequestRecords
  <2>4. register' = [register EXCEPT ![r] =
                        [register[r] EXCEPT !.pc = "bind", !.todo = todo, !.bind = bind]]
    BY <2>2
  <2> QED
    BY <1>2, <2>1, <2>3, <2>4
<1>14. ASSUME NEW r \in Requests, Registration!UnbindWildcard(r) PROVE Kept
  <2>1. untold[r] = {} /\ r \in Registration!Actors
    BY <1>1, <1>14, ActorsDiffer DEF Registration!UnbindWildcard, Registration!At, RequestsAreOrderly
  <2>2. Registration!UnbindAll(r) /\ UNCHANGED multiple
    BY <1>14 DEF Registration!UnbindWildcard, Registration!policy
  <2>3. BindingInv' /\ untold' = [untold EXCEPT ![r] = untold'[r]]
    BY <1>1, <2>1, <2>2, UnbindOK
  <2>4. /\ [register[r] EXCEPT !.pc = "bind"] \in RequestRecords
        /\ register' = [register EXCEPT ![r] = [register[r] EXCEPT !.pc = "bind"]]
        /\ [register[r] EXCEPT !.pc = "bind"].pc = "bind"
    BY <1>1, <1>14 DEF RequestRecords, Registration!UnbindWildcard
  <2> QED
    BY <1>1, <2>3, <2>4, RequestOwes
<1>15. ASSUME NEW r \in Requests, NEW c \in Contacts,
              Registration!BindNext(r, c) \/ Registration!UnbindNext(r, c)
       PROVE  Kept
  <2>1. untold[r] = {} /\ r \in Registration!Actors /\ UNCHANGED multiple
    BY <1>15, ActorsDiffer DEF Registration!BindNext, Registration!UnbindNext, Registration!policy
  <2>2. /\ [register[r] EXCEPT !.todo = @ \ {c}] \in RequestRecords
        /\ register' = [register EXCEPT ![r] = [register[r] EXCEPT !.todo = @ \ {c}]]
        /\ [register[r] EXCEPT !.todo = @ \ {c}].pc = "bind"
    BY <1>1, <1>15 DEF RequestRecords, Registration!BindNext, Registration!UnbindNext,
       Registration!Advance, Registration!At
  <2>3. CASE Registration!BindNext(r, c)
    <3>1. Registration!Bind(r, c)
      BY <2>3 DEF Registration!BindNext
    <3>2. untold' = [untold EXCEPT ![r] = untold'[r]]
      BY <1>1, <2>1, <3>1 DEF Registration!Bind, BindingTypes
    <3> QED
      BY <1>1, <2>1, <2>2, <3>1, <3>2, BindOK, RequestOwes
  <2>4. CASE Registration!UnbindNext(r, c)
    <3>1. BindingInv' /\ untold' = [untold EXCEPT ![r] = untold'[r]]
      BY <1>1, <2>1, <2>4, UnbindOK DEF Registration!UnbindNext
    <3> QED
      BY <1>1, <2>2, <3>1, RequestOwes
  <2> QED
    BY <1>15, <2>3, <2>4
<1>16. ASSUME NEW a \in Registration!Actors, Registration!Tell(a) PROVE Kept
  <2>1. PICK e \in untold[a] : untold' = [untold EXCEPT ![a] = untold[a] \ {e}]
    BY <1>16 DEF Registration!Tell
  <2>2. \A r \in Requests : untold'[r] \subseteq untold[r]
    BY <1>1, <2>1, ActorsDiffer DEF BindingTypes
  <2>3. UNCHANGED register
    BY <1>16 DEF Registration!Tell
  <2>4. RequestsAreOrderly'
    BY <1>1, <2>2, <2>3 DEF RequestsAreOrderly
  <2> QED
    BY <1>1, <1>16, <2>4, TellBindingOK
<1>17. ASSUME NEW c \in Contacts, Registration!Lapse(c) PROVE Kept
  <2>1. UNCHANGED <<register, untold>>
    BY <1>17 DEF Registration!Lapse
  <2> QED
    BY <1>1, <1>17, <2>1, LapseOK DEF RequestsAreOrderly
<1>18. CASE Registration!Sweep
  <2> DEFINE lapsed == {b \in bindings : b.lapsed}
  <2>1. /\ untold[Registration!Sweeper] = {} /\ bindings' = bindings \ lapsed
        /\ lapsed \subseteq bindings
        /\ Registration!Owe(Registration!Sweeper, lapsed) /\ UNCHANGED <<multiple, made, over, register>>
    BY <1>18 DEF Registration!Sweep, Registration!policy, Registration!feed
  <2> HIDE DEF lapsed
  <2>2. BindingInv'
    BY <1>1, <2>1, ActorsDiffer, EndingOK
  <2>3. untold' = [untold EXCEPT ![Registration!Sweeper] = untold'[Registration!Sweeper]]
    BY <1>1, <2>1, ActorsDiffer DEF Registration!Owe, BindingTypes
  <2> QED
    BY <1>1, <2>1, <2>2, <2>3, ActorsDiffer, OthersOwe
<1>19. CASE Registration!ForceUnbind
  <2>1. /\ untold[Registration!Admin] = {} /\ UNCHANGED <<multiple, register>>
        /\ \/ Registration!UnbindAll(Registration!Admin)
           \/ \E c \in Contacts : Registration!UnbindContact(Registration!Admin, c)
    BY <1>19 DEF Registration!ForceUnbind, Registration!policy
  <2> QED
    BY <1>1, <2>1, ActorsDiffer, UnbindOK, OthersOwe
<1>20. CASE UNCHANGED Registration!vars
  BY <1>6, <1>20 DEF Registration!vars, bindingVars
<1> QED
  BY <1>7, <1>8, <1>9, <1>10, <1>11, <1>12, <1>13, <1>14, <1>15, <1>16, <1>17, <1>18, <1>19, <1>20
     DEF Registration!Next, Registration!Handle

LEMMA RegistrarSound ==
    ASSUME RegistrarInv
    PROVE  /\ Registration!TypeOK /\ Registration!BindingsAreAccounted
           /\ Registration!ChallengeIsSpent
<1>1. Registration!ChallengeIsSpent
  BY DEF RegistrarInv, ChallengeInv, Registration!ChallengeIsSpent
<1>2. Registration!TypeOK
  <2>1. bindings \subseteq [contact : Contacts, lapsed : BOOLEAN, number : Nat]
    BY DEF RegistrarInv, BindingInv, BindingTypes, BindingRecords
  <2>2. \A c \in Contacts : made[c] \in Nat /\ over[c] \subseteq 1..made[c]
    BY DEF RegistrarInv, BindingInv, BindingTypes, NumbersAreMade
  <2>3. \A r \in Requests :
           register[r].pc \in {"none", "arrived", "wait", "admitted", "bind"}
    BY DEF RegistrarInv, RequestsAreOrderly, RequestRecords
  <2>4. \A i \in Registration!CallIDs : pending[i] \in 0..challenges
    BY DEF RegistrarInv, ChallengeInv
  <2>5. decision \in [Requests -> Registration!Decisions \cup {Registration!Undecided}]
    BY DEF RegistrarInv, DecisionsAreSome
  <2> QED
    BY <2>1, <2>2, <2>3, <2>4, <2>5 DEF Registration!TypeOK
<1>3. ASSUME NEW c \in Contacts, NEW n \in 1..made[c]
      PROVE  \E p \in Registration!Places(c, n) : Registration!Places(c, n) = {p}
  <2>0. InOnePlace(c, n)
    BY DEF RegistrarInv, BindingInv
  <2>1. /\ LiveAt(c, n) <=> "live" \in Registration!Places(c, n)
        /\ n \in over[c] <=> "over" \in Registration!Places(c, n)
        /\ \A a \in Registration!Actors : OwedBy(a, c, n) <=> a \in Registration!Places(c, n)
        /\ Registration!Places(c, n) \subseteq {"live", "over"} \cup Registration!Actors
    BY ActorsDiffer DEF Registration!Places, Registration!Of, Registration!Expired, LiveAt, OwedBy, EndOf
  <2>2. "live" # "over" /\ \A a \in Registration!Actors : a # "live" /\ a # "over"
    BY ActorsDiffer
  <2> QED
    BY <2>0, <2>1, <2>2 DEF InOnePlace
<1> QED
  BY <1>1, <1>2, <1>3 DEF RegistrarInv, BindingInv, OneBindingEach, Registration!BindingsAreAccounted

(* In the composite of the run every behaviour of the registrar keeps its account: each   *)
(* binding is there, or its end owed by one actor, or told, whoever races for it, and a   *)
(* challenge is spent once (registrar.go, register.go, inbound_auth.go).                 *)
THEOREM RegistrarStaysSound == MCSpec => []RegistrarIsSound
<1>1. [MCNext]_<<active, vars, trunkVars, registrarVars, recordingVars, streamVars>>
         => [Registration!Next]_(Registration!vars)
  BY DEF MCNext, registrarVars, Registration!vars
<1>2. MCInit => RegistrarInv
  BY BindingInvInit, ChallengeInvInit DEF MCInit, RegistrarInv
<1>3. RegistrarInv => RegistrarIsSound
  BY RegistrarSound DEF RegistrarIsSound
<1> QED
  BY <1>1, <1>2, <1>3, RegistrarStep, PTL DEF MCSpec

-----------------------------------------------------------------------------
(* LegStreams: with one request at a time, the stream a request adds has its   *)
(* line to itself until the request is through, and what the dialog agreed on  *)
(* without a stream has none in the table.                                     *)

TableSet == {t \in Seq(0..MaxStreams) : Len(t) <= MaxLines}
StreamRecords ==
    [line : 0..MaxLines, sock : {"none", "open", "closed"}, heard : BOOLEAN, setUps : 0..1,
     room : Rooms \cup {None}]
StreamTasks ==
    [pc : {"idle", "offer", "sent", "answered", "leave", "remove", "attach", "join"},
     op : {"none", "add", "remove", "attach", "detach"}, line : 0..MaxLines,
     stream : 0..MaxStreams, room : Rooms \cup {None}, from : Rooms \cup {None}, body : TableSet]

LegTypes ==
    /\ media \in [1..MaxStreams -> StreamRecords] /\ last \in 1..MaxStreams
    /\ current \in [1..MaxLines -> 0..MaxStreams]
    /\ slots \in TableSet /\ sections \in TableSet /\ offers \in 0..MaxOffers
    /\ mixed \in [Rooms -> SUBSET (1..MaxLines)]
    /\ roomIs \in [Rooms -> {"open", "closing", "gone"}]
    /\ leg \in {"up", "over", "gone"}

\* A stream has its line from its making on, and whoever names it on a line names one of that line.
FitsLines(table) ==
    \A i \in DOMAIN table : table[i] # 0 => table[i] <= last /\ media[table[i]].line = i
LinesMatch ==
    /\ \A s \in 1..MaxStreams : s > last => media[s].line = 0 /\ media[s].sock # "open"
    /\ media[1].line = 1
    /\ FitsLines(current) /\ FitsLines(slots)

\* AudioStreams!SocketsAreAdvertised, of a table whose places are numbers up to its length.
SocketsMatch ==
    \A s \in 1..MaxStreams : media[s].sock = "open" /\ media[s].line # 1 =>
        /\ media[s].line # 0 /\ current[media[s].line] = s
        /\ media[s].line <= Len(slots) /\ slots[media[s].line] = s

\* The streams on a line are the one that is there now.
Sole(i) == i # 0 /\ current[i] # 0 /\ \A s \in 1..MaxStreams : media[s].line = i => s = current[i]
Mixes(r, i) == roomIs[r] # "gone" /\ i \in mixed[r]
RoomsMatch ==
    /\ \A r \in Rooms : \A i \in mixed[r] : \E s \in 1..MaxStreams : media[s].line = i
    /\ \A i \in 1..MaxLines : Sole(i) =>
          /\ \A r \in Rooms : Mixes(r, i) /\ roomIs[r] = "open" => media[current[i]].room = r
          /\ \A r, q \in Rooms : Mixes(r, i) /\ Mixes(q, i) => r = q

\* Each section the dialog has is a place of the table, and one without a stream has none
\* there, unless a request is about to close what the peer refused.
Refuses(t, i) == t.pc = "answered" /\ t.line = i /\ ~media[t.stream].heard
TableMatches ==
    IF slots = <<>> THEN Len(sections) = 1 /\ sections[1] # 0
    ELSE /\ Len(sections) <= Len(slots)
         /\ \A i \in 1..Len(sections) : sections[i] = 0 =>
                slots[i] = 0 \/ \E c \in Callers : Refuses(task[c], i)

\* What a request at a point knows of its stream, its offer and its room.
InOffer(t) ==
    /\ slots # <<>> /\ t.op \in {"add", "remove"}
    /\ t.op = "add" =>
          /\ t.stream \in 1..last /\ media[t.stream].line = t.line
          /\ current[t.line] = t.stream /\ media[t.stream].setUps = 0
          /\ t.pc # "answered" => ~media[t.stream].heard
    /\ t.pc = "answered" => t.op = "add"
OfferMatches(body) ==
    /\ FitsLines(body)
    /\ Len(sections) <= Len(body) /\ Len(body) <= Len(slots)
    /\ \A i \in 1..Len(sections) : sections[i] = 0 => body[i] = 0
    /\ \A i \in 1..Len(body) : body[i] = 0 => slots[i] = 0
TaskMatches(t) ==
    /\ t.pc # "idle" => t.line \in 2..MaxLines /\ \A r \in Rooms : roomIs[r] # "closing"
    /\ t.pc \in {"offer", "sent", "answered"} => InOffer(t)
    /\ t.pc = "sent" => OfferMatches(t.body)
    /\ t.pc = "leave" => t.op \in {"add", "remove", "attach", "detach"}
    /\ t.pc = "leave" /\ Sole(t.line) => \A r \in Rooms : Mixes(r, t.line) => r = t.from
    /\ t.pc = "leave" /\ t.op \notin {"remove", "detach"} => t.room \in Rooms
    /\ t.pc = "remove" => t.op = "remove"
    /\ t.pc = "attach" => t.op = "add" /\ t.room \in Rooms
    /\ t.pc = "join" => t.room \in Rooms
    /\ t.pc = "join" /\ Sole(t.line) => \A r \in Rooms : ~Mixes(r, t.line)

LegInv == LegTypes /\ LinesMatch /\ SocketsMatch /\ RoomsMatch
OneRequest == \A c, d \in Callers : task[c].pc # "idle" /\ task[d].pc # "idle" => c = d
StreamsInv ==
    /\ LegInv /\ TableMatches
    /\ task \in [Callers -> StreamTasks] /\ OneRequest
    /\ \A c \in Callers : TaskMatches(task[c])

(* Tables.                                                                     *)
LEMMA BoundsAre ==
    /\ MaxLines \in Nat /\ MaxLines >= 2 /\ MaxStreams \in Nat /\ MaxStreams >= 2
    /\ MaxOffers \in Nat /\ None \notin Rooms
  BY ServicesAssumption

LEMMA TableFacts ==
    ASSUME NEW t \in TableSet
    PROVE  /\ Len(t) \in Nat /\ Len(t) <= MaxLines /\ DOMAIN t = 1..Len(t)
           /\ \A i \in 1..Len(t) : t[i] \in 0..MaxStreams
           /\ (t = <<>> <=> Len(t) = 0)
<1>1. t \in Seq(0..MaxStreams) /\ Len(t) <= MaxLines
  BY DEF TableSet
<1>2. /\ Len(t) \in Nat /\ DOMAIN t = 1..Len(t)
      /\ \A i \in 1..Len(t) : t[i] \in 0..MaxStreams
  BY <1>1, LenProperties, ElementOfSeq
<1>3. t = <<>> <=> Len(t) = 0
  BY <1>1, EmptySeq
<1> QED
  BY <1>1, <1>2, <1>3

LEMMA IsTable ==
    ASSUME NEW n \in Nat, n <= MaxLines, NEW t \in [1..n -> 0..MaxStreams]
    PROVE  t \in TableSet /\ Len(t) = n
<1>1. t \in Seq(0..MaxStreams)
  BY SeqDef
<1>2. Len(t) = n
  BY <1>1, LenProperties
<1> QED
  BY <1>1, <1>2 DEF TableSet

LEMMA NoTable == <<>> \in TableSet
  BY EmptySeq, BoundsAre DEF TableSet

LEMMA RemovedOK ==
    ASSUME NEW t \in TableSet, NEW i
    PROVE  /\ AudioStreams!Removed(t, i) \in TableSet
           /\ Len(AudioStreams!Removed(t, i)) = Len(t)
           /\ \A j \in 1..Len(t) : AudioStreams!Removed(t, i)[j] = IF j = i THEN 0 ELSE t[j]
<1>1. DOMAIN t = 1..Len(t) /\ t \in Seq(0..MaxStreams) /\ 0 \in 0..MaxStreams
  BY TableFacts, BoundsAre DEF TableSet
<1>2. CASE i \in DOMAIN t
  <2>1. AudioStreams!Removed(t, i) = [t EXCEPT ![i] = 0]
    BY <1>2 DEF AudioStreams!Removed
  <2> QED
    BY <1>1, <1>2, <2>1, ExceptSeq DEF TableSet
<1>3. CASE i \notin DOMAIN t
  BY <1>1, <1>3 DEF AudioStreams!Removed
<1> QED
  BY <1>2, <1>3

LEMMA NewStreamOK ==
    ASSUME NEW i \in 1..MaxLines
    PROVE  LET m == AudioStreams!NewStream(i) IN
           /\ m \in StreamRecords /\ m.line = i /\ m.sock = "open" /\ m.heard = FALSE
           /\ m.setUps = 0 /\ m.room = None
<1> DEFINE none == AudioStreams!NoStream
<1>1. /\ none \in StreamRecords /\ none.heard = FALSE /\ none.setUps = 0 /\ none.room = None
  BY BoundsAre DEF AudioStreams!NoStream, StreamRecords
<1>2. AudioStreams!NewStream(i) = [none EXCEPT !.line = i, !.sock = "open"]
  BY DEF AudioStreams!NewStream
<1>3. i \in 0..MaxLines
  BY BoundsAre
<1> HIDE DEF none
<1>4. LET m == [none EXCEPT !.line = i, !.sock = "open"] IN
      /\ m \in StreamRecords /\ m.line = i /\ m.sock = "open" /\ m.heard = FALSE
      /\ m.setUps = 0 /\ m.room = None
  BY <1>1, <1>3 DEF StreamRecords
<1> QED
  BY <1>2, <1>4

LEMMA PrimaryOK ==
    ASSUME slots \in TableSet
    PROVE  /\ AudioStreams!WithPrimary \in TableSet
           /\ slots # <<>> => AudioStreams!WithPrimary = slots
           /\ slots = <<>> => /\ Len(AudioStreams!WithPrimary) = 1
                              /\ AudioStreams!WithPrimary[1] = 1
           /\ AudioStreams!WithPrimary # <<>>
<1>1. <<1>> \in TableSet
  BY ServicesAssumption DEF TableSet
<1> QED
  BY <1>1 DEF AudioStreams!WithPrimary

LEMMA AppendOK ==
    ASSUME NEW t \in TableSet, Len(t) + 1 <= MaxLines, NEW s \in 0..MaxStreams
    PROVE  /\ Append(t, s) \in TableSet /\ Len(Append(t, s)) = Len(t) + 1
           /\ Append(t, s)[Len(t) + 1] = s
           /\ \A j \in 1..Len(t) : Append(t, s)[j] = t[j]
  BY DEF TableSet

(* What stays as it was.                                                       *)
LEMMA LegInvStays ==
    ASSUME LegInv, UNCHANGED <<slots, current, media, last, mixed, roomIs, sections, offers, leg>>
    PROVE  LegInv'
  BY DEF LegInv, LegTypes, LinesMatch, FitsLines, SocketsMatch, RoomsMatch, Sole, Mixes

LEMMA TableStays ==
    ASSUME TableMatches, \A d \in Callers : task[d].pc # "answered", UNCHANGED <<slots, sections>>
    PROVE  TableMatches'
  BY DEF TableMatches, Refuses

LEMMA RequestStarts ==
    ASSUME StreamsInv, NEW c \in Callers, AudioStreams!Starts(c)
    PROVE  /\ \A d \in Callers : task[d].pc = "idle"
           /\ \A r \in Rooms : roomIs[r] # "closing"
  BY DEF AudioStreams!Starts, AudioStreams!At

LEMMA OthersAreIdle ==
    ASSUME StreamsInv, NEW c \in Callers, task[c].pc # "idle"
    PROVE  /\ \A d \in Callers : d # c => task[d].pc = "idle"
           /\ \A r \in Rooms : roomIs[r] # "closing"
           /\ task[c].line \in 2..MaxLines
  BY DEF StreamsInv, OneRequest, TaskMatches

\* A request goes to its next point: what is left to show is about it, and the leg.
LEMMA RequestAdvances ==
    ASSUME StreamsInv, NEW c \in Callers, \A d \in Callers : d # c => task[d].pc = "idle",
           NEW u, u \in StreamTasks, AudioStreams!Goto(c, u),
           LegInv', TableMatches', TaskMatches(task[c])'
    PROVE  StreamsInv'
<1>1. /\ task' \in [Callers -> StreamTasks]
      /\ \A d \in Callers : d # c => task'[d] = task[d]
  BY DEF StreamsInv, AudioStreams!Goto
<1>2. OneRequest'
  BY <1>1 DEF OneRequest
<1>3. ASSUME NEW d \in Callers PROVE TaskMatches(task[d])'
  BY <1>1 DEF TaskMatches
<1> QED
  BY <1>1, <1>2, <1>3 DEF StreamsInv

LEMMA GoesTo ==
    ASSUME StreamsInv, NEW c \in Callers, NEW u, AudioStreams!Goto(c, u)
    PROVE  task'[c] = u /\ \A d \in Callers : d # c => task'[d] = task[d]
  BY DEF StreamsInv, AudioStreams!Goto

LEMMA IdleOK ==
    ASSUME StreamsInv, NEW c \in Callers, AudioStreams!Done(c)
    PROVE  /\ AudioStreams!Idle \in StreamTasks /\ AudioStreams!Goto(c, AudioStreams!Idle)
           /\ TaskMatches(task[c])' /\ task'[c].pc = "idle"
<1>1. AudioStreams!Idle \in StreamTasks /\ AudioStreams!Idle.pc = "idle"
  BY NoTable, BoundsAre DEF AudioStreams!Idle, StreamTasks
<1>2. task'[c] = AudioStreams!Idle
  BY GoesTo DEF AudioStreams!Done
<1> QED
  BY <1>1, <1>2 DEF AudioStreams!Done, TaskMatches

(* A stream is closed, while it is the one on its line.                        *)
LEMMA CloseOK ==
    ASSUME LegInv, NEW s \in 1..last, NEW table \in TableSet,
           media[s].line \in 2..MaxLines, current[media[s].line] = s,
           slots # <<>> => table = slots, slots = <<>> => table \in {<<>>, << 1 >>},
           AudioStreams!CloseStream(s, table),
           UNCHANGED <<last, mixed, roomIs, sections, offers, leg>>
    PROVE  /\ LegInv'
           /\ Len(slots') = Len(table)
           /\ \A j \in 1..Len(table) : slots'[j] = IF j = media[s].line THEN 0 ELSE table[j]
           /\ current' = [current EXCEPT ![media[s].line] = 0]
           /\ media' = [media EXCEPT ![s].sock = "closed"]
<1> DEFINE i == media[s].line
<1>1. /\ slots' \in TableSet /\ Len(slots') = Len(table) /\ DOMAIN slots' = 1..Len(table)
      /\ \A j \in 1..Len(table) : slots'[j] = IF j = i THEN 0 ELSE table[j]
  BY RemovedOK, TableFacts DEF AudioStreams!CloseStream
<1>2. /\ current' = [current EXCEPT ![i] = 0]
      /\ media' = [media EXCEPT ![s].sock = "closed"]
  BY DEF AudioStreams!CloseStream
<1>3. /\ s \in 1..MaxStreams /\ i \in 1..MaxLines /\ i # 1 /\ last \in 1..MaxStreams
      /\ media \in [1..MaxStreams -> StreamRecords] /\ current \in [1..MaxLines -> 0..MaxStreams]
  BY ServicesAssumption DEF LegInv, LegTypes
<1>4. /\ \A t \in 1..MaxStreams :
            /\ media'[t].line = media[t].line /\ media'[t].room = media[t].room
            /\ t # s => media'[t] = media[t]
      /\ media'[s].sock = "closed" /\ current'[i] = 0
      /\ \A j \in 1..MaxLines : j # i => current'[j] = current[j]
      /\ DOMAIN current = 1..MaxLines /\ DOMAIN current' = 1..MaxLines
  BY <1>2, <1>3 DEF StreamRecords
<1>5. LegTypes'
  <2>1. media' \in [1..MaxStreams -> StreamRecords]
    <3>1. [media[s] EXCEPT !.sock = "closed"] \in StreamRecords
      BY <1>3 DEF StreamRecords
    <3> QED
      BY <1>2, <1>3, <3>1
  <2>2. current' \in [1..MaxLines -> 0..MaxStreams]
    BY <1>2, <1>3, BoundsAre
  <2> QED
    BY <1>1, <2>1, <2>2 DEF LegInv, LegTypes
<1>6. /\ Len(slots) <= Len(table) /\ Len(table) \in Nat /\ Len(slots) \in Nat
      /\ DOMAIN slots = 1..Len(slots)
      /\ \A j \in 1..Len(slots) : table[j] = slots[j]
      /\ \A j \in 1..Len(table) : j > Len(slots) => j = 1 /\ table[j] = 1
      /\ \A j \in 1..Len(slots) : slots[j] \in 0..MaxStreams
  BY TableFacts DEF LegInv, LegTypes
<1> HIDE DEF i
<1>7. LinesMatch'
  <2>1. FitsLines(current)'
    BY <1>3, <1>4 DEF LegInv, LinesMatch, FitsLines
  <2>2. FitsLines(slots)'
    <3> SUFFICES ASSUME NEW j \in 1..Len(table), slots'[j] # 0
                 PROVE  slots'[j] <= last' /\ media'[slots'[j]].line = j
      BY <1>1 DEF FitsLines
    <3>1. slots'[j] = table[j] /\ last' = last
      BY <1>1
    <3>2. CASE j <= Len(slots)
      <4>1. /\ slots[j] = table[j] /\ slots[j] \in 1..MaxStreams
            /\ slots[j] <= last /\ media[slots[j]].line = j
        BY <1>6, <3>1, <3>2, BoundsAre DEF LegInv, LinesMatch, FitsLines
      <4> QED
        BY <1>4, <3>1, <4>1
    <3>3. CASE j > Len(slots)
      <4>1. j = 1 /\ slots'[j] = 1 /\ media[1].line = 1 /\ 1 \in 1..MaxStreams
        BY <1>6, <3>1, <3>3, BoundsAre DEF LegInv, LinesMatch
      <4> QED
        BY <1>3, <1>4, <3>1, <4>1
    <3> QED
      BY <1>6, <3>2, <3>3
  <2>3. \A t \in 1..MaxStreams : t > last' => media'[t].line = 0 /\ media'[t].sock # "open"
    BY <1>3, <1>4 DEF LegInv, LinesMatch
  <2>4. media'[1].line = 1
    BY <1>4, BoundsAre DEF LegInv, LinesMatch
  <2> QED
    BY <2>1, <2>2, <2>3, <2>4 DEF LinesMatch
<1>8. SocketsMatch'
  <2> SUFFICES ASSUME NEW t \in 1..MaxStreams, media'[t].sock = "open", media'[t].line # 1
               PROVE  /\ media'[t].line # 0 /\ current'[media'[t].line] = t
                      /\ media'[t].line <= Len(slots') /\ slots'[media'[t].line] = t
    BY DEF SocketsMatch
  <2>1. t # s /\ media'[t] = media[t]
    BY <1>4
  <2>2. /\ current[media[t].line] = t /\ media[t].line <= Len(slots)
        /\ slots[media[t].line] = t
    BY <2>1 DEF LegInv, SocketsMatch
  <2>3. media[t].line # i
    BY <2>1, <2>2 DEF i
  <2>4. media[t].line \in 1..MaxLines
    BY <1>3, <2>1, ServicesAssumption DEF LegInv, SocketsMatch, StreamRecords
  <2> QED
    BY <1>1, <1>4, <1>6, <2>1, <2>2, <2>3, <2>4, ServicesAssumption
<1>9. RoomsMatch'
  <2>1. \A j \in 1..MaxLines : Sole(j)' => Sole(j) /\ j # i
    BY <1>4 DEF Sole
  <2>2. \A j \in 1..MaxLines : j # i => current'[j] = current[j]
    BY <1>4
  <2>3. \A q \in Rooms : \A j \in mixed'[q] : \E t \in 1..MaxStreams : media'[t].line = j
    BY <1>4 DEF LegInv, RoomsMatch
  <2>4. ASSUME NEW j \in 1..MaxLines, Sole(j)'
        PROVE  /\ \A q \in Rooms : Mixes(q, j)' /\ roomIs'[q] = "open" => media'[current'[j]].room = q
               /\ \A p, q \in Rooms : Mixes(p, j)' /\ Mixes(q, j)' => p = q
    <3>1. Sole(j) /\ current'[j] = current[j] /\ current[j] \in 1..MaxStreams
      BY <1>3, <2>1, <2>2, <2>4 DEF Sole
    <3> QED
      BY <1>4, <3>1 DEF LegInv, RoomsMatch, Mixes
  <2> QED
    BY <2>3, <2>4 DEF RoomsMatch
<1> QED
  BY <1>1, <1>2, <1>5, <1>7, <1>8, <1>9 DEF LegInv, i

(* AddStream to StreamAdded.                                                   *)
LEMMA AddStreamOK ==
    ASSUME StreamsInv, NEW c \in Callers, NEW r \in Rooms \cup {None}, AudioStreams!AddStream(c, r)
    PROVE  StreamsInv'
<1> DEFINE places == AudioStreams!WithPrimary
<1> SUFFICES ASSUME NEW i, i = Len(places) + 1, NEW s, s = last + 1 PROVE StreamsInv'
  OBVIOUS
<1> DEFINE u == [AudioStreams!Idle EXCEPT !.pc = "offer", !.op = "add", !.line = i,
                                          !.stream = s, !.room = r]
<1>1. /\ AudioStreams!Starts(c) /\ i <= MaxLines /\ s <= MaxStreams
      /\ slots' = Append(places, s)
      /\ current' = [current EXCEPT ![i] = s]
      /\ media' = [media EXCEPT ![s] = AudioStreams!NewStream(i)]
      /\ last' = s /\ AudioStreams!Goto(c, u)
      /\ UNCHANGED <<mixed, roomIs, sections, offers, leg>>
  BY DEF AudioStreams!AddStream, AudioStreams!roomVars
<1>2. /\ \A d \in Callers : task[d].pc = "idle"
      /\ \A q \in Rooms : roomIs[q] # "closing"
  BY <1>1, RequestStarts
<1>3. /\ places \in TableSet /\ Len(places) \in Nat /\ Len(places) >= 1
      /\ \A j \in 1..Len(places) : places[j] \in 0..MaxStreams
      /\ Len(slots) \in Nat /\ DOMAIN slots = 1..Len(slots)
      /\ (slots # <<>> => places = slots) /\ (slots = <<>> => Len(places) = 1 /\ places[1] = 1)
      /\ (slots = <<>> <=> Len(slots) = 0)
  BY PrimaryOK, TableFacts DEF StreamsInv, LegInv, LegTypes
<1>4. /\ s \in 1..MaxStreams /\ last \in 1..MaxStreams /\ i \in 2..MaxLines /\ MaxStreams \in Nat
      /\ MaxLines \in Nat /\ s = last + 1 /\ i = Len(places) + 1
  BY <1>1, <1>3, ServicesAssumption DEF StreamsInv, LegInv, LegTypes
<1> HIDE DEF places
<1>5. /\ slots' \in TableSet /\ Len(slots') = i /\ slots'[i] = s /\ DOMAIN slots' = 1..i
      /\ slots' # <<>>
      /\ \A j \in 1..Len(places) : slots'[j] = places[j]
  BY <1>1, <1>3, <1>4, AppendOK, TableFacts
<1>6. /\ media \in [1..MaxStreams -> StreamRecords] /\ current \in [1..MaxLines -> 0..MaxStreams]
      /\ AudioStreams!NewStream(i) \in StreamRecords
      /\ AudioStreams!NewStream(i).line = i /\ AudioStreams!NewStream(i).setUps = 0
      /\ AudioStreams!NewStream(i).heard = FALSE
      /\ i \in 1..MaxLines
  <2>1. i \in 1..MaxLines
    BY <1>4
  <2> QED
    BY <2>1, NewStreamOK DEF StreamsInv, LegInv, LegTypes
<1>7. /\ media'[s] = AudioStreams!NewStream(i) /\ current'[i] = s
      /\ \A t \in 1..MaxStreams : t # s => media'[t] = media[t]
      /\ \A j \in 1..MaxLines : j # i => current'[j] = current[j]
      /\ DOMAIN current = 1..MaxLines /\ DOMAIN current' = 1..MaxLines
  BY <1>1, <1>4, <1>6
<1>8. LegTypes'
  BY <1>1, <1>4, <1>5, <1>6 DEF StreamsInv, LegInv, LegTypes
<1>9. LinesMatch'
  <2>1. FitsLines(current)'
    BY <1>1, <1>4, <1>6, <1>7 DEF StreamsInv, LegInv, LinesMatch, FitsLines
  <2>2. ASSUME NEW j \in 1..Len(places), places[j] # 0
        PROVE  places[j] <= last /\ media[places[j]].line = j
    <3>1. CASE slots = <<>>
      <4>0. Len(places) = 1 /\ places[1] = 1
        BY <1>3, <3>1
      <4>1. j = 1 /\ places[j] = 1
        BY <4>0
      <4>2. media[1].line = 1
        BY DEF StreamsInv, LegInv, LinesMatch
      <4> QED
        BY <1>4, <4>1, <4>2
    <3>2. CASE slots # <<>>
      BY <1>3, <2>2, <3>2 DEF StreamsInv, LegInv, LinesMatch, FitsLines
    <3> QED
      BY <3>1, <3>2
  <2>3. FitsLines(slots)'
    <3> SUFFICES ASSUME NEW j \in 1..i, slots'[j] # 0
                 PROVE  slots'[j] <= last' /\ media'[slots'[j]].line = j
      BY <1>5 DEF FitsLines
    <3>1. CASE j = i
      BY <1>1, <1>4, <1>5, <1>6, <1>7, <3>1
    <3>2. CASE j # i
      <4>1. j \in 1..Len(places) /\ slots'[j] = places[j]
        BY <1>3, <1>4, <1>5, <3>2
      <4> QED
        BY <1>1, <1>3, <1>4, <1>7, <2>2, <4>1
    <3> QED
      BY <3>1, <3>2
  <2>4. \A t \in 1..MaxStreams : t > last' => media'[t].line = 0 /\ media'[t].sock # "open"
    BY <1>1, <1>4, <1>7 DEF StreamsInv, LegInv, LinesMatch
  <2>5. media'[1].line = 1
    BY <1>4, <1>7, ServicesAssumption DEF StreamsInv, LegInv, LinesMatch
  <2> QED
    BY <2>1, <2>3, <2>4, <2>5 DEF LinesMatch
<1>10. SocketsMatch'
  <2> SUFFICES ASSUME NEW t \in 1..MaxStreams, media'[t].sock = "open", media'[t].line # 1
               PROVE  /\ media'[t].line # 0 /\ current'[media'[t].line] = t
                      /\ media'[t].line <= Len(slots') /\ slots'[media'[t].line] = t
    BY DEF SocketsMatch
  <2>1. CASE t = s
    BY <1>4, <1>5, <1>6, <1>7, <2>1
  <2>2. CASE t # s
    <3>1. /\ media'[t] = media[t] /\ media[t].line \in 0..MaxLines
      BY <1>6, <1>7, <2>2 DEF StreamRecords
    <3>2. /\ media[t].line # 0 /\ current[media[t].line] = t /\ media[t].line <= Len(slots)
          /\ slots[media[t].line] = t
      BY <3>1 DEF StreamsInv, LegInv, SocketsMatch
    <3>3. media[t].line \in 1..Len(places) /\ places = slots
      BY <1>3, <1>4, <3>1, <3>2
    <3> QED
      BY <1>4, <1>5, <1>7, <3>1, <3>2, <3>3
  <2> QED
    BY <2>1, <2>2
<1>11. RoomsMatch'
  <2>2. media[s].line = 0
    BY <1>4 DEF StreamsInv, LegInv, LinesMatch
  <2>1. \A j \in 1..MaxLines : j # i /\ Sole(j)' => Sole(j)
    <3> SUFFICES ASSUME NEW j \in 1..MaxLines, j # i, Sole(j)' PROVE Sole(j)
      OBVIOUS
    <3>1. current'[j] = current[j] /\ current[j] # 0
      BY <1>7 DEF Sole
    <3>2. ASSUME NEW t \in 1..MaxStreams, media[t].line = j PROVE t = current[j]
      BY <1>7, <2>2, <3>1, <3>2 DEF Sole
    <3> QED
      BY <3>1, <3>2 DEF Sole
  <2>3. Sole(i)' => \A q \in Rooms : i \notin mixed[q]
    <3> SUFFICES ASSUME Sole(i)', NEW q \in Rooms, i \in mixed[q] PROVE FALSE
      OBVIOUS
    <3>1. PICK t \in 1..MaxStreams : media[t].line = i
      BY DEF StreamsInv, LegInv, RoomsMatch
    <3>2. t # s /\ media'[t].line = i
      BY <1>4, <1>7, <2>2, <3>1
    <3> QED
      BY <1>7, <3>2 DEF Sole
  <2>4. \A q \in Rooms : \A j \in mixed'[q] : \E t \in 1..MaxStreams : media'[t].line = j
    <3> SUFFICES ASSUME NEW q \in Rooms, NEW j \in mixed[q]
                 PROVE  \E t \in 1..MaxStreams : media'[t].line = j
      BY <1>1
    <3>1. PICK t \in 1..MaxStreams : media[t].line = j
      BY DEF StreamsInv, LegInv, RoomsMatch
    <3>2. j # 0
      BY DEF StreamsInv, LegInv, LegTypes
    <3> QED
      BY <1>7, <2>2, <3>1, <3>2
  <2>5. ASSUME NEW j \in 1..MaxLines, Sole(j)'
        PROVE  /\ \A q \in Rooms : Mixes(q, j)' /\ roomIs'[q] = "open" => media'[current'[j]].room = q
               /\ \A p, q \in Rooms : Mixes(p, j)' /\ Mixes(q, j)' => p = q
    <3>1. CASE j = i
      <4>1. mixed' = mixed
        BY <1>1
      <4> QED
        BY <2>3, <2>5, <3>1, <4>1 DEF Mixes
    <3>2. CASE j # i
      <4>1. Sole(j) /\ current'[j] = current[j] /\ current[j] # s /\ current[j] \in 1..MaxStreams
        <5>1. Sole(j) /\ current'[j] = current[j] /\ current[j] # 0
          BY <1>7, <2>1, <2>5, <3>2 DEF Sole
        <5>2. current[j] <= last /\ current[j] \in 0..MaxStreams
          BY <1>6, <1>7, <5>1 DEF StreamsInv, LegInv, LinesMatch, FitsLines
        <5> QED
          BY <1>4, <5>1, <5>2
      <4> QED
        BY <1>1, <1>7, <4>1 DEF StreamsInv, LegInv, RoomsMatch, Mixes
    <3> QED
      BY <3>1, <3>2
  <2> QED
    BY <2>4, <2>5 DEF RoomsMatch
<1>12. TableMatches'
  <2>1. Len(sections) \in Nat
    BY TableFacts DEF StreamsInv, LegInv, LegTypes
  <2>2. /\ Len(sections) <= Len(places)
        /\ \A j \in 1..Len(sections) : sections[j] = 0 => places[j] = 0
    BY <1>2, <1>3, <2>1 DEF StreamsInv, TableMatches, Refuses
  <2> QED
    BY <1>1, <1>3, <1>4, <1>5, <2>1, <2>2 DEF TableMatches
<1>13. u \in StreamTasks /\ u.pc = "offer" /\ u.op = "add" /\ u.line = i /\ u.stream = s
  <2> DEFINE idle == AudioStreams!Idle
  <2>1. idle \in StreamTasks
    BY NoTable, BoundsAre DEF AudioStreams!Idle, StreamTasks
  <2> HIDE DEF idle
  <2>2. u = [idle EXCEPT !.pc = "offer", !.op = "add", !.line = i, !.stream = s, !.room = r]
    BY DEF idle
  <2> HIDE DEF u
  <2>3. i \in 0..MaxLines /\ s \in 0..MaxStreams
    BY <1>4
  <2> QED
    BY <2>1, <2>2, <2>3 DEF StreamTasks
<1>14. TaskMatches(task[c])'
  <2>1. task'[c] = u
    BY <1>1, GoesTo
  <2> QED
    BY <1>1, <1>2, <1>4, <1>5, <1>6, <1>7, <1>13, <2>1 DEF TaskMatches, InOffer
<1> HIDE DEF u
<1> QED
  BY <1>1, <1>2, <1>8, <1>9, <1>10, <1>11, <1>12, <1>13, <1>14, RequestAdvances DEF LegInv

LEMMA MakeOfferOK ==
    ASSUME StreamsInv, NEW c \in Callers, AudioStreams!MakeOffer(c)
    PROVE  StreamsInv'
<1> DEFINE t == task[c]
           u == [t EXCEPT !.pc = "sent",
                    !.body = AudioStreams!Sections(IF t.op = "hold" THEN <<>>
                                                   ELSE AudioStreams!LocalStreams(slots))]
<1>1. /\ t.pc = "offer" /\ AudioStreams!Goto(c, u)
      /\ UNCHANGED <<slots, current, media, last, mixed, roomIs, sections, offers, leg>>
  BY DEF AudioStreams!MakeOffer, AudioStreams!At, AudioStreams!legVars, AudioStreams!roomVars
<1>2. /\ \A d \in Callers : d # c => task[d].pc = "idle"
      /\ \A d \in Callers : task[d].pc # "answered"
  BY <1>1, OthersAreIdle
<1>3. /\ t \in StreamTasks /\ TaskMatches(t) /\ InOffer(t)
  BY <1>1 DEF StreamsInv, TaskMatches
<1>4. u = [t EXCEPT !.pc = "sent", !.body = slots] /\ slots \in TableSet
  BY <1>3 DEF InOffer, AudioStreams!Sections, AudioStreams!LocalStreams, StreamsInv, LegInv, LegTypes
<1>5. u \in StreamTasks /\ u.pc = "sent" /\ u.body = slots /\ u.op = t.op /\ u.line = t.line
      /\ u.stream = t.stream
  BY <1>3, <1>4 DEF StreamTasks
<1>6. LegInv' /\ TableMatches'
  BY <1>1, <1>2, LegInvStays, TableStays DEF StreamsInv
<1>7. OfferMatches(slots)
  <2>1. /\ Len(slots) \in Nat /\ Len(sections) \in Nat
    BY TableFacts DEF StreamsInv, LegInv, LegTypes
  <2> QED
    BY <1>2, <1>3, <2>1 DEF StreamsInv, TableMatches, OfferMatches, InOffer, LegInv, LinesMatch, Refuses
<1>8. TaskMatches(task[c])'
  <2>1. task'[c] = u
    BY <1>1, GoesTo
  <2> HIDE DEF u
  <2>2. InOffer(task[c])'
    BY <1>1, <1>3, <1>5, <2>1 DEF InOffer
  <2>3. OfferMatches(task[c].body)'
    BY <1>1, <1>5, <1>7, <2>1 DEF OfferMatches, FitsLines
  <2> QED
    BY <1>1, <1>3, <1>5, <2>1, <2>2, <2>3 DEF TaskMatches
<1> HIDE DEF t, u
<1> QED
  BY <1>1, <1>2, <1>5, <1>6, <1>8, RequestAdvances

\* The sockets and addresses of streams change, and nothing that was closed is open.
LEMMA MediaChanges ==
    ASSUME LegInv, media' \in [1..MaxStreams -> StreamRecords],
           \A s \in 1..MaxStreams :
              /\ media'[s].line = media[s].line /\ media'[s].room = media[s].room
              /\ media'[s].sock = "open" => media[s].sock = "open",
           UNCHANGED <<slots, current, last, mixed, roomIs, sections, offers>>,
           leg' \in {"up", "over", "gone"}
    PROVE  LegInv'
<1>1. LegTypes'
  BY DEF LegInv, LegTypes
<1>2. /\ slots \in TableSet /\ DOMAIN slots = 1..Len(slots) /\ DOMAIN current = 1..MaxLines
      /\ \A j \in 1..Len(slots) : slots[j] \in 0..MaxStreams
      /\ \A j \in 1..MaxLines : current[j] \in 0..MaxStreams
  BY TableFacts DEF LegInv, LegTypes
<1>3. LinesMatch'
  <2>1. FitsLines(slots)' /\ FitsLines(current)'
    BY <1>2 DEF LegInv, LinesMatch, FitsLines
  <2>2. media'[1].line = 1 /\ \A s \in 1..MaxStreams : s > last' => media'[s].line = 0 /\ media'[s].sock # "open"
    BY BoundsAre DEF LegInv, LinesMatch
  <2> QED
    BY <2>1, <2>2 DEF LinesMatch
<1>4. SocketsMatch'
  BY DEF LegInv, SocketsMatch
<1>5. RoomsMatch'
  <2>1. \A i \in 1..MaxLines : Sole(i)' => Sole(i) /\ current[i] \in 1..MaxStreams
    BY <1>2 DEF Sole
  <2> QED
    BY <2>1 DEF LegInv, RoomsMatch, Mixes, Sole
<1> QED
  BY <1>1, <1>3, <1>4, <1>5 DEF LegInv

LEMMA AnsweredOK ==
    ASSUME StreamsInv, NEW c \in Callers, NEW refused \in BOOLEAN, AudioStreams!Answered(c, refused)
    PROVE  StreamsInv'
<1> DEFINE t == task[c]
           answer == IF refused THEN AudioStreams!Removed(t.body, t.line) ELSE t.body
<1>1. /\ t.pc = "sent" /\ (refused => t.op = "add") /\ sections' = answer
      /\ media' = [s \in 1..MaxStreams |->
             IF \E i \in DOMAIN answer : answer[i] # 0 /\ current[i] = s
             THEN [media[s] EXCEPT !.heard = TRUE] ELSE media[s]]
      /\ UNCHANGED <<slots, current, last, mixed, roomIs, offers, leg>>
  BY DEF AudioStreams!Answered, AudioStreams!At, AudioStreams!roomVars, AudioStreams!Streams
<1>2. IF t.op = "add" THEN AudioStreams!Goto(c, [t EXCEPT !.pc = "answered"]) ELSE AudioStreams!Done(c)
  BY DEF AudioStreams!Answered, AudioStreams!Step
<1>3. /\ t \in StreamTasks /\ TaskMatches(t) /\ InOffer(t) /\ OfferMatches(t.body)
      /\ t.line \in 2..MaxLines /\ t.body \in TableSet
      /\ \A d \in Callers : d # c => task[d].pc = "idle"
  BY <1>1, OthersAreIdle DEF StreamsInv, TaskMatches, StreamTasks
<1>4. /\ answer \in TableSet /\ Len(answer) = Len(t.body) /\ DOMAIN answer = 1..Len(t.body)
      /\ \A i \in 1..Len(t.body) : answer[i] = IF refused /\ i = t.line THEN 0 ELSE t.body[i]
      /\ Len(t.body) \in Nat /\ Len(slots) \in Nat /\ Len(sections) \in Nat
      /\ (slots = <<>> <=> Len(slots) = 0)
  BY <1>3, RemovedOK, TableFacts DEF StreamsInv, LegInv, LegTypes
<1>5. \A s \in 1..MaxStreams :
          /\ media[s] \in StreamRecords /\ media'[s] \in StreamRecords
          /\ media'[s].line = media[s].line /\ media'[s].room = media[s].room
          /\ media'[s].sock = media[s].sock /\ media'[s].setUps = media[s].setUps
  BY <1>1 DEF StreamsInv, LegInv, LegTypes, StreamRecords
<1> HIDE DEF answer
<1>6. LegInv'
  <2>1. LegTypes'
    <3>1. media' \in [1..MaxStreams -> StreamRecords]
      BY <1>1, <1>5
    <3> QED
      BY <1>1, <1>4, <3>1 DEF StreamsInv, LegInv, LegTypes
  <2>2. /\ slots \in TableSet /\ DOMAIN slots = 1..Len(slots) /\ DOMAIN current = 1..MaxLines
        /\ \A j \in 1..Len(slots) : slots[j] \in 0..MaxStreams
        /\ \A j \in 1..MaxLines : current[j] \in 0..MaxStreams
    BY TableFacts DEF StreamsInv, LegInv, LegTypes
  <2>3. LinesMatch'
    BY <1>1, <1>5, <2>2, BoundsAre DEF StreamsInv, LegInv, LinesMatch, FitsLines
  <2>4. SocketsMatch'
    BY <1>1, <1>5 DEF StreamsInv, LegInv, SocketsMatch
  <2>5. RoomsMatch'
    <3>1. \A i \in 1..MaxLines : Sole(i)' => Sole(i) /\ current[i] \in 1..MaxStreams
      BY <1>1, <1>5, <2>2 DEF Sole
    <3> QED
      BY <1>1, <1>5, <3>1 DEF StreamsInv, LegInv, RoomsMatch, Mixes, Sole
  <2> QED
    BY <2>1, <2>3, <2>4, <2>5 DEF LegInv
<1>7. ASSUME refused
      PROVE  t.stream \in 1..MaxStreams /\ media'[t.stream] = media[t.stream] /\ ~media[t.stream].heard
  <2>1. /\ t.stream \in 1..last /\ t.stream \in 1..MaxStreams /\ media[t.stream].line = t.line
        /\ ~media[t.stream].heard
    BY <1>1, <1>3, <1>7 DEF InOffer, StreamsInv, LegInv, LegTypes
  <2>2. ASSUME NEW i \in DOMAIN answer, answer[i] # 0, current[i] = t.stream PROVE FALSE
    <3>1. i \in 1..MaxLines /\ i # t.line
      <4>1. Len(t.body) <= MaxLines
        BY <1>3, TableFacts
      <4> QED
        BY <1>4, <1>7, <2>2, <4>1, BoundsAre
    <3> QED
      BY <2>1, <2>2, <3>1 DEF StreamsInv, LegInv, LegTypes, LinesMatch, FitsLines
  <2> QED
    BY <1>1, <2>1, <2>2
<1>8. ASSUME t.op = "add" PROVE StreamsInv'
  <2> DEFINE u == [t EXCEPT !.pc = "answered"]
  <2>1. /\ u \in StreamTasks /\ u.pc = "answered" /\ u.op = "add" /\ u.line = t.line
        /\ u.stream = t.stream
    BY <1>3, <1>8 DEF StreamTasks
  <2>2. AudioStreams!Goto(c, u) /\ task'[c] = u
    BY <1>2, <1>8, GoesTo
  <2> HIDE DEF u
  <2>3. TableMatches'
    <3>1. ASSUME NEW i \in 1..Len(t.body), answer[i] = 0
          PROVE  slots[i] = 0 \/ Refuses(task[c], i)'
      <4>1. CASE refused /\ i = t.line
        BY <1>7, <2>1, <2>2, <4>1 DEF Refuses
      <4>2. CASE ~(refused /\ i = t.line)
        BY <1>3, <1>4, <3>1, <4>2 DEF OfferMatches
      <4> QED
        BY <4>1, <4>2
    <3> QED
      BY <1>1, <1>3, <1>4, <3>1 DEF TableMatches, OfferMatches, InOffer
  <2>4. TaskMatches(task[c])'
    <3>1. t.stream \in 1..MaxStreams
      BY <1>3, <1>8 DEF InOffer, StreamsInv, LegInv, LegTypes
    <3>2. InOffer(task[c])'
      BY <1>1, <1>3, <1>5, <1>8, <2>1, <2>2, <3>1 DEF InOffer
    <3> QED
      BY <1>1, <1>3, <2>1, <2>2, <3>2 DEF TaskMatches
  <2> QED
    BY <1>3, <1>6, <2>1, <2>2, <2>3, <2>4, RequestAdvances
<1>9. ASSUME t.op # "add" PROVE StreamsInv'
  <2>1. TableMatches'
    BY <1>1, <1>3, <1>4, <1>9 DEF TableMatches, OfferMatches, InOffer
  <2> QED
    BY <1>2, <1>3, <1>6, <1>9, <2>1, IdleOK, RequestAdvances
<1> QED
  BY <1>8, <1>9

\* The table once the stream on line k is closed.
LEMMA TableOnClose ==
    ASSUME NEW k, {slots, slots', sections} \subseteq TableSet, slots # <<>>, sections' = sections,
           Len(slots') = Len(slots),
           \A j \in 1..Len(slots) : slots'[j] = IF j = k THEN 0 ELSE slots[j],
           Len(sections) <= Len(slots),
           \A j \in 1..Len(sections) : sections[j] = 0 => slots[j] = 0 \/ j = k
    PROVE  TableMatches'
<1>1. /\ Len(slots) \in Nat /\ Len(sections) \in Nat /\ slots' # <<>>
  BY TableFacts
<1> QED
  BY <1>1 DEF TableMatches

LEMMA OfferFailsOK ==
    ASSUME StreamsInv, NEW c \in Callers, AudioStreams!OfferFails(c)
    PROVE  StreamsInv'
<1> DEFINE t == task[c]
<1>1. /\ t.pc = "sent" /\ AudioStreams!Done(c)
      /\ IF t.op = "add" THEN AudioStreams!CloseStream(t.stream, slots)
                         ELSE UNCHANGED <<slots, current, media>>
      /\ UNCHANGED <<last, mixed, roomIs, sections, offers, leg>>
  BY DEF AudioStreams!OfferFails, AudioStreams!At, AudioStreams!roomVars
<1>2. /\ TaskMatches(t) /\ InOffer(t) /\ OfferMatches(t.body) /\ t.line \in 2..MaxLines
      /\ t.body \in TableSet
      /\ \A d \in Callers : d # c => task[d].pc = "idle"
  BY <1>1, OthersAreIdle DEF StreamsInv, TaskMatches, StreamTasks
<1>3. /\ slots \in TableSet /\ sections \in TableSet /\ slots # <<>> /\ Len(sections) <= Len(slots)
      /\ \A j \in 1..Len(sections) : sections[j] = 0 => slots[j] = 0
  <2>1. Len(t.body) \in Nat /\ Len(slots) \in Nat /\ Len(sections) \in Nat
    BY <1>2, TableFacts DEF StreamsInv, LegInv, LegTypes
  <2> QED
    BY <1>2, <2>1 DEF OfferMatches, InOffer, StreamsInv, LegInv, LegTypes
<1>4. ASSUME t.op = "add" PROVE LegInv' /\ TableMatches'
  <2>1. /\ t.stream \in 1..last /\ media[t.stream].line = t.line /\ current[t.line] = t.stream
    BY <1>2, <1>4 DEF InOffer
  <2>2. AudioStreams!CloseStream(t.stream, slots) /\ media[t.stream].line \in 2..MaxLines
        /\ current[media[t.stream].line] = t.stream
    BY <1>1, <1>2, <1>4, <2>1
  <2> HIDE DEF t
  <2>3. /\ LegInv' /\ Len(slots') = Len(slots)
        /\ \A j \in 1..Len(slots) : slots'[j] = IF j = media[t.stream].line THEN 0 ELSE slots[j]
    BY <1>1, <1>3, <2>1, <2>2, CloseOK DEF StreamsInv
  <2>4. slots' \in TableSet
    BY <2>3 DEF LegInv, LegTypes
  <2>5. {slots, slots', sections} \subseteq TableSet /\ sections' = sections
    BY <1>1, <1>3, <2>4
  <2> QED
    BY <1>3, <2>3, <2>5, TableOnClose
<1>5. ASSUME t.op # "add" PROVE LegInv' /\ TableMatches'
  BY <1>1, <1>2, <1>5, LegInvStays, TableStays DEF StreamsInv
<1> QED
  BY <1>1, <1>2, <1>4, <1>5, IdleOK, RequestAdvances

LEMMA StreamRefusedOK ==
    ASSUME StreamsInv, NEW c \in Callers, AudioStreams!StreamRefused(c)
    PROVE  StreamsInv'
<1> DEFINE t == task[c]
<1>1. /\ t.pc = "answered" /\ AudioStreams!Done(c)
      /\ AudioStreams!CloseStream(t.stream, slots)
      /\ UNCHANGED <<last, mixed, roomIs, sections, offers, leg>>
  BY DEF AudioStreams!StreamRefused, AudioStreams!At, AudioStreams!roomVars
<1>2. /\ TaskMatches(t) /\ InOffer(t) /\ t.line \in 2..MaxLines /\ t.op = "add"
      /\ \A d \in Callers : d # c => task[d].pc = "idle"
  BY <1>1, OthersAreIdle DEF StreamsInv, TaskMatches, InOffer
<1>3. /\ t.stream \in 1..last /\ media[t.stream].line = t.line /\ current[t.line] = t.stream
      /\ slots # <<>> /\ slots \in TableSet /\ sections \in TableSet
  BY <1>2 DEF InOffer, StreamsInv, LegInv, LegTypes
<1>4. /\ Len(sections) <= Len(slots)
      /\ \A j \in 1..Len(sections) : sections[j] = 0 => slots[j] = 0 \/ j = media[t.stream].line
  BY <1>2, <1>3 DEF StreamsInv, TableMatches, Refuses
<1> HIDE DEF t
<1>5. /\ LegInv' /\ Len(slots') = Len(slots)
      /\ \A j \in 1..Len(slots) : slots'[j] = IF j = media[t.stream].line THEN 0 ELSE slots[j]
  BY <1>1, <1>2, <1>3, CloseOK DEF StreamsInv
<1>6. {slots, slots', sections} \subseteq TableSet /\ sections' = sections
  BY <1>1, <1>3, <1>5 DEF LegInv, LegTypes
<1>7. TableMatches'
  BY <1>3, <1>4, <1>5, <1>6, TableOnClose
<1> QED
  BY <1>1, <1>2, <1>5, <1>7, IdleOK, RequestAdvances DEF t

LEMMA StreamAddedOK ==
    ASSUME StreamsInv, NEW c \in Callers, AudioStreams!StreamAdded(c)
    PROVE  StreamsInv'
<1> DEFINE t == task[c]
           u == [t EXCEPT !.pc = "attach"]
<1>1. /\ t.pc = "answered" /\ media[t.stream].heard
      /\ media' = [media EXCEPT ![t.stream].setUps = @ + 1]
      /\ IF t.room = None THEN AudioStreams!Done(c) ELSE AudioStreams!Goto(c, u)
      /\ UNCHANGED <<slots, current, last, mixed, roomIs, sections, offers, leg>>
  BY DEF AudioStreams!StreamAdded, AudioStreams!At, AudioStreams!Step, AudioStreams!roomVars
<1>2. /\ t \in StreamTasks /\ TaskMatches(t) /\ InOffer(t) /\ t.line \in 2..MaxLines /\ t.op = "add"
      /\ \A d \in Callers : d # c => task[d].pc = "idle"
  BY <1>1, OthersAreIdle DEF StreamsInv, TaskMatches, InOffer
<1>3. /\ t.stream \in 1..MaxStreams /\ media[t.stream].setUps = 0
      /\ media \in [1..MaxStreams -> StreamRecords]
  BY <1>2 DEF InOffer, StreamsInv, LegInv, LegTypes
<1>4. \A s \in 1..MaxStreams :
          /\ media'[s].line = media[s].line /\ media'[s].room = media[s].room
          /\ media'[s].sock = media[s].sock
  BY <1>1, <1>3 DEF StreamRecords
<1>5. media' \in [1..MaxStreams -> StreamRecords]
  <2>1. [media[t.stream] EXCEPT !.setUps = @ + 1] \in StreamRecords
    BY <1>3 DEF StreamRecords
  <2> QED
    BY <1>1, <1>3, <2>1
<1>6. LegInv'
  <2>1. leg' \in {"up", "over", "gone"}
    BY <1>1 DEF StreamsInv, LegInv, LegTypes
  <2> QED
    BY <1>1, <1>4, <1>5, <2>1, MediaChanges DEF StreamsInv
<1>7. TableMatches'
  <2>1. /\ slots # <<>> /\ Len(sections) <= Len(slots)
        /\ \A j \in 1..Len(sections) : sections[j] = 0 => slots[j] = 0
    BY <1>1, <1>2 DEF StreamsInv, TableMatches, Refuses, InOffer
  <2> QED
    BY <1>1, <2>1 DEF TableMatches
<1>8. CASE t.room = None
  BY <1>1, <1>2, <1>6, <1>7, <1>8, IdleOK, RequestAdvances
<1>9. CASE t.room # None
  <2>1. /\ u \in StreamTasks /\ u.pc = "attach" /\ u.line = t.line /\ u.room \in Rooms
        /\ u.op = "add"
    BY <1>2, <1>9 DEF StreamTasks
  <2>2. AudioStreams!Goto(c, u) /\ task'[c] = u
    BY <1>1, <1>9, GoesTo
  <2> HIDE DEF u
  <2>3. TaskMatches(task[c])'
    BY <1>1, <1>2, <2>1, <2>2 DEF TaskMatches
  <2> QED
    BY <1>2, <1>6, <1>7, <2>1, <2>2, <2>3, RequestAdvances
<1> QED
  BY <1>8, <1>9

(* RemoveStream, attachStreamRoom and detachStreamRoom begin with the room the *)
(* stream is in.                                                               *)
LEMMA LeaveBegins ==
    ASSUME StreamsInv, NEW c \in Callers, \A d \in Callers : d # c => task[d].pc = "idle",
           task[c].pc # "answered", \A r \in Rooms : roomIs[r] # "closing",
           NEW i \in 2..MaxLines, current[i] # 0,
           NEW u, u \in StreamTasks, u.pc = "leave", u.op \in {"add", "remove", "attach", "detach"},
           u.line = i, u.from = media[current[i]].room,
           u.op \notin {"remove", "detach"} => u.room \in Rooms,
           AudioStreams!Goto(c, u),
           UNCHANGED <<slots, current, media, last, mixed, roomIs, sections, offers, leg>>
    PROVE  StreamsInv'
<1>1. LegInv' /\ TableMatches'
  BY LegInvStays, TableStays DEF StreamsInv
<1>2. Sole(i) => \A r \in Rooms : Mixes(r, i) => r = media[current[i]].room
  <2>1. i \in 1..MaxLines
    BY BoundsAre
  <2> QED
    BY <2>1 DEF StreamsInv, LegInv, LegTypes, RoomsMatch, Mixes
<1>3. Sole(i)' => Sole(i)
  BY DEF Sole
<1>4. TaskMatches(task[c])'
  <2>1. task'[c] = u
    BY GoesTo
  <2> QED
    BY <1>2, <1>3, <2>1 DEF TaskMatches, Mixes
<1> QED
  BY <1>1, <1>4, RequestAdvances

LEMMA LeaveStarts ==
    ASSUME StreamsInv, NEW c \in Callers, NEW i \in 1..MaxLines,
           \/ AudioStreams!RemoveStream(c, i) \/ AudioStreams!DetachStream(c, i)
           \/ \E r \in Rooms : AudioStreams!AttachStream(c, i, r)
    PROVE  StreamsInv'
<1> DEFINE idle == AudioStreams!Idle
<1>1. /\ AudioStreams!Starts(c) /\ i # 1 /\ current[i] # 0
      /\ UNCHANGED <<slots, current, media, last, mixed, roomIs, sections, offers, leg>>
  BY DEF AudioStreams!RemoveStream, AudioStreams!DetachStream, AudioStreams!AttachStream,
     AudioStreams!legVars, AudioStreams!roomVars
<1>2. idle \in StreamTasks
  BY NoTable, BoundsAre DEF AudioStreams!Idle, StreamTasks
<1>3. PICK op \in {"remove", "detach", "attach"}, r \in Rooms \cup {None} :
          /\ op = "attach" => r \in Rooms
          /\ AudioStreams!Goto(c, [idle EXCEPT !.pc = "leave", !.op = op, !.line = i, !.room = r,
                                     !.from = media[current[i]].room])
  <2> DEFINE Gone(op, r) == [idle EXCEPT !.pc = "leave", !.op = op, !.line = i, !.room = r,
                                        !.from = media[current[i]].room]
  <2>0. idle.room = None
    BY DEF AudioStreams!Idle
  <2>1. CASE AudioStreams!RemoveStream(c, i)
    <3>1. AudioStreams!Goto(c, [idle EXCEPT !.pc = "leave", !.op = "remove", !.line = i,
                                            !.from = media[current[i]].room])
      BY <2>1 DEF AudioStreams!RemoveStream
    <3> HIDE DEF idle
    <3>2. [idle EXCEPT !.pc = "leave", !.op = "remove", !.line = i,
                       !.from = media[current[i]].room] = Gone("remove", None)
      BY <1>2, <2>0 DEF StreamTasks
    <3> QED
      BY <3>1, <3>2
  <2>2. CASE AudioStreams!DetachStream(c, i)
    <3>1. AudioStreams!Goto(c, [idle EXCEPT !.pc = "leave", !.op = "detach", !.line = i,
                                            !.from = media[current[i]].room])
      BY <2>2 DEF AudioStreams!DetachStream
    <3> HIDE DEF idle
    <3>2. [idle EXCEPT !.pc = "leave", !.op = "detach", !.line = i,
                       !.from = media[current[i]].room] = Gone("detach", None)
      BY <1>2, <2>0 DEF StreamTasks
    <3> QED
      BY <3>1, <3>2
  <2>3. ASSUME NEW r \in Rooms, AudioStreams!AttachStream(c, i, r)
        PROVE  AudioStreams!Goto(c, Gone("attach", r))
    BY <2>3 DEF AudioStreams!AttachStream
  <2> QED
    BY <2>1, <2>2, <2>3
<1> DEFINE u == [idle EXCEPT !.pc = "leave", !.op = op, !.line = i, !.room = r,
                             !.from = media[current[i]].room]
<1>4. /\ \A d \in Callers : task[d].pc = "idle" /\ task[d].pc # "answered"
      /\ \A q \in Rooms : roomIs[q] # "closing"
  BY <1>1, RequestStarts
<1>5. /\ i \in 2..MaxLines /\ i \in 0..MaxLines
      /\ media[current[i]].room \in Rooms \cup {None}
  <2>1. current[i] \in 1..MaxStreams /\ media \in [1..MaxStreams -> StreamRecords]
    BY <1>1, BoundsAre DEF StreamsInv, LegInv, LegTypes
  <2>2. media[current[i]] \in StreamRecords
    BY <2>1
  <2> QED
    BY <1>1, <2>2, BoundsAre DEF StreamRecords
<1> HIDE DEF idle
<1>6. /\ u \in StreamTasks /\ u.pc = "leave" /\ u.line = i /\ u.op = op /\ u.room = r
      /\ u.from = media[current[i]].room
  BY <1>2, <1>5 DEF StreamTasks
<1> HIDE DEF u
<1>7. AudioStreams!Goto(c, u)
  BY <1>3 DEF u
<1> QED
  BY <1>1, <1>3, <1>4, <1>5, <1>6, <1>7, LeaveBegins

LEMMA AttachAddedOK ==
    ASSUME StreamsInv, NEW c \in Callers, AudioStreams!AttachAdded(c)
    PROVE  StreamsInv'
<1> DEFINE t == task[c]
           u == [t EXCEPT !.pc = "leave", !.from = media[current[t.line]].room]
<1>1. /\ t.pc = "attach"
      /\ IF roomIs[t.room] = "open" /\ current[t.line] # 0
         THEN AudioStreams!Goto(c, u) ELSE AudioStreams!Done(c)
      /\ UNCHANGED <<slots, current, media, last, mixed, roomIs, sections, offers, leg>>
  BY DEF AudioStreams!AttachAdded, AudioStreams!At, AudioStreams!legVars, AudioStreams!roomVars
<1>2. /\ t \in StreamTasks /\ TaskMatches(t) /\ t.line \in 2..MaxLines /\ t.room \in Rooms
      /\ t.op = "add"
      /\ \A d \in Callers : d # c => task[d].pc = "idle"
      /\ \A d \in Callers : task[d].pc # "answered"
      /\ \A r \in Rooms : roomIs[r] # "closing"
  BY <1>1, OthersAreIdle DEF StreamsInv, TaskMatches
<1>3. CASE roomIs[t.room] = "open" /\ current[t.line] # 0
  <2>1. media[current[t.line]].room \in Rooms \cup {None}
    <3>1. t.line \in 1..MaxLines
      BY <1>2, BoundsAre
    <3>2. current[t.line] \in 1..MaxStreams /\ media \in [1..MaxStreams -> StreamRecords]
      BY <1>3, <3>1 DEF StreamsInv, LegInv, LegTypes
    <3>3. media[current[t.line]] \in StreamRecords
      BY <3>2
    <3> QED
      BY <3>3 DEF StreamRecords
  <2>2. /\ u \in StreamTasks /\ u.pc = "leave" /\ u.line = t.line /\ u.op = t.op /\ u.room = t.room
        /\ u.from = media[current[t.line]].room
    BY <1>2, <2>1 DEF StreamTasks
  <2>3. AudioStreams!Goto(c, u)
    BY <1>1, <1>3
  <2> HIDE DEF u
  <2> QED
    BY <1>1, <1>2, <1>3, <2>2, <2>3, LeaveBegins
<1>4. CASE ~(roomIs[t.room] = "open" /\ current[t.line] # 0)
  BY <1>1, <1>2, <1>4, IdleOK, LegInvStays, TableStays, RequestAdvances DEF StreamsInv
<1> QED
  BY <1>3, <1>4

LEMMA RemoveLegStreamOK ==
    ASSUME StreamsInv, NEW c \in Callers, AudioStreams!RemoveLegStream(c)
    PROVE  StreamsInv'
<1> DEFINE t == task[c]
           s == current[t.line]
           u == [t EXCEPT !.pc = "offer"]
           places == AudioStreams!WithPrimary
<1>1. /\ t.pc = "remove"
      /\ IF s = 0 THEN UNCHANGED <<slots, current, media>> /\ AudioStreams!Done(c)
                  ELSE AudioStreams!CloseStream(s, places) /\ AudioStreams!Goto(c, u)
      /\ UNCHANGED <<last, mixed, roomIs, sections, offers, leg>>
  BY DEF AudioStreams!RemoveLegStream, AudioStreams!At, AudioStreams!Step, AudioStreams!roomVars
<1>2. /\ t \in StreamTasks /\ TaskMatches(t) /\ t.line \in 2..MaxLines /\ t.op = "remove"
      /\ \A d \in Callers : d # c => task[d].pc = "idle"
      /\ \A d \in Callers : task[d].pc # "answered"
      /\ \A r \in Rooms : roomIs[r] # "closing"
  BY <1>1, OthersAreIdle DEF StreamsInv, TaskMatches
<1>3. CASE s = 0
  BY <1>1, <1>2, <1>3, IdleOK, LegInvStays, TableStays, RequestAdvances DEF StreamsInv
<1>4. CASE s # 0
  <2>1. /\ s \in 1..last /\ media[s].line = t.line
    <3>1. t.line \in 1..MaxLines
      BY <1>2, BoundsAre
    <3> QED
      BY <1>4, <3>1 DEF StreamsInv, LegInv, LegTypes, LinesMatch, FitsLines
  <2>2. /\ places \in TableSet /\ places # <<>> /\ (slots # <<>> => places = slots)
        /\ (slots = <<>> => Len(places) = 1)
        /\ slots \in TableSet /\ sections \in TableSet
    BY PrimaryOK DEF StreamsInv, LegInv, LegTypes
  <2>3. slots = <<>> => places \in {<<>>, <<1>>}
    BY DEF AudioStreams!WithPrimary
  <2>4. AudioStreams!CloseStream(s, places) /\ AudioStreams!Goto(c, u)
    BY <1>1, <1>4
  <2>5. media[s].line \in 2..MaxLines /\ current[media[s].line] = s
    BY <1>2, <2>1
  <2> HIDE DEF s, places
  <2>6. /\ LegInv' /\ Len(slots') = Len(places)
        /\ \A j \in 1..Len(places) : slots'[j] = IF j = media[s].line THEN 0 ELSE places[j]
    BY <1>1, <2>1, <2>2, <2>3, <2>4, <2>5, CloseOK DEF StreamsInv
  <2>7. /\ Len(places) \in Nat /\ Len(places) >= 1 /\ Len(sections) \in Nat /\ slots' # <<>>
    <3>1. slots' \in TableSet
      BY <2>6 DEF LegInv, LegTypes
    <3> QED
      BY <2>2, <2>6, <3>1, TableFacts
  <2>8. /\ Len(sections) <= Len(places)
        /\ \A j \in 1..Len(sections) : sections[j] = 0 => places[j] = 0
    BY <1>2, <2>2, <2>7 DEF StreamsInv, TableMatches, Refuses
  <2>9. TableMatches'
    BY <1>1, <2>6, <2>7, <2>8 DEF TableMatches
  <2>10. u \in StreamTasks /\ u.pc = "offer" /\ u.line = t.line /\ u.op = "remove"
    BY <1>2 DEF StreamTasks
  <2>11. task'[c] = u
    BY <2>4, GoesTo
  <2> HIDE DEF u
  <2>12. TaskMatches(task[c])'
    BY <1>1, <1>2, <2>7, <2>10, <2>11 DEF TaskMatches, InOffer
  <2> QED
    BY <1>2, <2>4, <2>6, <2>9, <2>10, <2>12, RequestAdvances
<1> QED
  BY <1>3, <1>4

(* A stream leaves its room, or joins one.                                     *)
LEMMA InRoomOK ==
    ASSUME LegInv, NEW i \in 1..MaxLines, NEW r \in Rooms \cup {None}
    PROVE  /\ AudioStreams!InRoom(i, r) \in [1..MaxStreams -> StreamRecords]
           /\ \A s \in 1..MaxStreams :
                 LET m == AudioStreams!InRoom(i, r)[s] IN
                 /\ m.line = media[s].line /\ m.sock = media[s].sock
                 /\ m.heard = media[s].heard /\ m.setUps = media[s].setUps
                 /\ m.room = IF current[i] # 0 /\ s = current[i] THEN r ELSE media[s].room
<1>1. media \in [1..MaxStreams -> StreamRecords] /\ current[i] \in 0..MaxStreams
  BY DEF LegInv, LegTypes
<1>2. CASE current[i] = 0
  BY <1>1, <1>2 DEF AudioStreams!InRoom
<1>3. CASE current[i] # 0
  <2>1. current[i] \in 1..MaxStreams
    BY <1>1, <1>3, BoundsAre
  <2>2. AudioStreams!InRoom(i, r) = [media EXCEPT ![current[i]].room = r]
    BY <1>3 DEF AudioStreams!InRoom
  <2>3. [media[current[i]] EXCEPT !.room = r] \in StreamRecords
    BY <1>1, <2>1 DEF StreamRecords
  <2>4. AudioStreams!InRoom(i, r) \in [1..MaxStreams -> StreamRecords]
    BY <1>1, <2>1, <2>2, <2>3
  <2>5. ASSUME NEW s \in 1..MaxStreams
        PROVE  LET m == AudioStreams!InRoom(i, r)[s] IN
               /\ m.line = media[s].line /\ m.sock = media[s].sock
               /\ m.heard = media[s].heard /\ m.setUps = media[s].setUps
               /\ m.room = IF s = current[i] THEN r ELSE media[s].room
    BY <1>1, <2>1, <2>2 DEF StreamRecords
  <2> QED
    BY <1>3, <2>4, <2>5
<1> QED
  BY <1>2, <1>3

LEMMA RoomMoves ==
    ASSUME LegInv, media' \in [1..MaxStreams -> StreamRecords],
           \A s \in 1..MaxStreams :
              media'[s].line = media[s].line /\ media'[s].sock = media[s].sock,
           UNCHANGED <<slots, current, last, sections, offers>>,
           leg' \in {"up", "over", "gone"},
           mixed' \in [Rooms -> SUBSET (1..MaxLines)],
           roomIs' \in [Rooms -> {"open", "closing", "gone"}],
           RoomsMatch'
    PROVE  LegInv' /\ \A i \in 1..MaxLines : Sole(i)' <=> Sole(i)
<1>1. LegTypes'
  BY DEF LegInv, LegTypes
<1>2. /\ slots \in TableSet /\ DOMAIN slots = 1..Len(slots) /\ DOMAIN current = 1..MaxLines
      /\ \A j \in 1..Len(slots) : slots[j] \in 0..MaxStreams
      /\ \A j \in 1..MaxLines : current[j] \in 0..MaxStreams
  BY TableFacts DEF LegInv, LegTypes
<1>3. LinesMatch'
  <2>1. FitsLines(slots)' /\ FitsLines(current)'
    BY <1>2 DEF LegInv, LinesMatch, FitsLines
  <2>2. media'[1].line = 1 /\ \A s \in 1..MaxStreams : s > last' => media'[s].line = 0 /\ media'[s].sock # "open"
    BY BoundsAre DEF LegInv, LinesMatch
  <2> QED
    BY <2>1, <2>2 DEF LinesMatch
<1>4. SocketsMatch'
  BY DEF LegInv, SocketsMatch
<1>5. \A i \in 1..MaxLines : Sole(i)' <=> Sole(i)
  BY DEF Sole
<1> QED
  BY <1>1, <1>3, <1>4, <1>5 DEF LegInv

\* Two lines do not have one stream.
LEMMA LinesDiffer ==
    ASSUME LegInv, NEW i \in 1..MaxLines, NEW j \in 1..MaxLines, current[i] # 0, current[j] = current[i]
    PROVE  i = j
  BY DEF LegInv, LegTypes, LinesMatch, FitsLines

LEMMA LeaveRoomOK ==
    ASSUME StreamsInv, NEW c \in Callers, AudioStreams!LeaveRoom(c)
    PROVE  StreamsInv'
<1> DEFINE t == task[c]
           leaves == t.from # None /\ roomIs[t.from] = "open" /\ t.line \in mixed[t.from]
<1>1. /\ t.pc = "leave"
      /\ IF leaves THEN /\ mixed' = [mixed EXCEPT ![t.from] = @ \ {t.line}]
                        /\ media' = AudioStreams!InRoom(t.line, None)
                   ELSE UNCHANGED <<mixed, media>>
      /\ UNCHANGED <<slots, current, last, roomIs, sections, offers, leg>>
  BY DEF AudioStreams!LeaveRoom, AudioStreams!Leave, AudioStreams!At
<1>2. /\ t.op = "remove" => AudioStreams!Goto(c, [t EXCEPT !.pc = "remove"])
      /\ t.op = "detach" => AudioStreams!Done(c)
      /\ t.op \notin {"remove", "detach"} => AudioStreams!Goto(c, [t EXCEPT !.pc = "join"])
  BY DEF AudioStreams!LeaveRoom, AudioStreams!Step
<1>3. /\ t \in StreamTasks /\ TaskMatches(t) /\ t.line \in 2..MaxLines /\ t.line \in 1..MaxLines
      /\ \A d \in Callers : d # c => task[d].pc = "idle"
      /\ \A d \in Callers : task[d].pc # "answered"
      /\ \A r \in Rooms : roomIs[r] # "closing"
      /\ t.from \in Rooms \cup {None}
  BY <1>1, OthersAreIdle, BoundsAre DEF StreamsInv, TaskMatches, StreamTasks
<1>4. /\ media \in [1..MaxStreams -> StreamRecords] /\ mixed \in [Rooms -> SUBSET (1..MaxLines)]
      /\ roomIs \in [Rooms -> {"open", "closing", "gone"}] /\ None \notin Rooms
      /\ \A i \in 1..MaxLines : current[i] \in 0..MaxStreams
  BY BoundsAre DEF StreamsInv, LegInv, LegTypes
<1> SUFFICES ASSUME NEW i, i = t.line, NEW q, q = t.from PROVE StreamsInv'
  OBVIOUS
<1>5. i \in 1..MaxLines /\ i \in 2..MaxLines
  BY <1>3
<1>6. /\ media' \in [1..MaxStreams -> StreamRecords]
      /\ \A s \in 1..MaxStreams :
            /\ media'[s].line = media[s].line /\ media'[s].sock = media[s].sock
            /\ ~(leaves /\ s = current[i]) => media'[s].room = media[s].room
  <2>1. CASE leaves
    <3>1. None \in Rooms \cup {None} /\ media' = AudioStreams!InRoom(i, None)
      BY <1>1, <2>1
    <3> HIDE DEF t, leaves
    <3> QED
      BY <1>5, <2>1, <3>1, InRoomOK DEF StreamsInv
  <2>2. CASE ~leaves
    BY <1>1, <1>4, <2>2
  <2> QED
    BY <2>1, <2>2
<1>7. /\ mixed' \in [Rooms -> SUBSET (1..MaxLines)]
      /\ \A r \in Rooms : mixed'[r] = IF leaves /\ r = q THEN mixed[r] \ {i} ELSE mixed[r]
  BY <1>1, <1>4
<1>8. Sole(i) => \A r \in Rooms : ~Mixes(r, i)'
  <2> SUFFICES ASSUME Sole(i), NEW r \in Rooms, Mixes(r, i)' PROVE FALSE
    OBVIOUS
  <2>1. Mixes(r, i) /\ ~(leaves /\ r = q)
    BY <1>1, <1>7 DEF Mixes
  <2>2. r = q
    BY <1>1, <1>3, <2>1 DEF TaskMatches
  <2>3. r # None /\ roomIs[r] = "open" /\ i \in mixed[r]
    BY <1>3, <1>4, <2>1 DEF Mixes
  <2> QED
    BY <2>1, <2>2, <2>3
<1>9. \A j \in 1..MaxLines : Sole(j)' <=> Sole(j)
  BY <1>1, <1>6 DEF Sole
<1>10. RoomsMatch'
  <2>1. \A r \in Rooms : \A j \in mixed'[r] : \E s \in 1..MaxStreams : media'[s].line = j
    BY <1>6, <1>7 DEF StreamsInv, LegInv, RoomsMatch
  <2>2. ASSUME NEW j \in 1..MaxLines, Sole(j)'
        PROVE  /\ \A r \in Rooms : Mixes(r, j)' /\ roomIs'[r] = "open" => media'[current'[j]].room = r
               /\ \A r, p \in Rooms : Mixes(r, j)' /\ Mixes(p, j)' => r = p
    <3>1. CASE j = i
      BY <1>8, <1>9, <2>2, <3>1
    <3>2. CASE j # i
      <4>1. /\ Sole(j) /\ current[j] \in 1..MaxStreams /\ current[j] # current[i]
        BY <1>4, <1>5, <1>9, <2>2, <3>2, LinesDiffer DEF Sole, StreamsInv
      <4>2. current' = current /\ media'[current[j]].room = media[current[j]].room /\ roomIs' = roomIs
        BY <1>1, <1>6, <4>1
      <4>3. \A r \in Rooms : Mixes(r, j)' <=> Mixes(r, j)
        BY <1>7, <3>2, <4>2 DEF Mixes
      <4> QED
        BY <4>1, <4>2, <4>3 DEF StreamsInv, LegInv, RoomsMatch
    <3> QED
      BY <3>1, <3>2
  <2> QED
    BY <2>1, <2>2 DEF RoomsMatch
<1>11. LegInv'
  <2>1. leg' \in {"up", "over", "gone"} /\ roomIs' \in [Rooms -> {"open", "closing", "gone"}]
    BY <1>1 DEF StreamsInv, LegInv, LegTypes
  <2> QED
    BY <1>1, <1>6, <1>7, <1>10, <2>1, RoomMoves DEF StreamsInv
<1>12. TableMatches'
  BY <1>1, <1>3, TableStays DEF StreamsInv
<1> HIDE DEF leaves
<1>13. CASE t.op = "remove"
  <2> DEFINE u == [t EXCEPT !.pc = "remove"]
  <2>1. u \in StreamTasks /\ u.pc = "remove" /\ u.line = i /\ u.op = "remove"
    BY <1>3, <1>13 DEF StreamTasks
  <2>2. AudioStreams!Goto(c, u) /\ task'[c] = u
    BY <1>2, <1>13, GoesTo
  <2> HIDE DEF u
  <2>3. TaskMatches(task[c])'
    BY <1>1, <1>3, <1>5, <2>1, <2>2 DEF TaskMatches
  <2> QED
    BY <1>3, <1>11, <1>12, <2>1, <2>2, <2>3, RequestAdvances
<1>14. CASE t.op = "detach"
  BY <1>2, <1>3, <1>11, <1>12, <1>14, IdleOK, RequestAdvances
<1>15. CASE t.op \notin {"remove", "detach"}
  <2> DEFINE u == [t EXCEPT !.pc = "join"]
  <2>1. u \in StreamTasks /\ u.pc = "join" /\ u.line = i /\ u.room \in Rooms
    BY <1>1, <1>3, <1>15 DEF StreamTasks, TaskMatches
  <2>2. AudioStreams!Goto(c, u) /\ task'[c] = u
    BY <1>2, <1>15, GoesTo
  <2> HIDE DEF u
  <2>3. TaskMatches(task[c])'
    BY <1>1, <1>3, <1>5, <1>8, <1>9, <2>1, <2>2 DEF TaskMatches
  <2> QED
    BY <1>3, <1>11, <1>12, <2>1, <2>2, <2>3, RequestAdvances
<1> QED
  BY <1>13, <1>14, <1>15

LEMMA JoinRoomOK ==
    ASSUME StreamsInv, NEW c \in Callers, AudioStreams!JoinRoom(c)
    PROVE  StreamsInv'
<1> DEFINE t == task[c]
<1> SUFFICES ASSUME NEW i, i = t.line, NEW q, q = t.room PROVE StreamsInv'
  OBVIOUS
<1> DEFINE enters == current[i] # 0 /\ media[current[i]].setUps > 0
<1>1. /\ t.pc = "join" /\ AudioStreams!Done(c)
      /\ IF enters THEN mixed' = [mixed EXCEPT ![q] = @ \cup {i}] /\ media' = AudioStreams!InRoom(i, q)
                  ELSE UNCHANGED <<mixed, media>>
      /\ UNCHANGED <<slots, current, last, roomIs, sections, offers, leg>>
  BY DEF AudioStreams!JoinRoom, AudioStreams!At
<1>2. /\ t \in StreamTasks /\ TaskMatches(t) /\ i \in 1..MaxLines /\ q \in Rooms
      /\ \A d \in Callers : d # c => task[d].pc = "idle"
      /\ \A d \in Callers : task[d].pc # "answered"
      /\ \A r \in Rooms : roomIs[r] # "closing"
      /\ Sole(i) => \A r \in Rooms : ~Mixes(r, i)
  BY <1>1, OthersAreIdle, BoundsAre DEF StreamsInv, TaskMatches
<1>3. /\ media \in [1..MaxStreams -> StreamRecords] /\ mixed \in [Rooms -> SUBSET (1..MaxLines)]
      /\ roomIs \in [Rooms -> {"open", "closing", "gone"}]
      /\ \A j \in 1..MaxLines : current[j] \in 0..MaxStreams
  BY DEF StreamsInv, LegInv, LegTypes
<1>4. CASE ~enters
  BY <1>1, <1>2, <1>4, IdleOK, LegInvStays, TableStays, RequestAdvances DEF StreamsInv
<1>5. CASE enters
  <2>1. /\ media' \in [1..MaxStreams -> StreamRecords]
        /\ \A s \in 1..MaxStreams :
              /\ media'[s].line = media[s].line /\ media'[s].sock = media[s].sock
              /\ media'[s].room = IF s = current[i] THEN q ELSE media[s].room
    BY <1>1, <1>2, <1>5, InRoomOK DEF StreamsInv
  <2>2. /\ mixed' \in [Rooms -> SUBSET (1..MaxLines)]
        /\ \A r \in Rooms : mixed'[r] = IF r = q THEN mixed[r] \cup {i} ELSE mixed[r]
    <3>1. mixed' = [mixed EXCEPT ![q] = @ \cup {i}]
      BY <1>1, <1>5
    <3>2. mixed[q] \cup {i} \in SUBSET (1..MaxLines)
      BY <1>2, <1>3
    <3> QED
      BY <1>2, <1>3, <3>1, <3>2
  <2>3. current[i] \in 1..MaxStreams /\ media[current[i]].line = i
    BY <1>2, <1>3, <1>5 DEF StreamsInv, LegInv, LegTypes, LinesMatch, FitsLines
  <2>4. \A j \in 1..MaxLines : Sole(j)' <=> Sole(j)
    BY <1>1, <2>1 DEF Sole
  <2>5. current' = current /\ roomIs' = roomIs
    BY <1>1
  <2> HIDE DEF t, enters
  <2>6. RoomsMatch'
    <3>1. \A r \in Rooms : \A j \in mixed'[r] : \E s \in 1..MaxStreams : media'[s].line = j
      BY <2>1, <2>2, <2>3 DEF StreamsInv, LegInv, RoomsMatch
    <3>2. ASSUME NEW j \in 1..MaxLines, Sole(j)'
          PROVE  /\ \A r \in Rooms : Mixes(r, j)' /\ roomIs'[r] = "open" => media'[current'[j]].room = r
                 /\ \A r, p \in Rooms : Mixes(r, j)' /\ Mixes(p, j)' => r = p
      <4>1. CASE j = i
        <5>1. \A r \in Rooms : Mixes(r, j)' => r = q
          BY <1>2, <2>2, <2>4, <2>5, <3>2, <4>1 DEF Mixes
        <5>2. media'[current'[j]].room = q
          BY <2>1, <2>3, <2>5, <4>1
        <5> QED
          BY <5>1, <5>2
      <4>2. CASE j # i
        <5>1. /\ Sole(j) /\ current[j] \in 1..MaxStreams /\ current[j] # current[i]
          BY <1>2, <1>3, <2>3, <2>4, <3>2, <4>2, LinesDiffer DEF Sole, StreamsInv
        <5>2. media'[current[j]].room = media[current[j]].room
          BY <2>1, <5>1
        <5>3. \A r \in Rooms : Mixes(r, j)' <=> Mixes(r, j)
          BY <2>2, <2>5, <4>2 DEF Mixes
        <5> QED
          BY <2>5, <5>1, <5>2, <5>3 DEF StreamsInv, LegInv, RoomsMatch
      <4> QED
        BY <4>1, <4>2
    <3> QED
      BY <3>1, <3>2 DEF RoomsMatch
  <2>7. LegInv'
    <3>1. leg' \in {"up", "over", "gone"} /\ roomIs' \in [Rooms -> {"open", "closing", "gone"}]
      BY <1>1 DEF StreamsInv, LegInv, LegTypes
    <3> QED
      BY <1>1, <2>1, <2>2, <2>6, <3>1, RoomMoves DEF StreamsInv
  <2>8. TableMatches'
    BY <1>1, <1>2, TableStays DEF StreamsInv
  <2> QED
    BY <1>1, <1>2, <2>7, <2>8, IdleOK, RequestAdvances
<1> QED
  BY <1>4, <1>5

(* The peer, the stream's own end, the leg's end and the rooms'.               *)
LEMMA TasksStay ==
    ASSUME StreamsInv, UNCHANGED task, LegInv', TableMatches',
           \A c \in Callers : TaskMatches(task[c])'
    PROVE  StreamsInv'
  BY DEF StreamsInv, OneRequest

\* A request is none the wiser when rooms mix less than they did.
LEMMA RequestIsUnmoved ==
    ASSUME NEW c \in Callers, StreamsInv,
           UNCHANGED <<task, slots, sections, current, last>>,
           media' \in [1..MaxStreams -> StreamRecords],
           \A s \in 1..MaxStreams :
              /\ media'[s].line = media[s].line /\ media'[s].heard = media[s].heard
              /\ media'[s].setUps = media[s].setUps,
           \A r \in Rooms : roomIs'[r] = "closing" => roomIs[r] = "closing",
           \A r \in Rooms : \A i \in 1..MaxLines : Mixes(r, i)' => Mixes(r, i)
    PROVE  TaskMatches(task[c])'
<1> DEFINE t == task[c]
<1>1. TaskMatches(t) /\ t \in StreamTasks /\ last \in 1..MaxStreams
  BY DEF StreamsInv, LegInv, LegTypes
<1>2. ASSUME InOffer(t) PROVE InOffer(task[c])'
  <2>1. task'[c] = t /\ slots' = slots /\ current' = current /\ last' = last
    OBVIOUS
  <2>2. t.op = "add" => t.stream \in 1..MaxStreams
    <3>1. t.op = "add" => t.stream \in 1..last
      BY <1>2 DEF InOffer
    <3>2. 1..last \subseteq 1..MaxStreams
      BY <1>1, BoundsAre
    <3> HIDE DEF t
    <3> QED
      BY <3>1, <3>2
  <2> HIDE DEF t
  <2> QED
    BY <1>2, <2>1, <2>2 DEF InOffer
<1>3. OfferMatches(t.body) => OfferMatches(task[c].body)'
  <2>1. \A i \in DOMAIN t.body : t.body[i] \in 0..MaxStreams
    BY <1>1, TableFacts DEF StreamTasks
  <2>2. FitsLines(t.body) => FitsLines(task[c].body)'
    BY <2>1 DEF FitsLines
  <2> QED
    BY <2>2 DEF OfferMatches
<1>4. ASSUME t.pc # "idle", Sole(t.line)' PROVE Sole(t.line) /\ t.line \in 1..MaxLines
  <2>1. t.line \in 1..MaxLines
    BY <1>1, <1>4, BoundsAre DEF TaskMatches
  <2> QED
    BY <1>4, <2>1 DEF Sole
<1> QED
  BY <1>1, <1>2, <1>3, <1>4 DEF TaskMatches

LEMMA HangupOK == StreamsInv /\ AudioStreams!Hangup => StreamsInv'
<1> SUFFICES ASSUME StreamsInv, AudioStreams!Hangup PROVE StreamsInv'
  OBVIOUS
<1>1. /\ leg' = "over"
      /\ media' = [s \in 1..MaxStreams |-> IF \E i \in 1..MaxLines : current[i] = s
                                           THEN [media[s] EXCEPT !.sock = "closed"] ELSE media[s]]
      /\ UNCHANGED <<slots, current, last, mixed, roomIs, sections, offers, task>>
  BY DEF AudioStreams!Hangup, AudioStreams!Streams, AudioStreams!Lines, AudioStreams!roomVars
<1>2. media \in [1..MaxStreams -> StreamRecords]
  BY DEF StreamsInv, LegInv, LegTypes
<1>3. \A s \in 1..MaxStreams :
          /\ media'[s] \in StreamRecords
          /\ media'[s].line = media[s].line /\ media'[s].room = media[s].room
          /\ media'[s].heard = media[s].heard /\ media'[s].setUps = media[s].setUps
          /\ media'[s].sock = "open" => media[s].sock = "open"
  BY <1>1, <1>2 DEF StreamRecords
<1>4. media' \in [1..MaxStreams -> StreamRecords]
  BY <1>1, <1>3
<1>5. LegInv'
  BY <1>1, <1>3, <1>4, MediaChanges DEF StreamsInv
<1>6. TableMatches'
  <2>1. \A c \in Callers : \A i \in 1..Len(sections) : Refuses(task[c], i) => Refuses(task[c], i)'
    <3> SUFFICES ASSUME NEW c \in Callers, NEW i \in 1..Len(sections), Refuses(task[c], i)
                 PROVE  Refuses(task[c], i)'
      OBVIOUS
    <3>1. task[c].stream \in 1..MaxStreams
      BY DEF StreamsInv, TaskMatches, InOffer, Refuses, LegInv, LegTypes
    <3> QED
      BY <1>1, <1>3, <3>1 DEF Refuses
  <2> QED
    BY <1>1, <2>1 DEF StreamsInv, TableMatches
<1>7. ASSUME NEW c \in Callers PROVE TaskMatches(task[c])'
  BY <1>1, <1>3, <1>4, RequestIsUnmoved DEF Mixes
<1> QED
  BY <1>1, <1>5, <1>6, <1>7, TasksStay

LEMMA DetachLegStreamsOK == StreamsInv /\ AudioStreams!DetachLegStreams => StreamsInv'
<1> DEFINE Named(i, r) == /\ current[i] # 0 /\ media[current[i]].room = r
                          /\ roomIs[r] = "open" /\ i \in mixed[r]
<1> SUFFICES ASSUME StreamsInv, AudioStreams!DetachLegStreams PROVE StreamsInv'
  OBVIOUS
<1>1. /\ leg' = "gone"
      /\ mixed' = [r \in Rooms |-> {i \in mixed[r] : ~Named(i, r)}]
      /\ media' = [s \in 1..MaxStreams |->
             IF \E i \in 1..MaxLines : current[i] = s /\ \E r \in Rooms : Named(i, r)
             THEN [media[s] EXCEPT !.room = None] ELSE media[s]]
      /\ UNCHANGED <<slots, current, last, roomIs, sections, offers, task>>
  <2> DEFINE named(i) == {r \in Rooms : /\ current[i] # 0 /\ media[current[i]].room = r
                                        /\ roomIs[r] = "open" /\ i \in mixed[r]}
  <2>1. /\ mixed' = [r \in Rooms |-> {i \in mixed[r] : r \notin named(i)}]
        /\ media' = [s \in 1..MaxStreams |->
             IF \E i \in 1..MaxLines : current[i] = s /\ named(i) # {}
             THEN [media[s] EXCEPT !.room = None] ELSE media[s]]
        /\ leg' = "gone"
        /\ UNCHANGED <<slots, current, last, roomIs, sections, offers, task>>
    BY DEF AudioStreams!DetachLegStreams, AudioStreams!Streams, AudioStreams!Lines
  <2>2. /\ \A r \in Rooms : \A i : r \in named(i) <=> Named(i, r)
        /\ \A i : named(i) # {} <=> \E r \in Rooms : Named(i, r)
    OBVIOUS
  <2> HIDE DEF named, Named
  <2> QED
    BY <2>1, <2>2
<1>2. /\ media \in [1..MaxStreams -> StreamRecords] /\ mixed \in [Rooms -> SUBSET (1..MaxLines)]
      /\ roomIs \in [Rooms -> {"open", "closing", "gone"}]
      /\ \A j \in 1..MaxLines : current[j] \in 0..MaxStreams
  BY DEF StreamsInv, LegInv, LegTypes
<1>3. \A s \in 1..MaxStreams :
          /\ media'[s] \in StreamRecords
          /\ media'[s].line = media[s].line /\ media'[s].sock = media[s].sock
          /\ media'[s].heard = media[s].heard /\ media'[s].setUps = media[s].setUps
          /\ (\A i \in 1..MaxLines : current[i] = s => \A r \in Rooms : ~Named(i, r))
                => media'[s].room = media[s].room
  BY <1>1, <1>2 DEF StreamRecords
<1>4. media' \in [1..MaxStreams -> StreamRecords]
  BY <1>1, <1>3
<1>5. /\ mixed' \in [Rooms -> SUBSET (1..MaxLines)]
      /\ \A r \in Rooms : mixed'[r] \subseteq mixed[r] /\ \A i \in mixed'[r] : ~Named(i, r)
  BY <1>1, <1>2
<1>6. RoomsMatch'
  <2>1. \A r \in Rooms : \A j \in mixed'[r] : \E s \in 1..MaxStreams : media'[s].line = j
    BY <1>3, <1>5 DEF StreamsInv, LegInv, RoomsMatch
  <2>2. ASSUME NEW j \in 1..MaxLines, Sole(j)'
        PROVE  /\ \A r \in Rooms : Mixes(r, j)' /\ roomIs'[r] = "open" => media'[current'[j]].room = r
               /\ \A r, p \in Rooms : Mixes(r, j)' /\ Mixes(p, j)' => r = p
    <3>1. Sole(j)
      BY <1>1, <1>3, <2>2 DEF Sole
    <3>2. \A r \in Rooms : Mixes(r, j)' => Mixes(r, j)
      BY <1>1, <1>5 DEF Mixes
    <3>3. ASSUME NEW r \in Rooms, Mixes(r, j)', roomIs'[r] = "open" PROVE FALSE
      <4>1. roomIs[r] = "open" /\ Mixes(r, j) /\ j \in mixed'[r] /\ j \in mixed[r]
        BY <1>1, <3>2, <3>3, <1>5 DEF Mixes
      <4>2. media[current[j]].room = r /\ current[j] # 0
        BY <3>1, <4>1 DEF StreamsInv, LegInv, RoomsMatch, Sole
      <4> QED
        BY <1>5, <4>1, <4>2
    <3> QED
      BY <3>1, <3>2, <3>3 DEF StreamsInv, LegInv, RoomsMatch
  <2> QED
    BY <2>1, <2>2 DEF RoomsMatch
<1> HIDE DEF Named
<1>7. LegInv'
  <2>1. leg' \in {"up", "over", "gone"} /\ roomIs' \in [Rooms -> {"open", "closing", "gone"}]
    BY <1>1, <1>2
  <2> QED
    BY <1>1, <1>3, <1>4, <1>5, <1>6, <2>1, RoomMoves DEF StreamsInv
<1>8. TableMatches'
  <2>1. \A c \in Callers : \A i \in 1..Len(sections) : Refuses(task[c], i) => Refuses(task[c], i)'
    <3> SUFFICES ASSUME NEW c \in Callers, NEW i \in 1..Len(sections), Refuses(task[c], i)
                 PROVE  Refuses(task[c], i)'
      OBVIOUS
    <3>1. task[c].stream \in 1..MaxStreams
      BY DEF StreamsInv, TaskMatches, InOffer, Refuses, LegInv, LegTypes
    <3> QED
      BY <1>1, <1>3, <3>1 DEF Refuses
  <2> QED
    BY <1>1, <2>1 DEF StreamsInv, TableMatches
<1>9. ASSUME NEW c \in Callers PROVE TaskMatches(task[c])'
  BY <1>1, <1>3, <1>4, <1>5, RequestIsUnmoved DEF Mixes
<1> QED
  BY <1>1, <1>7, <1>8, <1>9, TasksStay

LEMMA DeleteRoomOK ==
    ASSUME StreamsInv, NEW r \in Rooms, AudioStreams!DeleteRoom(r)
    PROVE  StreamsInv'
<1>1. /\ roomIs[r] = "open" /\ roomIs' = [roomIs EXCEPT ![r] = "closing"]
      /\ \A c \in Callers : task[c].pc = "idle"
      /\ UNCHANGED <<slots, current, media, last, mixed, sections, offers, leg, task>>
  BY DEF AudioStreams!DeleteRoom, AudioStreams!At, AudioStreams!legVars
<1>2. /\ roomIs' \in [Rooms -> {"open", "closing", "gone"}]
      /\ \A q \in Rooms : \A i : Mixes(q, i)' <=> Mixes(q, i)
      /\ \A q \in Rooms : roomIs'[q] = "open" => roomIs[q] = "open"
  BY <1>1 DEF StreamsInv, LegInv, LegTypes, Mixes
<1>3. RoomsMatch'
  BY <1>1, <1>2 DEF StreamsInv, LegInv, RoomsMatch, Sole
<1>4. LegInv'
  BY <1>1, <1>2, <1>3
     DEF StreamsInv, LegInv, LegTypes, LinesMatch, FitsLines, SocketsMatch
<1>5. TableMatches'
  BY <1>1, TableStays DEF StreamsInv
<1>6. ASSUME NEW c \in Callers PROVE TaskMatches(task[c])'
  BY <1>1 DEF TaskMatches
<1> QED
  BY <1>1, <1>4, <1>5, <1>6, TasksStay

LEMMA CloseRoomOK ==
    ASSUME StreamsInv, NEW r \in Rooms, AudioStreams!CloseRoom(r)
    PROVE  StreamsInv'
<1>1. /\ roomIs[r] = "closing" /\ roomIs' = [roomIs EXCEPT ![r] = "gone"]
      /\ mixed' = [mixed EXCEPT ![r] = {}]
      /\ media' = [s \in 1..MaxStreams |->
             IF \E i \in mixed[r] : current[i] = s THEN [media[s] EXCEPT !.room = None]
                                                   ELSE media[s]]
      /\ UNCHANGED <<slots, current, last, sections, offers, leg, task>>
  BY DEF AudioStreams!CloseRoom, AudioStreams!Streams
<1>2. /\ media \in [1..MaxStreams -> StreamRecords] /\ mixed \in [Rooms -> SUBSET (1..MaxLines)]
      /\ roomIs \in [Rooms -> {"open", "closing", "gone"}]
      /\ \A j \in 1..MaxLines : current[j] \in 0..MaxStreams
  BY DEF StreamsInv, LegInv, LegTypes
<1>3. \A c \in Callers : task[c].pc = "idle"
  BY <1>1 DEF StreamsInv, TaskMatches
<1>4. \A s \in 1..MaxStreams :
          /\ media'[s] \in StreamRecords
          /\ media'[s].line = media[s].line /\ media'[s].sock = media[s].sock
          /\ (\A i \in mixed[r] : current[i] # s) => media'[s].room = media[s].room
  BY <1>1, <1>2 DEF StreamRecords
<1>5. media' \in [1..MaxStreams -> StreamRecords]
  BY <1>1, <1>4
<1>6. /\ roomIs' \in [Rooms -> {"open", "closing", "gone"}]
      /\ mixed' \in [Rooms -> SUBSET (1..MaxLines)]
      /\ \A q \in Rooms : q # r => mixed'[q] = mixed[q] /\ roomIs'[q] = roomIs[q]
      /\ mixed'[r] = {}
  BY <1>1, <1>2
<1>7. RoomsMatch'
  <2>1. \A q \in Rooms : \A j \in mixed'[q] : \E s \in 1..MaxStreams : media'[s].line = j
    BY <1>4, <1>6 DEF StreamsInv, LegInv, RoomsMatch
  <2>2. ASSUME NEW j \in 1..MaxLines, Sole(j)'
        PROVE  /\ \A q \in Rooms : Mixes(q, j)' /\ roomIs'[q] = "open" => media'[current'[j]].room = q
               /\ \A q, p \in Rooms : Mixes(q, j)' /\ Mixes(p, j)' => q = p
    <3>1. Sole(j) /\ current' = current /\ current[j] \in 1..MaxStreams
      BY <1>1, <1>2, <1>4, <2>2 DEF Sole
    <3>2. \A q \in Rooms : Mixes(q, j)' => Mixes(q, j) /\ q # r /\ roomIs'[q] = roomIs[q]
      BY <1>6 DEF Mixes
    <3>3. ASSUME NEW q \in Rooms, Mixes(q, j)', roomIs'[q] = "open"
          PROVE  media'[current'[j]].room = q
      <4>1. Mixes(q, j) /\ q # r /\ roomIs[q] = "open" /\ media[current[j]].room = q
        BY <3>1, <3>2, <3>3 DEF StreamsInv, LegInv, RoomsMatch
      <4>2. ASSUME NEW i \in mixed[r], current[i] = current[j] PROVE FALSE
        <5>1. i \in 1..MaxLines /\ current[j] # 0
          BY <1>2, <3>1
        <5>2. i = j
          BY <4>2, <5>1, LinesDiffer DEF StreamsInv
        <5>3. Mixes(r, j)
          BY <1>1, <5>2 DEF Mixes
        <5> QED
          BY <3>1, <4>1, <5>3 DEF StreamsInv, LegInv, RoomsMatch
      <4> QED
        BY <1>4, <3>1, <4>1, <4>2
    <3> QED
      BY <3>1, <3>2, <3>3 DEF StreamsInv, LegInv, RoomsMatch
  <2> QED
    BY <2>1, <2>2 DEF RoomsMatch
<1>8. LegInv'
  <2>1. leg' \in {"up", "over", "gone"}
    BY <1>1 DEF StreamsInv, LegInv, LegTypes
  <2> QED
    BY <1>1, <1>4, <1>5, <1>6, <1>7, <2>1, RoomMoves DEF StreamsInv
<1>9. TableMatches'
  BY <1>1, <1>3, TableStays DEF StreamsInv
<1>10. ASSUME NEW c \in Callers PROVE TaskMatches(task[c])'
  BY <1>1, <1>3 DEF TaskMatches
<1> QED
  BY <1>1, <1>8, <1>9, <1>10, TasksStay

LEMMA StreamEndsOK ==
    ASSUME StreamsInv, NEW i \in 1..MaxLines, AudioStreams!StreamEnds(i)
    PROVE  StreamsInv'
<1> SUFFICES ASSUME NEW s, s = current[i] PROVE StreamsInv'
  OBVIOUS
<1>1. /\ i # 1 /\ s # 0 /\ media[s].setUps > 0
      /\ AudioStreams!CloseStream(s, slots)
      /\ UNCHANGED <<last, mixed, roomIs, sections, offers, leg, task>>
  BY DEF AudioStreams!StreamEnds, AudioStreams!roomVars
<1>2. /\ s \in 1..last /\ s \in 1..MaxStreams /\ media[s].line = i /\ i \in 2..MaxLines
      /\ slots \in TableSet /\ sections \in TableSet
      /\ media \in [1..MaxStreams -> StreamRecords]
      /\ current \in [1..MaxLines -> 0..MaxStreams]
  BY <1>1 DEF StreamsInv, LegInv, LegTypes, LinesMatch, FitsLines
<1>3. slots = <<>> => slots \in {<<>>, <<1>>}
  OBVIOUS
<1>4. /\ LegInv' /\ Len(slots') = Len(slots)
      /\ \A j \in 1..Len(slots) : slots'[j] = IF j = i THEN 0 ELSE slots[j]
      /\ current' = [current EXCEPT ![i] = 0]
      /\ media' = [media EXCEPT ![s].sock = "closed"]
  BY <1>1, <1>2, <1>3, CloseOK DEF StreamsInv
<1>5. /\ \A t \in 1..MaxStreams :
            /\ media'[t].line = media[t].line /\ media'[t].heard = media[t].heard
            /\ media'[t].setUps = media[t].setUps
      /\ \A j \in 1..MaxLines : j # i => current'[j] = current[j]
      /\ current'[i] = 0
  BY <1>2, <1>4 DEF StreamRecords
<1>6. /\ Len(slots) \in Nat /\ Len(sections) \in Nat /\ (slots = <<>> <=> slots' = <<>>)
  <2>1. slots' \in TableSet
    BY <1>4 DEF LegInv, LegTypes
  <2> QED
    BY <1>2, <1>4, <2>1, TableFacts
<1>7. ASSUME NEW c \in Callers PROVE /\ task[c].pc = "answered" => task[c].stream \in 1..MaxStreams
                                     /\ task[c] \in StreamTasks /\ TaskMatches(task[c])
  BY <1>7 DEF StreamsInv, TaskMatches, InOffer, LegInv, LegTypes
<1>8. TableMatches'
  <2>1. \A c \in Callers : \A j \in 1..Len(sections) : Refuses(task[c], j) => Refuses(task[c], j)'
    BY <1>1, <1>5, <1>7 DEF Refuses
  <2>2. CASE slots = <<>>
    BY <1>1, <1>6, <2>2 DEF StreamsInv, TableMatches
  <2>3. CASE slots # <<>>
    BY <1>1, <1>4, <1>6, <2>1, <2>3 DEF StreamsInv, TableMatches
  <2> QED
    BY <2>2, <2>3
<1>9. ASSUME NEW c \in Callers PROVE TaskMatches(task[c])'
  <2> DEFINE t == task[c]
  <2>1. TaskMatches(t) /\ t \in StreamTasks /\ task'[c] = t
    BY <1>1, <1>7
  <2>2. ASSUME InOffer(t), t.pc # "idle" PROVE InOffer(task[c])'
    <3>1. t.op = "add" => t.stream \in 1..MaxStreams /\ t.line # i /\ t.line \in 1..MaxLines
      BY <1>1, <1>2, <2>1, <2>2, BoundsAre DEF InOffer, TaskMatches
    <3> HIDE DEF t
    <3> QED
      BY <1>1, <1>5, <1>6, <2>1, <2>2, <3>1 DEF InOffer
  <2>3. ASSUME OfferMatches(t.body) PROVE OfferMatches(task[c].body)'
    <3>1. /\ \A j \in DOMAIN t.body : t.body[j] \in 0..MaxStreams
          /\ Len(t.body) \in Nat
      BY <2>1, TableFacts DEF StreamTasks
    <3> HIDE DEF t
    <3>2. \A j \in DOMAIN t.body : t.body[j] # 0 => t.body[j] <= last' /\ media'[t.body[j]].line = j
      BY <1>1, <1>5, <2>3, <3>1 DEF FitsLines, OfferMatches
    <3>3. /\ Len(sections) <= Len(t.body) /\ Len(t.body) <= Len(slots')
          /\ \A j \in 1..Len(sections) : sections[j] = 0 => t.body[j] = 0
          /\ \A j \in 1..Len(t.body) : t.body[j] = 0 => slots'[j] = 0
      BY <1>4, <1>6, <2>3, <3>1 DEF OfferMatches
    <3> QED
      BY <1>1, <2>1, <3>2, <3>3 DEF OfferMatches, FitsLines
  <2>4. ASSUME t.pc # "idle", Sole(t.line)' PROVE Sole(t.line)
    <3>1. t.line \in 1..MaxLines
      BY <2>1, <2>4, BoundsAre DEF TaskMatches
    <3> QED
      BY <1>5, <2>1, <2>4, <3>1 DEF Sole
  <2> QED
    BY <1>1, <2>1, <2>2, <2>3, <2>4 DEF TaskMatches, Mixes
<1> QED
  BY <1>1, <1>4, <1>8, <1>9, TasksStay

\* The place of a number among those of a finite set: 1, 2, ... in their order.
UpTo(S, i) == {j \in S : j <= i}
Rank(S, i) == Cardinality(UpTo(S, i))

LEMMA RanksDiffer ==
    ASSUME NEW S, IsFiniteSet(S), S \subseteq Nat, NEW i \in S
    PROVE  /\ Cardinality(S) \in Nat /\ Rank(S, i) \in 1..Cardinality(S)
           /\ \A k \in S : Rank(S, k) = Rank(S, i) => k = i
<1>1. ASSUME NEW k \in S
      PROVE  IsFiniteSet(UpTo(S, k)) /\ Rank(S, k) <= Cardinality(S) /\ UpTo(S, k) # {}
  <2>1. UpTo(S, k) \subseteq S /\ k \in UpTo(S, k)
    BY DEF UpTo
  <2> QED
    BY <2>1, FS_Subset DEF Rank
<1>2. ASSUME NEW k \in S PROVE Rank(S, k) \in Nat /\ Rank(S, k) # 0
  BY <1>1, FS_CardinalityType, FS_EmptySet DEF Rank
<1>3. Cardinality(S) \in Nat
  BY FS_CardinalityType
<1>4. ASSUME NEW k \in S, NEW l \in S, k < l PROVE Rank(S, k) # Rank(S, l)
  <2>1. UpTo(S, k) \subseteq UpTo(S, l)
    <3> SUFFICES ASSUME NEW j \in S, j <= k PROVE j <= l
      BY DEF UpTo
    <3>1. j \in Nat /\ k \in Nat /\ l \in Nat
      OBVIOUS
    <3> QED
      BY <1>4, <3>1
  <2>2. l \in UpTo(S, l) /\ l \notin UpTo(S, k)
    BY <1>4 DEF UpTo
  <2>3. IsFiniteSet(UpTo(S, l)) /\ UpTo(S, k) \in SUBSET UpTo(S, l)
    BY <1>1, <2>1
  <2> QED
    BY <2>2, <2>3, FS_Subset DEF Rank
<1>5. ASSUME NEW k \in S, Rank(S, k) = Rank(S, i) PROVE k = i
  <2>1. k \in Nat /\ i \in Nat /\ ~(k < i) /\ ~(i < k)
    BY <1>4, <1>5
  <2> QED
    BY <2>1
<1>6. Rank(S, i) \in 1..Cardinality(S)
  BY <1>1, <1>2, <1>3
<1> QED
  BY <1>3, <1>5, <1>6

\* What an offer of the peer changes, place by place: the sections it disables lose their
\* streams, and those it opens get streams nobody has yet.
OfferChanges(n, off, fresh, new, now) ==
    /\ last' \in last..MaxStreams
    /\ off \subseteq 1..n /\ fresh \subseteq (1..n) \ off
    /\ \A i \in fresh : current[i] = 0
    /\ \A i \in 1..n : i \notin off /\ i \notin fresh => current[i] # 0
    /\ \A i \in fresh : new[i] \in (last + 1)..last'
    /\ \A i, j \in fresh : new[i] = new[j] => i = j
    /\ \A i \in 1..MaxLines :
          /\ i \in fresh => now[i] = new[i]
          /\ i \in off => now[i] = 0
          /\ i \notin fresh /\ i \notin off => now[i] = current[i]
    /\ current' = [i \in 1..MaxLines |-> now[i]]
    /\ slots' = [i \in 1 .. IF n > Len(slots) THEN n ELSE Len(slots) |->
                    IF i \in (1..n) \ off THEN now[i] ELSE IF i \in off THEN 0 ELSE slots[i]]
    /\ sections' = [i \in 1..n |-> IF i \in (1..n) \ off THEN now[i] ELSE 0]
    /\ media' \in [1..MaxStreams -> StreamRecords]
    /\ \A i \in fresh : media'[new[i]].line = i /\ media'[new[i]].room = None
    /\ \A s \in 1..MaxStreams : (\A i \in fresh : s # new[i]) =>
          /\ media'[s].line = media[s].line /\ media'[s].room = media[s].room
          /\ media'[s].sock = "open" =>
                media[s].sock = "open" /\ \A i \in off : current[i] # s

LEMMA OfferChangesOK ==
    ASSUME StreamsInv, NEW n \in Nat, n <= MaxLines, Len(sections) <= n,
           NEW off, NEW fresh, NEW new, NEW now, OfferChanges(n, off, fresh, new, now),
           \A c \in Callers : task[c].pc \notin {"offer", "sent", "answered"},
           offers' \in 0..MaxOffers, UNCHANGED <<mixed, roomIs, leg, task>>
    PROVE  StreamsInv'
<1>4. /\ media \in [1..MaxStreams -> StreamRecords] /\ current \in [1..MaxLines -> 0..MaxStreams]
      /\ last \in 1..MaxStreams /\ slots \in TableSet /\ sections \in TableSet
      /\ Len(slots) \in Nat /\ Len(sections) \in Nat /\ Len(slots) <= MaxLines
      /\ MaxStreams \in Nat /\ MaxLines \in Nat
      /\ \A i \in 1..Len(slots) : slots[i] \in 0..MaxStreams
      /\ DOMAIN slots = 1..Len(slots)
  BY TableFacts, BoundsAre DEF StreamsInv, LegInv, LegTypes
<1>5. /\ \A i \in fresh : i \in 1..n /\ i \in 1..MaxLines /\ i \notin off
      /\ \A i \in off : i \in 1..n /\ i \in 1..MaxLines
      /\ \A i \in 1..n : i \notin off /\ i \notin fresh => current[i] # 0
  BY <1>4 DEF OfferChanges
<1>7. /\ \A i \in fresh : /\ new[i] \in Nat /\ new[i] > last /\ new[i] <= last'
                          /\ new[i] \in 1..MaxStreams
      /\ last' \in 1..MaxStreams /\ last' >= last
  BY <1>4 DEF OfferChanges
<1>8. \A i \in 1..MaxLines : current[i] # 0 =>
          current[i] \in 1..last /\ current[i] \in 1..MaxStreams /\ media[current[i]].line = i
  BY <1>4 DEF StreamsInv, LegInv, LinesMatch, FitsLines
<1>9. \A i \in 1..MaxLines :
          /\ i \in fresh => now[i] = new[i]
          /\ i \in off => now[i] = 0
          /\ i \notin fresh /\ i \notin off => now[i] = current[i]
  BY DEF OfferChanges
<1>10. \A i \in fresh : media'[new[i]].line = i /\ media'[new[i]].room = None
  BY DEF OfferChanges
<1>11. \A s \in 1..MaxStreams : (\A i \in fresh : s # new[i]) =>
          /\ media'[s].line = media[s].line /\ media'[s].room = media[s].room
          /\ media'[s].sock = "open" =>
                media[s].sock = "open" /\ \A i \in off : current[i] # s
  BY DEF OfferChanges
<1>12. \A s \in 1..last : s \in 1..MaxStreams /\ \A i \in fresh : s # new[i]
  BY <1>4, <1>7
<1>2. \A i \in 1..MaxLines : now[i] \in 0..MaxStreams
  BY <1>4, <1>7, <1>9
<1>3. /\ current' = [i \in 1..MaxLines |-> now[i]] /\ DOMAIN current' = 1..MaxLines
      /\ \A i \in 1..MaxLines : current'[i] = now[i]
  BY DEF OfferChanges
<1>13. /\ slots' \in TableSet /\ sections' \in TableSet
       /\ Len(sections') = n /\ Len(slots') >= n /\ Len(slots') >= Len(slots) /\ Len(slots') \in Nat
       /\ \A i \in 1..Len(slots') : i <= n \/ i <= Len(slots)
       /\ \A i \in 1..n : sections'[i] = IF i \in off THEN 0 ELSE now[i]
       /\ \A i \in 1..Len(slots') : slots'[i] = IF i \in off THEN 0
                                                ELSE IF i <= n THEN now[i] ELSE slots[i]
       /\ DOMAIN slots' = 1..Len(slots')
  <2> DEFINE m == IF n > Len(slots) THEN n ELSE Len(slots)
  <2>1. m \in Nat /\ m <= MaxLines /\ m >= n /\ m >= Len(slots) /\ (m = n \/ m = Len(slots))
    BY <1>4
  <2>3. slots' = [i \in 1..m |-> IF i \in (1..n) \ off THEN now[i] ELSE IF i \in off THEN 0 ELSE slots[i]]
    BY DEF OfferChanges
  <2>0. sections' = [i \in 1..n |-> IF i \in (1..n) \ off THEN now[i] ELSE 0]
    BY DEF OfferChanges
  <2> HIDE DEF m
  <2>2. ASSUME NEW i \in 1..m
        PROVE  /\ (i \in (1..n) \ off <=> i <= n /\ i \notin off)
               /\ i \in off => i <= n
               /\ i <= n \/ i \in 1..Len(slots)
               /\ i \in 1..MaxLines
    <3>1. i \in Nat /\ i >= 1 /\ i <= m
      BY <2>1
    <3>2. i \in 1..n <=> i <= n
      BY <3>1
    <3>3. i \in off => i <= n
      BY <1>5, <3>2
    <3>4. i <= n \/ i <= Len(slots)
      BY <2>1, <3>1
    <3>5. i <= n \/ i \in 1..Len(slots)
      BY <1>4, <3>1, <3>4
    <3>6. i \in 1..MaxLines
      BY <2>1, <3>1, BoundsAre
    <3> QED
      BY <3>2, <3>3, <3>5, <3>6
  <2>4. slots' \in [1..m -> 0..MaxStreams]
    <3>1. ASSUME NEW i \in 1..m
          PROVE  (IF i \in (1..n) \ off THEN now[i] ELSE IF i \in off THEN 0 ELSE slots[i]) \in 0..MaxStreams
      BY <1>2, <1>4, <2>2
    <3> QED
      BY <2>3, <3>1
  <2>5. sections' \in [1..n -> 0..MaxStreams]
    <3>1. ASSUME NEW i \in 1..n
          PROVE  (IF i \in (1..n) \ off THEN now[i] ELSE 0) \in 0..MaxStreams
      <4>1. i \in 1..MaxLines
        BY <1>4
      <4> QED
        BY <1>2, <1>4, <4>1
    <3> QED
      BY <2>0, <3>1
  <2>6. slots' \in TableSet /\ Len(slots') = m
    BY <2>1, <2>4, IsTable
  <2>7. sections' \in TableSet /\ Len(sections') = n
    BY <1>4, <2>5, IsTable
  <2>8. DOMAIN slots' = 1..m
    BY <2>4
  <2>9. \A i \in 1..n : sections'[i] = IF i \in off THEN 0 ELSE now[i]
    BY <2>0
  <2>10. \A i \in 1..m : slots'[i] = IF i \in off THEN 0 ELSE IF i <= n THEN now[i] ELSE slots[i]
    BY <2>2, <2>3
  <2> QED
    BY <2>1, <2>2, <2>6, <2>7, <2>8, <2>9, <2>10
<1>14. LegTypes'
  <2>1. media' \in [1..MaxStreams -> StreamRecords]
    BY DEF OfferChanges
  <2>2. current' \in [1..MaxLines -> 0..MaxStreams]
    BY <1>2, <1>3
  <2> QED
    BY <1>7, <1>13, <2>1, <2>2 DEF StreamsInv, LegInv, LegTypes
<1>15. \A i \in 1..MaxLines : now[i] # 0 => now[i] <= last' /\ media'[now[i]].line = i
  <2> SUFFICES ASSUME NEW i \in 1..MaxLines, now[i] # 0
               PROVE  now[i] <= last' /\ media'[now[i]].line = i
    OBVIOUS
  <2>1. CASE i \in fresh
    BY <1>7, <1>9, <1>10, <2>1
  <2>2. CASE i \notin fresh
    <3>1. now[i] = current[i] /\ current[i] # 0
      BY <1>9, <2>2
    <3>2. current[i] \in 1..last /\ media[current[i]].line = i /\ current[i] \in 1..MaxStreams
      BY <1>8, <3>1
    <3>3. media'[current[i]].line = i
      BY <1>11, <1>12, <3>2
    <3> QED
      BY <1>4, <1>7, <3>1, <3>2, <3>3
  <2> QED
    BY <2>1, <2>2
<1>16. LinesMatch'
  <2>1. FitsLines(current)'
    BY <1>3, <1>15 DEF FitsLines
  <2>2. FitsLines(slots)'
    <3> SUFFICES ASSUME NEW i \in 1..Len(slots'), slots'[i] # 0
                 PROVE  slots'[i] <= last' /\ media'[slots'[i]].line = i
      BY <1>13 DEF FitsLines
    <3>1. CASE i <= n
      <4>1. i \in 1..MaxLines /\ slots'[i] = now[i]
        BY <1>4, <1>13, <3>1
      <4> QED
        BY <1>15, <4>1
    <3>2. CASE ~(i <= n)
      <4>0. slots'[i] = slots[i] /\ i <= Len(slots)
        BY <1>13, <3>2
      <4>1. /\ slots'[i] = slots[i] /\ i \in 1..Len(slots)
        BY <1>4, <1>13, <4>0
      <4>2. /\ slots[i] \in 1..last /\ slots[i] \in 1..MaxStreams /\ media[slots[i]].line = i
        <5>1. slots[i] \in 0..MaxStreams /\ i \in DOMAIN slots /\ slots[i] # 0
          BY <1>4, <4>1
        <5>2. slots[i] <= last /\ media[slots[i]].line = i
          BY <5>1 DEF StreamsInv, LegInv, LinesMatch, FitsLines
        <5> QED
          BY <1>4, <5>1, <5>2
      <4>3. media'[slots[i]].line = i
        BY <1>11, <1>12, <4>2
      <4> QED
        BY <1>4, <1>7, <4>1, <4>2, <4>3
    <3> QED
      BY <3>1, <3>2
  <2>3. \A s \in 1..MaxStreams : s > last' => media'[s].line = 0 /\ media'[s].sock # "open"
    <3> SUFFICES ASSUME NEW s \in 1..MaxStreams, s > last'
                 PROVE  media'[s].line = 0 /\ media'[s].sock # "open"
      OBVIOUS
    <3>1. \A i \in fresh : s # new[i]
      BY <1>4, <1>7
    <3>2. s > last
      BY <1>4, <1>7
    <3> QED
      BY <1>11, <3>1, <3>2 DEF StreamsInv, LegInv, LinesMatch
  <2>4. media'[1].line = 1
    <3>1. 1 \in 1..last /\ 1 \in 1..MaxStreams
      BY <1>4
    <3> QED
      BY <1>11, <1>12, <3>1 DEF StreamsInv, LegInv, LinesMatch
  <2> QED
    BY <2>1, <2>2, <2>3, <2>4 DEF LinesMatch
<1>17. SocketsMatch'
  <2> SUFFICES ASSUME NEW s \in 1..MaxStreams, media'[s].sock = "open", media'[s].line # 1
               PROVE  /\ media'[s].line # 0 /\ current'[media'[s].line] = s
                      /\ media'[s].line <= Len(slots') /\ slots'[media'[s].line] = s
    BY DEF SocketsMatch
  <2>1. ASSUME NEW i \in fresh, s = new[i]
        PROVE  /\ media'[s].line # 0 /\ current'[media'[s].line] = s
               /\ media'[s].line <= Len(slots') /\ slots'[media'[s].line] = s
    <3>1. media'[s].line = i /\ i \in 1..n /\ i \in 1..MaxLines /\ i \notin off
      BY <1>5, <1>10, <2>1
    <3>2. now[i] = s /\ i \in 1..Len(slots') /\ i <= n /\ i # 0
      BY <1>9, <1>13, <2>1, <3>1
    <3>3. slots'[i] = s /\ current'[i] = s
      BY <1>3, <1>13, <3>1, <3>2
    <3> QED
      BY <1>13, <3>1, <3>2, <3>3
  <2>2. ASSUME \A i \in fresh : s # new[i]
        PROVE  /\ media'[s].line # 0 /\ current'[media'[s].line] = s
               /\ media'[s].line <= Len(slots') /\ slots'[media'[s].line] = s
    <3>1. /\ media'[s].line = media[s].line /\ media[s].sock = "open"
          /\ \A i \in off : current[i] # s
      BY <1>11, <2>2
    <3> SUFFICES ASSUME NEW i, i = media[s].line
                 PROVE  i # 0 /\ current'[i] = s /\ i <= Len(slots') /\ slots'[i] = s
      BY <3>1
    <3>2. i \in 0..MaxLines
      BY <1>4 DEF StreamRecords
    <3>3. i # 0 /\ current[i] = s /\ i <= Len(slots) /\ slots[i] = s
      BY <3>1 DEF StreamsInv, LegInv, SocketsMatch
    <3>4. i \in 1..MaxLines /\ i \in 1..Len(slots) /\ i \in 1..Len(slots')
      BY <1>4, <1>13, <3>2, <3>3
    <3>0. \A j \in fresh : current[j] = 0
      BY DEF OfferChanges
    <3>5. s # 0 /\ i \notin fresh /\ i \notin off
      BY <3>0, <3>1, <3>3, <3>4
    <3>6. now[i] = s
      BY <1>9, <3>3, <3>4, <3>5
    <3>7. current'[i] = s /\ slots'[i] = s
      BY <1>3, <1>13, <3>3, <3>4, <3>5, <3>6
    <3> QED
      BY <1>13, <3>3, <3>4, <3>7
  <2> QED
    BY <2>1, <2>2
<1>18. ASSUME NEW j \in 1..MaxLines, Sole(j)'
       PROVE  \/ /\ Sole(j) /\ current'[j] = current[j] /\ current[j] \in 1..MaxStreams
                 /\ media'[current[j]].room = media[current[j]].room
              \/ \A r \in Rooms : j \notin mixed[r]
  <2>1. CASE j \in fresh
    <3>1. ASSUME NEW r \in Rooms, j \in mixed[r] PROVE FALSE
      <4>1. PICK s \in 1..MaxStreams : media[s].line = j
        BY <3>1 DEF StreamsInv, LegInv, RoomsMatch
      <4>2. s \in 1..last
        BY <1>4, <4>1 DEF StreamsInv, LegInv, LinesMatch
      <4>3. media'[s].line = j
        BY <1>11, <1>12, <4>1, <4>2
      <4>4. current'[j] = s
        BY <1>18, <4>3 DEF Sole
      <4> QED
        BY <1>3, <1>9, <1>12, <2>1, <4>2, <4>4
    <3> QED
      BY <3>1
  <2>2. CASE j \notin fresh
    <3>1. current'[j] = current[j] /\ current[j] # 0
      BY <1>3, <1>9, <1>18, <2>2 DEF Sole
    <3>2. current[j] \in 1..last /\ current[j] \in 1..MaxStreams
      BY <1>4, <1>8, <3>1
    <3>3. media'[current[j]].room = media[current[j]].room
      BY <1>11, <1>12, <3>2
    <3>4. ASSUME NEW s \in 1..MaxStreams, media[s].line = j PROVE s = current[j]
      <4>1. s \in 1..last
        BY <1>4, <3>4 DEF StreamsInv, LegInv, LinesMatch
      <4> QED
        BY <1>11, <1>12, <1>18, <3>1, <3>4, <4>1 DEF Sole
    <3> QED
      BY <3>1, <3>2, <3>3, <3>4 DEF Sole
  <2> QED
    BY <2>1, <2>2
<1>19. RoomsMatch'
  <2>1. ASSUME NEW r \in Rooms, NEW j \in mixed'[r] PROVE \E s \in 1..MaxStreams : media'[s].line = j
    <3>1. j \in mixed[r] /\ j \in 1..MaxLines
      BY DEF StreamsInv, LegInv, LegTypes
    <3>2. PICK s \in 1..MaxStreams : media[s].line = j
      BY <3>1 DEF StreamsInv, LegInv, RoomsMatch
    <3>3. s \in 1..last
      <4>1. ~(s > last)
        BY <3>1, <3>2 DEF StreamsInv, LegInv, LinesMatch
      <4> QED
        BY <1>4, <4>1
    <3> QED
      BY <1>11, <1>12, <3>2, <3>3
  <2>2. ASSUME NEW j \in 1..MaxLines, Sole(j)'
        PROVE  /\ \A r \in Rooms : Mixes(r, j)' /\ roomIs'[r] = "open" => media'[current'[j]].room = r
               /\ \A r, p \in Rooms : Mixes(r, j)' /\ Mixes(p, j)' => r = p
    BY <1>18, <2>2 DEF StreamsInv, LegInv, RoomsMatch, Mixes
  <2> QED
    BY <2>1, <2>2 DEF RoomsMatch
<1>20. TableMatches'
  <2>1. slots' # <<>>
    <3>1. Len(slots') # 0
      <4>1. slots = <<>> => Len(sections) = 1
        BY DEF StreamsInv, TableMatches
      <4>2. slots # <<>> => Len(slots) # 0
        BY <1>4, TableFacts
      <4>3. CASE slots = <<>>
        <5>1. 1 <= n
          BY <4>1, <4>3
        <5> QED
          BY <1>13, <5>1
      <4>4. CASE slots # <<>>
        BY <1>4, <1>13, <4>2, <4>4
      <4> QED
        BY <4>3, <4>4
    <3> QED
      BY <1>13, <3>1, TableFacts
  <2>2. ASSUME NEW i \in 1..n, sections'[i] = 0 PROVE slots'[i] = 0
    BY <1>13, <2>2
  <2> QED
    BY <1>13, <2>1, <2>2 DEF TableMatches
<1>21. ASSUME NEW c \in Callers PROVE TaskMatches(task[c])'
  <2> DEFINE t == task[c]
  <2>1. TaskMatches(t) /\ task'[c] = t /\ roomIs' = roomIs /\ mixed' = mixed
        /\ t.pc \notin {"offer", "sent", "answered"}
    BY DEF StreamsInv
  <2>2. ASSUME t.pc # "idle", Sole(t.line)'
        PROVE  Sole(t.line) \/ \A r \in Rooms : ~Mixes(r, t.line)'
    <3>1. t.line \in 1..MaxLines
      BY <2>1, <2>2, BoundsAre DEF TaskMatches
    <3> SUFFICES ASSUME NEW j, j = t.line PROVE Sole(j) \/ \A r \in Rooms : ~Mixes(r, j)'
      BY <2>1 DEF Mixes
    <3>2. Sole(j)'
      BY <2>1, <2>2 DEF Sole
    <3> QED
      BY <1>18, <3>1, <3>2 DEF Mixes
  <2> QED
    BY <2>1, <2>2 DEF TaskMatches, Mixes
<1> QED
  BY <1>14, <1>16, <1>17, <1>19, <1>20, <1>21, TasksStay DEF LegInv

LEMMA SectionCount == \A S : AudioStreams!Cardinality(S) = Cardinality(S)
  BY DEF AudioStreams!Cardinality, Cardinality

LEMMA PeerOffersOK ==
    ASSUME StreamsInv, NEW n \in Len(sections)..MaxLines, NEW off, off \subseteq 1..n,
           AudioStreams!PeerOffers(n, off)
    PROVE  StreamsInv'
<1> DEFINE on == (1..n) \ off
           fresh == {i \in on : current[i] = 0}
           next(i) == last + AudioStreams!Cardinality({j \in fresh : j <= i})
           dropped == {s \in 1..MaxStreams :
                          (\E i \in 1..MaxLines : current[i] = s) /\ media[s].line \in off}
           now == [i \in 1..MaxLines |-> IF i \in fresh THEN next(i)
                                         ELSE IF current[i] \in dropped THEN 0 ELSE current[i]]
           new == [i \in fresh |-> next(i)]
<1>1. offers < MaxOffers /\ offers' = offers + 1 /\ \A c \in Callers : ~AudioStreams!Negotiating(c)
  BY DEF AudioStreams!PeerOffers
<1>22. /\ last + AudioStreams!Cardinality(fresh) <= MaxStreams
       /\ last' = last + AudioStreams!Cardinality(fresh)
       /\ UNCHANGED <<mixed, roomIs, leg, task>>
  BY DEF AudioStreams!PeerOffers, AudioStreams!roomVars
<1>23. /\ current' = now
      /\ slots' = [i \in 1 .. IF n > Len(slots) THEN n ELSE Len(slots) |->
                      IF i \in on THEN now[i] ELSE IF i \in off THEN 0 ELSE slots[i]]
      /\ sections' = [i \in 1..n |-> IF i \in on THEN now[i] ELSE 0]
  BY DEF AudioStreams!PeerOffers, AudioStreams!Lines, AudioStreams!Streams, AudioStreams!Dropped
<1>24. media' = [s \in 1..MaxStreams |->
         IF s \in dropped THEN [media[s] EXCEPT !.sock = "closed"]
         ELSE IF \E i \in fresh : s = next(i)
         THEN [AudioStreams!NewStream(CHOOSE i \in fresh : s = next(i))
                  EXCEPT !.heard = TRUE, !.setUps = 1]
         ELSE IF media[s].sock = "open" /\ media[s].line \in on
         THEN [media[s] EXCEPT !.heard = TRUE, !.setUps = IF @ = 0 THEN 1 ELSE @]
         ELSE media[s]]
  BY DEF AudioStreams!PeerOffers, AudioStreams!Lines, AudioStreams!Streams, AudioStreams!Dropped
<1>2. /\ \A i : i \in on <=> i \in 1..n /\ i \notin off
      /\ \A i : i \in fresh <=> i \in on /\ current[i] = 0
      /\ \A t : t \in dropped <=> /\ t \in 1..MaxStreams /\ media[t].line \in off
                                  /\ \E i \in 1..MaxLines : current[i] = t
      /\ \A i \in fresh : new[i] = next(i)
  OBVIOUS
<1>3. \A i \in 1..MaxLines : now[i] = IF i \in fresh THEN next(i)
                                      ELSE IF current[i] \in dropped THEN 0 ELSE current[i]
  OBVIOUS
<1>4. now = [i \in 1..MaxLines |-> now[i]]
  OBVIOUS
<1>5. \A i : next(i) = last + Rank(fresh, i)
  BY SectionCount DEF Rank, UpTo
<1> HIDE DEF on, fresh, next, dropped, now, new
<1>6. /\ media \in [1..MaxStreams -> StreamRecords] /\ current \in [1..MaxLines -> 0..MaxStreams]
      /\ last \in 1..MaxStreams /\ sections \in TableSet /\ offers \in 0..MaxOffers
      /\ last \in Nat /\ n \in Nat /\ n <= MaxLines /\ Len(sections) <= n
  BY TableFacts, BoundsAre DEF StreamsInv, LegInv, LegTypes
<1>7. IsFiniteSet(fresh) /\ fresh \subseteq Nat /\ fresh \subseteq 1..n
  <2>1. fresh \subseteq 1..n /\ 1 \in Int /\ n \in Int
    BY <1>2, <1>6
  <2>2. IsFiniteSet(1..n)
    BY <2>1, FS_Interval
  <2>3. fresh \in SUBSET (1..n)
    BY <2>1
  <2>4. IsFiniteSet(fresh)
    BY <2>2, <2>3, FS_Subset
  <2> QED
    BY <2>1, <2>4
<1>8. ASSUME NEW i \in fresh
      PROVE  /\ next(i) \in (last + 1)..last'
             /\ \A k \in fresh : next(k) = next(i) => k = i
  <2>1. /\ Cardinality(fresh) \in Nat /\ Rank(fresh, i) \in 1..Cardinality(fresh)
        /\ \A k \in fresh : Rank(fresh, k) = Rank(fresh, i) => k = i
    BY <1>7, RanksDiffer
  <2>2. next(i) \in (last + 1)..last'
    <3>1. last' = last + Cardinality(fresh)
      BY <1>22, SectionCount
    <3> QED
      BY <1>5, <1>6, <2>1, <3>1
  <2>3. ASSUME NEW k \in fresh, next(k) = next(i) PROVE k = i
    <3>1. Rank(fresh, k) \in 1..Cardinality(fresh)
      BY <1>7, RanksDiffer
    <3> QED
      BY <1>5, <1>6, <2>1, <2>3, <3>1
  <2> QED
    BY <2>2, <2>3
<1>9. last' \in last..MaxStreams
  <2>1. Cardinality(fresh) \in Nat
    BY <1>7, FS_CardinalityType
  <2>2. last + Cardinality(fresh) <= MaxStreams /\ last' = last + Cardinality(fresh)
    BY <1>22, SectionCount
  <2> QED
    BY <1>6, <2>1, <2>2, BoundsAre
<1>10. \A i \in fresh : next(i) \in Nat /\ next(i) > last /\ next(i) \in 1..MaxStreams
  BY <1>6, <1>8, <1>9, BoundsAre
<1>11. \A i \in 1..MaxLines : current[i] # 0 =>
          current[i] \in 1..last /\ current[i] \in 1..MaxStreams /\ media[current[i]].line = i
  <2> SUFFICES ASSUME NEW i \in 1..MaxLines, current[i] # 0
               PROVE  /\ current[i] \in 1..last /\ current[i] \in 1..MaxStreams
                      /\ media[current[i]].line = i
    OBVIOUS
  <2>1. current[i] \in 0..MaxStreams /\ i \in DOMAIN current
    BY <1>6
  <2>2. current[i] <= last /\ media[current[i]].line = i
    BY <2>1 DEF StreamsInv, LegInv, LinesMatch, FitsLines
  <2> QED
    BY <1>6, <2>1, <2>2
<1>12. \A t \in dropped : t \in 1..last /\ t \in 1..MaxStreams /\ t # 0
  <2> SUFFICES ASSUME NEW t \in dropped PROVE t \in 1..last /\ t \in 1..MaxStreams /\ t # 0
    OBVIOUS
  <2>1. t \in 1..MaxStreams /\ \E i \in 1..MaxLines : current[i] = t
    BY <1>2
  <2>2. t # 0
    BY <2>1
  <2> QED
    BY <1>11, <2>1, <2>2
<1>13. \A i \in fresh : next(i) \notin dropped
  BY <1>6, <1>10, <1>12
<1>14. \A i \in off : i \in 1..n /\ i \in 1..MaxLines
  <2>1. 1..n \subseteq 1..MaxLines
    BY <1>6, BoundsAre
  <2> QED
    BY <2>1
<1>15. \A i \in 1..MaxLines :
          /\ i \in off => now[i] = 0
          /\ i \notin fresh /\ i \notin off => now[i] = current[i]
  <2> SUFFICES ASSUME NEW i \in 1..MaxLines
               PROVE  /\ i \in off => now[i] = 0
                      /\ i \notin fresh /\ i \notin off => now[i] = current[i]
    OBVIOUS
  <2>1. i \in off => i \notin fresh
    BY <1>2
  <2>2. CASE current[i] = 0
    BY <1>3, <1>12, <2>1, <2>2
  <2>3. CASE current[i] # 0
    <3>1. current[i] \in dropped <=> i \in off
      BY <1>2, <1>11, <2>3
    <3> QED
      BY <1>3, <2>1, <3>1
  <2> QED
    BY <2>2, <2>3
<1>16. ASSUME NEW i \in fresh
       PROVE  /\ media'[next(i)] = [AudioStreams!NewStream(i) EXCEPT !.heard = TRUE, !.setUps = 1]
              /\ media'[next(i)] \in StreamRecords
              /\ media'[next(i)].line = i /\ media'[next(i)].room = None
  <2>1. (CHOOSE j \in fresh : next(i) = next(j)) = i
    BY <1>8
  <2>2. media'[next(i)] = [AudioStreams!NewStream(i) EXCEPT !.heard = TRUE, !.setUps = 1]
    BY <1>24, <1>10, <1>13, <2>1
  <2>3. i \in 1..MaxLines
    BY <1>6, <1>7, BoundsAre
  <2>4. /\ AudioStreams!NewStream(i) \in StreamRecords /\ AudioStreams!NewStream(i).line = i
        /\ AudioStreams!NewStream(i).room = None
    BY <2>3, NewStreamOK
  <2> SUFFICES ASSUME NEW m \in StreamRecords, m.line = i, m.room = None,
                      media'[next(i)] = [m EXCEPT !.heard = TRUE, !.setUps = 1]
               PROVE  /\ media'[next(i)] \in StreamRecords
                      /\ media'[next(i)].line = i /\ media'[next(i)].room = None
    BY <2>2, <2>4
  <2>5. 1 \in 0..1 /\ TRUE \in BOOLEAN
    OBVIOUS
  <2>6. media'[next(i)] \in StreamRecords
    BY <2>5 DEF StreamRecords
  <2> QED
    BY <2>6 DEF StreamRecords
<1>17. ASSUME NEW t \in 1..MaxStreams, \A i \in fresh : t # next(i)
       PROVE  /\ media'[t] \in StreamRecords
              /\ media'[t].line = media[t].line /\ media'[t].room = media[t].room
              /\ media'[t].sock = "open" =>
                    media[t].sock = "open" /\ \A i \in off : current[i] # t
  <2>1. media[t] \in StreamRecords
    BY <1>6
  <2>2. CASE t \in dropped
    <3>1. media'[t] = [media[t] EXCEPT !.sock = "closed"]
      BY <1>24, <2>2
    <3> QED
      BY <2>1, <3>1 DEF StreamRecords
  <2>3. CASE t \notin dropped
    <3>1. media'[t] \in {media[t],
              [media[t] EXCEPT !.heard = TRUE, !.setUps = IF @ = 0 THEN 1 ELSE @]}
      BY <1>24, <1>17, <2>3
    <3>2. ASSUME NEW i \in off PROVE current[i] # t
      <4>1. i \in 1..MaxLines /\ t # 0
        BY <1>14
      <4> QED
        BY <1>2, <1>11, <2>3, <4>1
    <3>3. /\ media'[t] \in StreamRecords /\ media'[t].sock = media[t].sock
          /\ media'[t].line = media[t].line /\ media'[t].room = media[t].room
      <4> SUFFICES ASSUME NEW m \in StreamRecords,
                          NEW k \in {m, [m EXCEPT !.heard = TRUE, !.setUps = IF @ = 0 THEN 1 ELSE @]}
                   PROVE  /\ k \in StreamRecords /\ k.sock = m.sock
                          /\ k.line = m.line /\ k.room = m.room
        BY <2>1, <3>1
      <4>1. (IF m.setUps = 0 THEN 1 ELSE m.setUps) \in 0..1
        BY DEF StreamRecords
      <4> QED
        BY <4>1 DEF StreamRecords
    <3> QED
      BY <3>2, <3>3
  <2> QED
    BY <2>2, <2>3
<1>18. media' \in [1..MaxStreams -> StreamRecords]
  <2>1. \A t \in 1..MaxStreams : media'[t] \in StreamRecords
    BY <1>16, <1>17
  <2>2. media' = [t \in 1..MaxStreams |-> media'[t]]
    BY <1>24
  <2> QED
    BY <2>1, <2>2
<1>19. OfferChanges(n, off, fresh, new, now)
  <2>1. /\ off \subseteq 1..n /\ fresh \subseteq (1..n) \ off /\ \A i \in fresh : current[i] = 0
        /\ \A i \in 1..n : i \notin off /\ i \notin fresh => current[i] # 0
    BY <1>2
  <2>2. /\ \A i \in fresh : new[i] \in (last + 1)..last'
        /\ \A i, j \in fresh : new[i] = new[j] => i = j
    BY <1>2, <1>8
  <2>3. \A i \in 1..MaxLines :
           /\ i \in fresh => now[i] = new[i]
           /\ i \in off => now[i] = 0
           /\ i \notin fresh /\ i \notin off => now[i] = current[i]
    BY <1>2, <1>3, <1>15
  <2>4. current' = [i \in 1..MaxLines |-> now[i]]
    BY <1>23, <1>4
  <2>5. /\ slots' = [i \in 1 .. IF n > Len(slots) THEN n ELSE Len(slots) |->
               IF i \in (1..n) \ off THEN now[i] ELSE IF i \in off THEN 0 ELSE slots[i]]
        /\ sections' = [i \in 1..n |-> IF i \in (1..n) \ off THEN now[i] ELSE 0]
    BY <1>23 DEF on
  <2>6. \A i \in fresh : media'[new[i]].line = i /\ media'[new[i]].room = None
    <3> SUFFICES ASSUME NEW i \in fresh
                 PROVE  media'[new[i]].line = i /\ media'[new[i]].room = None
      OBVIOUS
    <3>1. new[i] = next(i)
      BY <1>2
    <3> QED
      BY <1>16, <3>1
  <2>7. \A t \in 1..MaxStreams : (\A i \in fresh : t # new[i]) =>
          /\ media'[t].line = media[t].line /\ media'[t].room = media[t].room
          /\ media'[t].sock = "open" =>
                media[t].sock = "open" /\ \A i \in off : current[i] # t
    BY <1>2, <1>17
  <2> QED
    BY <1>9, <1>18, <2>1, <2>2, <2>3, <2>4, <2>5, <2>6, <2>7 DEF OfferChanges
<1>20. \A c \in Callers : task[c].pc \notin {"offer", "sent", "answered"}
  BY <1>1 DEF AudioStreams!Negotiating
<1>21. offers' \in 0..MaxOffers
  BY <1>1, <1>6, BoundsAre
<1> QED
  BY <1>22, <1>6, <1>19, <1>20, <1>21, OfferChangesOK

(* The leg's start, its steps and what the invariant says.                     *)
LEMMA StreamsInit == AudioStreams!Init => StreamsInv
<1> DEFINE fresh(s) == [AudioStreams!NewStream(s) EXCEPT !.heard = TRUE, !.setUps = 1]
<1> SUFFICES ASSUME AudioStreams!Init PROVE StreamsInv
  OBVIOUS
<1>1. PICK n \in {1, 2} :
          /\ slots = IF n = 1 THEN <<>> ELSE <<1, 2>>
          /\ last = n /\ sections = [i \in 1..n |-> i]
          /\ current = [i \in 1..MaxLines |-> IF i <= n THEN i ELSE 0]
          /\ media = [s \in 1..MaxStreams |-> IF s <= n THEN fresh(s) ELSE AudioStreams!NoStream]
  BY DEF AudioStreams!Init, AudioStreams!Lines, AudioStreams!Streams
<1>2. /\ offers = 0 /\ leg = "up" /\ mixed = [r \in Rooms |-> {}]
      /\ roomIs = [r \in Rooms |-> "open"] /\ task = [c \in Callers |-> AudioStreams!Idle]
  BY DEF AudioStreams!Init
<1>3. n \in Nat /\ n >= 1 /\ n <= 2 /\ n <= MaxLines /\ n <= MaxStreams
  <2>1. n = 1 \/ n = 2
    BY <1>1
  <2> HIDE DEF fresh
  <2> QED
    BY <2>1, BoundsAre
<1>4. ASSUME NEW i \in 1..MaxLines
      PROVE  fresh(i) \in StreamRecords /\ fresh(i).line = i /\ fresh(i).sock = "open"
  <2> DEFINE m == AudioStreams!NewStream(i)
  <2>1. m \in StreamRecords /\ m.line = i /\ m.sock = "open"
    BY NewStreamOK
  <2> HIDE DEF m
  <2>2. 1 \in 0..1 /\ TRUE \in BOOLEAN
    OBVIOUS
  <2>3. [m EXCEPT !.heard = TRUE, !.setUps = 1] \in StreamRecords
    BY <2>1, <2>2 DEF StreamRecords
  <2>4. /\ [m EXCEPT !.heard = TRUE, !.setUps = 1].line = i
        /\ [m EXCEPT !.heard = TRUE, !.setUps = 1].sock = "open"
    BY <2>1 DEF StreamRecords
  <2> QED
    BY <2>3, <2>4 DEF m
<1>5. LET none == AudioStreams!NoStream IN
      none \in StreamRecords /\ none.line = 0 /\ none.sock = "none"
  BY BoundsAre DEF AudioStreams!NoStream, StreamRecords
<1> HIDE DEF fresh
<1>6. /\ \A s \in 1..MaxStreams :
            /\ media[s] \in StreamRecords
            /\ s <= n => media[s].line = s
            /\ s > n => media[s].line = 0 /\ media[s].sock # "open"
      /\ \A i \in 1..MaxLines : current[i] = IF i <= n THEN i ELSE 0
  <2>1. \A i \in 1..MaxLines : current[i] = IF i <= n THEN i ELSE 0
    BY <1>1
  <2>2. ASSUME NEW s \in 1..MaxStreams
        PROVE  /\ media[s] \in StreamRecords
               /\ s <= n => media[s].line = s
               /\ s > n => media[s].line = 0 /\ media[s].sock # "open"
    <3>1. CASE s <= n
      <4>1. s \in 1..MaxLines /\ ~(s > n)
        BY <1>3, <3>1, BoundsAre
      <4> QED
        BY <1>1, <1>4, <3>1, <4>1
    <3>2. CASE ~(s <= n)
      BY <1>1, <1>5, <3>2
    <3> QED
      BY <3>1, <3>2
  <2> QED
    BY <2>1, <2>2
<1>7. /\ slots \in TableSet /\ sections \in TableSet /\ Len(sections) = n
      /\ \A i \in 1..n : sections[i] = i
      /\ n = 1 => slots = <<>>
      /\ n = 2 => Len(slots) = 2 /\ slots[1] = 1 /\ slots[2] = 2
  <2>1. sections \in [1..n -> 0..MaxStreams]
    <3>1. 1..n \subseteq 0..MaxStreams
      BY <1>3, BoundsAre
    <3> QED
      BY <1>1, <3>1
  <2>2. sections \in TableSet /\ Len(sections) = n
    BY <1>3, <2>1, IsTable
  <2>3. <<1, 2>> \in TableSet
    <3>1. 1 \in 0..MaxStreams /\ 2 \in 0..MaxStreams /\ 2 <= MaxLines
      BY BoundsAre
    <3> QED
      BY <3>1 DEF TableSet
  <2> QED
    BY <1>1, <2>2, <2>3, NoTable
<1>8. LegTypes
  <2>1. current \in [1..MaxLines -> 0..MaxStreams]
    <3>1. \A i \in 1..MaxLines : (IF i <= n THEN i ELSE 0) \in 0..MaxStreams
      BY <1>3, BoundsAre
    <3> QED
      BY <1>1, <3>1
  <2>2. media \in [1..MaxStreams -> StreamRecords]
    <3>1. media = [s \in 1..MaxStreams |-> media[s]]
      BY <1>1
    <3> QED
      BY <1>6, <3>1
  <2>3. last \in 1..MaxStreams /\ offers \in 0..MaxOffers
    BY <1>1, <1>2, <1>3, BoundsAre
  <2> QED
    BY <1>2, <1>7, <2>1, <2>2, <2>3 DEF LegTypes
<1>9. LinesMatch
  <2>1. FitsLines(current)
    <3> SUFFICES ASSUME NEW i \in 1..MaxLines, current[i] # 0
                 PROVE  current[i] <= last /\ media[current[i]].line = i
      BY <1>1 DEF FitsLines
    <3>1. i <= n /\ current[i] = i /\ i \in 1..MaxStreams
      BY <1>3, <1>6, BoundsAre
    <3> QED
      BY <1>1, <1>6, <3>1
  <2>2. FitsLines(slots)
    <3>1. CASE n = 1
      <4>1. DOMAIN slots = {}
        BY <1>7, <3>1
      <4> QED
        BY <4>1 DEF FitsLines
    <3>2. CASE n = 2
      <4>1. DOMAIN slots = 1..2
        BY <1>1, <3>2
      <4>2. \A i \in 1..2 : slots[i] = i /\ i \in 1..MaxStreams /\ i <= n
        BY <1>3, <1>7, <3>2, BoundsAre
      <4> QED
        BY <1>1, <1>6, <4>1, <4>2 DEF FitsLines
    <3> QED
      BY <1>1, <3>1, <3>2
  <2>3. media[1].line = 1
    BY <1>3, <1>6, BoundsAre
  <2> QED
    BY <1>1, <1>6, <2>1, <2>2, <2>3 DEF LinesMatch
<1>10. SocketsMatch
  <2> SUFFICES ASSUME NEW s \in 1..MaxStreams, media[s].sock = "open", media[s].line # 1
               PROVE  /\ media[s].line # 0 /\ current[media[s].line] = s
                      /\ media[s].line <= Len(slots) /\ slots[media[s].line] = s
    BY DEF SocketsMatch
  <2>1. s <= n /\ media[s].line = s
    BY <1>3, <1>6
  <2>2. n = 2 /\ s = 2
    BY <1>1, <2>1
  <2>3. 2 \in 1..MaxLines
    BY BoundsAre
  <2> QED
    BY <1>6, <1>7, <2>1, <2>2, <2>3
<1>11. RoomsMatch
  BY <1>2 DEF RoomsMatch, Mixes
<1>12. TableMatches
  BY <1>1, <1>7, TableFacts DEF TableMatches
<1>13. /\ task \in [Callers -> StreamTasks] /\ OneRequest
       /\ \A c \in Callers : TaskMatches(task[c])
  <2>1. AudioStreams!Idle \in StreamTasks /\ AudioStreams!Idle.pc = "idle"
    BY NoTable, BoundsAre DEF AudioStreams!Idle, StreamTasks
  <2> QED
    BY <1>2, <2>1 DEF OneRequest, TaskMatches
<1> QED
  BY <1>8, <1>9, <1>10, <1>11, <1>12, <1>13 DEF StreamsInv, LegInv

LEMMA RequestOK ==
    ASSUME StreamsInv, NEW c \in Callers, AudioStreams!Request(c)
    PROVE  StreamsInv'
<1>1. ~AudioStreams!Hold(c)
  BY DEF AudioStreams!Hold
<1>2. CASE \E r \in Rooms \cup {None} : AudioStreams!AddStream(c, r)
  BY <1>2, AddStreamOK
<1>3. CASE \E refused \in BOOLEAN : AudioStreams!Answered(c, refused)
  BY <1>3, AnsweredOK
<1>4. CASE \E i \in AudioStreams!Lines :
              \/ AudioStreams!RemoveStream(c, i) \/ AudioStreams!DetachStream(c, i)
              \/ \E r \in Rooms : AudioStreams!AttachStream(c, i, r)
  BY <1>4, LeaveStarts DEF AudioStreams!Lines
<1> QED
  BY <1>1, <1>2, <1>3, <1>4, MakeOfferOK, OfferFailsOK, StreamRefusedOK, StreamAddedOK,
     AttachAddedOK, RemoveLegStreamOK, LeaveRoomOK, JoinRoomOK DEF AudioStreams!Request

LEMMA StreamsStep == StreamsInv /\ [AudioStreams!Next]_(AudioStreams!vars) => StreamsInv'
<1> SUFFICES ASSUME StreamsInv, [AudioStreams!Next]_(AudioStreams!vars) PROVE StreamsInv'
  OBVIOUS
<1>1. CASE UNCHANGED AudioStreams!vars
  <2>1. UNCHANGED <<slots, current, media, last, mixed, roomIs, sections, offers, leg, task>>
    BY <1>1 DEF AudioStreams!vars, AudioStreams!legVars, AudioStreams!roomVars
  <2> QED
    BY <2>1 DEF StreamsInv, LegInv, LegTypes, LinesMatch, FitsLines, SocketsMatch, RoomsMatch,
        Sole, Mixes, TableMatches, Refuses, OneRequest, TaskMatches, InOffer, OfferMatches
<1>2. CASE \E c \in Callers : AudioStreams!Request(c)
  BY <1>2, RequestOK
<1>3. ASSUME NEW n \in Len(sections)..MaxLines, NEW off \in {{}} \cup {{i} : i \in 2..n},
             AudioStreams!PeerOffers(n, off)
      PROVE  StreamsInv'
  <2>1. n \in Nat
    BY TableFacts, BoundsAre DEF StreamsInv, LegInv, LegTypes
  <2>2. off \subseteq 1..n
    BY <2>1
  <2> QED
    BY <1>3, <2>2, PeerOffersOK
<1>4. CASE \E i \in AudioStreams!Lines : AudioStreams!StreamEnds(i)
  BY <1>4, StreamEndsOK DEF AudioStreams!Lines
<1>5. CASE \E r \in Rooms : AudioStreams!DeleteRoom(r) \/ AudioStreams!CloseRoom(r)
  BY <1>5, DeleteRoomOK, CloseRoomOK
<1> QED
  BY <1>1, <1>2, <1>3, <1>4, <1>5, HangupOK, DetachLegStreamsOK DEF AudioStreams!Next

LEMMA StreamsSound ==
    StreamsInv => /\ AudioStreams!TypeOK /\ AudioStreams!OffersKeepTheirLines
                  /\ AudioStreams!SocketsAreAdvertised /\ AudioStreams!OneRoomPerStream
<1> SUFFICES ASSUME StreamsInv
             PROVE  /\ AudioStreams!TypeOK /\ AudioStreams!OffersKeepTheirLines
                    /\ AudioStreams!SocketsAreAdvertised /\ AudioStreams!OneRoomPerStream
  OBVIOUS
<1>1. /\ LegTypes /\ LinesMatch /\ SocketsMatch /\ RoomsMatch /\ MaxStreams \in Nat /\ MaxLines \in Nat
      /\ Len(slots) \in Nat /\ DOMAIN slots = 1..Len(slots) /\ Len(slots) <= MaxLines
      /\ \A i \in 1..Len(slots) : slots[i] \in 0..MaxStreams
      /\ Len(sections) \in Nat /\ DOMAIN sections = 1..Len(sections) /\ Len(sections) <= MaxLines
  BY TableFacts, BoundsAre DEF StreamsInv, LegInv, LegTypes
<1>2. AudioStreams!TypeOK
  <2>1. \A m \in StreamRecords : m \in AudioStreams!Stream
    BY DEF StreamRecords, AudioStreams!Stream
  <2>2. media \in [1..MaxStreams -> AudioStreams!Stream]
    BY <1>1, <2>1 DEF LegTypes
  <2>3. ASSUME NEW i \in 1..MaxLines
        PROVE  /\ current[i] \in 0..last
               /\ current[i] # 0 => media[current[i]].line = i
    <3>1. current[i] \in 0..MaxStreams /\ i \in DOMAIN current
      BY <1>1 DEF LegTypes
    <3>2. current[i] # 0 => current[i] <= last /\ media[current[i]].line = i
      BY <1>1, <3>1 DEF LinesMatch, FitsLines
    <3> QED
      BY <1>1, <3>1, <3>2 DEF LegTypes
  <2>4. ASSUME NEW i \in DOMAIN slots PROVE slots[i] \in 0..last
    <3>1. slots[i] \in 0..MaxStreams
      BY <1>1
    <3>2. slots[i] # 0 => slots[i] <= last
      BY <1>1 DEF LinesMatch, FitsLines
    <3> QED
      BY <1>1, <3>1, <3>2 DEF LegTypes
  <2> QED
    BY <1>1, <2>2, <2>3, <2>4
    DEF AudioStreams!TypeOK, AudioStreams!Lines, AudioStreams!Streams, LegTypes
<1>3. AudioStreams!OffersKeepTheirLines
  <2> SUFFICES ASSUME NEW c \in Callers, task[c].pc = "sent"
               PROVE  LET body == task[c].body IN
                      /\ Len(body) >= Len(sections)
                      /\ \A i \in DOMAIN sections : sections[i] = 0 => body[i] = 0
                      /\ \A i \in DOMAIN body : body[i] # 0 => media[body[i]].line = i
    BY DEF AudioStreams!OffersKeepTheirLines, AudioStreams!At
  <2>1. OfferMatches(task[c].body) /\ task[c].body \in TableSet
    BY DEF StreamsInv, TaskMatches, StreamTasks
  <2>2. Len(task[c].body) \in Nat
    BY <2>1, TableFacts
  <2> QED
    BY <1>1, <2>1, <2>2 DEF OfferMatches, FitsLines
<1>4. AudioStreams!SocketsAreAdvertised
  <2> SUFFICES ASSUME NEW s \in 1..MaxStreams, media[s].sock = "open", media[s].line # 1
               PROVE  /\ current[media[s].line] = s
                      /\ media[s].line \in DOMAIN slots /\ slots[media[s].line] = s
    BY DEF AudioStreams!SocketsAreAdvertised, AudioStreams!Streams
  <2>1. media[s].line \in 0..MaxLines
    BY <1>1 DEF LegTypes, StreamRecords
  <2>2. /\ media[s].line # 0 /\ current[media[s].line] = s
        /\ media[s].line <= Len(slots) /\ slots[media[s].line] = s
    BY <1>1 DEF SocketsMatch
  <2> QED
    BY <1>1, <2>1, <2>2
<1>5. AudioStreams!OneRoomPerStream
  <2> SUFFICES ASSUME NEW r \in Rooms, NEW i \in mixed[r], roomIs[r] = "open", current[i] # 0,
                      \A s \in 1..MaxStreams : media[s].line = i => s = current[i]
               PROVE  media[current[i]].room = r
    BY DEF AudioStreams!OneRoomPerStream, AudioStreams!Streams
  <2>1. i \in 1..MaxLines
    BY <1>1 DEF LegTypes
  <2>2. Sole(i) /\ Mixes(r, i)
    BY <2>1 DEF Sole, Mixes
  <2> QED
    BY <1>1, <2>1, <2>2 DEF RoomsMatch
<1> QED
  BY <1>2, <1>3, <1>4, <1>5

(* In the composite of the run, whatever requests, answers and refusals, offers of the   *)
(* peer, streams that time out, rooms that close and the hangup do to a leg's streams, an  *)
(* offer keeps the order of the sections, no open socket is one the table does not        *)
(* advertise, and a stream is in the room it names (mlines.go, media_stream.go).          *)
THEOREM StreamsStaySound == MCSpec => []StreamsAreSound
<1>1. [MCNext]_<<active, vars, trunkVars, registrarVars, recordingVars, streamVars>>
         => [AudioStreams!Next]_(AudioStreams!vars)
  BY DEF MCNext, streamVars, AudioStreams!vars, AudioStreams!legVars, AudioStreams!roomVars
<1>2. MCInit => StreamsInv
  BY StreamsInit DEF MCInit
<1>3. StreamsInv => StreamsAreSound
  BY StreamsSound DEF StreamsAreSound
<1> QED
  BY <1>1, <1>2, <1>3, StreamsStep, PTL DEF MCSpec
=============================================================================
