--------------------------- MODULE RecordingFile ---------------------------
(* A recording's way to its final name: the reservation, the staging file, the *)
(* capture, and the publication that has to survive a crash at any step.       *)
(* Each Recorder records once, as every caller has it. A file is named by the  *)
(* recorder that made it: the inode. What the directory shows and what of it   *)
(* has reached the disk are kept apart; a crash loses the difference, or not.  *)
EXTENDS Naturals, FiniteSets

CONSTANTS Recorders, Names, None

ASSUME RecordingFileAssumption == None \notin Recorders

VARIABLES
    reserved,   \* reservedPaths
    shown,      \* [Names -> the file at that final path, or None]
    onDisk,     \* the same, of what is certain to survive a crash
    staging,    \* the staging files in the directory
    flushed,    \* the files whose bytes are on disk
    torn,       \* the files that lost bytes in a crash
    recorder,   \* [Recorders -> [pc, name, wrote, closed, finalized, published]]
    crashes     \* the recorders whose process has crashed

vars == <<reserved, shown, onDisk, staging, flushed, torn, recorder, crashes>>
files == <<shown, onDisk, staging, flushed, torn>>

New == [pc |-> "new", name |-> None, wrote |-> FALSE,
        closed |-> FALSE, finalized |-> FALSE, published |-> FALSE]

Init ==
    /\ reserved = {} /\ staging = {} /\ flushed = {} /\ torn = {} /\ crashes = {}
    /\ shown = [n \in Names |-> None] /\ onDisk = shown
    /\ recorder = [r \in Recorders |-> New]

At(r, pc) == recorder[r].pc = pc /\ r \notin crashes
Goto(r, pc) == recorder' = [recorder EXCEPT ![r].pc = pc]

-----------------------------------------------------------------------------
(* initRecording. *)

\* A name is taken while it is reserved and once a file is there.
Taken(n) == n \in reserved \/ shown[n] # None

\* reserveFinalPath, both looks under its lock.
Reserve(r) == \E n \in Names :
    /\ At(r, "new") /\ ~Taken(n)
    /\ reserved' = reserved \cup {n}
    /\ recorder' = [recorder EXCEPT ![r] = [@ EXCEPT !.pc = "reserved", !.name = n]]
    /\ UNCHANGED <<files, crashes>>

\* createStagedFile; without one the name is given back.
Stage(r) ==
    /\ At(r, "reserved")
    /\ \/ staging' = staging \cup {r} /\ Goto(r, "capturing") /\ UNCHANGED reserved
       \/ reserved' = reserved \ {recorder[r].name} /\ Goto(r, "failed") /\ UNCHANGED staging
    /\ UNCHANGED <<shown, onDisk, flushed, torn, crashes>>

-----------------------------------------------------------------------------
(* The capture. *)

Write(r) ==
    /\ At(r, "capturing") /\ ~recorder[r].wrote
    /\ recorder' = [recorder EXCEPT ![r].wrote = TRUE]
    /\ UNCHANGED <<reserved, files, crashes>>

\* The loop returned: cancelled by Stop, its source at an end, or an error. The encoder
\* is closed, which rewrites the size in the header; a capture without a frame
\* or with an error, that one included, is discarded.
CaptureEnds(r) ==
    /\ At(r, "capturing")
    /\ \/ recorder[r].wrote /\ recorder' = [recorder EXCEPT ![r] = [@ EXCEPT !.pc = "sync", !.closed = TRUE]]
       \/ Goto(r, "discard")
    /\ UNCHANGED <<reserved, files, crashes>>

\* discardTemp
Discard(r) ==
    /\ At(r, "discard")
    /\ staging' = staging \ {r}
    /\ Goto(r, "release")
    /\ UNCHANGED <<reserved, shown, onDisk, flushed, torn, crashes>>

-----------------------------------------------------------------------------
(* publishFile: each step may fail, and finish looks at what it left. *)

\* Mutant: the file is not flushed before it is shown.
MutSync(r) ==
    /\ At(r, "sync")
    /\ \/ Goto(r, "link") /\ UNCHANGED staging
       \/ staging' = staging \ {r} /\ Goto(r, "failedToPublish")
    /\ UNCHANGED <<reserved, shown, onDisk, flushed, torn, crashes>>

\* syncForPublish and Close.
Sync(r) ==
    /\ At(r, "sync")
    /\ \/ flushed' = flushed \cup {r} /\ Goto(r, "link") /\ UNCHANGED staging
       \/ staging' = staging \ {r} /\ Goto(r, "failedToPublish") /\ UNCHANGED flushed
    /\ UNCHANGED <<reserved, shown, onDisk, torn, crashes>>

\* A hard link, which a file at the final path refuses.
Link(r) ==
    /\ At(r, "link")
    /\ \/ /\ shown[recorder[r].name] = None
          /\ shown' = [shown EXCEPT ![recorder[r].name] = r]
          /\ Goto(r, "unstage") /\ UNCHANGED staging
       \/ staging' = staging \ {r} /\ Goto(r, "failedToPublish") /\ UNCHANGED shown
    /\ UNCHANGED <<reserved, onDisk, flushed, torn, crashes>>

Unstage(r) ==
    /\ At(r, "unstage")
    /\ \/ staging' = staging \ {r} /\ Goto(r, "syncDir")
       \/ Goto(r, "failedToPublish") /\ UNCHANGED staging
    /\ UNCHANGED <<reserved, shown, onDisk, flushed, torn, crashes>>

\* syncDir: the directory's entries, whoever made them, are on disk.
SyncDir(r) ==
    /\ At(r, "syncDir")
    /\ \/ onDisk' = shown /\ recorder' = [recorder EXCEPT ![r] = [@ EXCEPT
            !.pc = "release", !.finalized = TRUE, !.published = TRUE]]
       \/ Goto(r, "failedToPublish") /\ UNCHANGED onDisk
    /\ UNCHANGED <<reserved, shown, staging, flushed, torn, crashes>>

\* finish: a failed publication that left a file at the final path is complete
\* all the same.
PublishFailed(r) ==
    /\ At(r, "failedToPublish")
    /\ recorder' = [recorder EXCEPT ![r] = [@ EXCEPT
            !.pc = "release", !.finalized = shown[recorder[r].name] # None]]
    /\ UNCHANGED <<reserved, files, crashes>>

\* releaseFinalPath, then clearRecording and the end Wait waits for.
Release(r) ==
    /\ At(r, "release")
    /\ reserved' = reserved \ {recorder[r].name}
    /\ Goto(r, "done")
    /\ UNCHANGED <<files, crashes>>

-----------------------------------------------------------------------------
(* The process ends without notice, and another one starts on the directory:   *)
(* entries not flushed are there or not, bytes not flushed are lost or not.    *)
Crash ==
    /\ \E r \in Recorders \ crashes : recorder[r].pc # "new"
    /\ crashes' = crashes \cup {r \in Recorders : recorder[r].pc # "new"}
    /\ reserved' = {}
    /\ \E kept \in SUBSET Names, lost \in SUBSET (crashes' \ flushed) :
        /\ shown' = [n \in Names |-> IF n \in kept THEN shown[n] ELSE onDisk[n]]
        /\ onDisk' = shown'
        /\ torn' = torn \cup lost
    /\ UNCHANGED <<staging, flushed, recorder>>

Next ==
    \/ \E r \in Recorders :
        \/ Reserve(r) \/ Stage(r) \/ Write(r) \/ CaptureEnds(r) \/ Discard(r)
        \/ Sync(r) \/ Link(r) \/ Unstage(r) \/ SyncDir(r) \/ PublishFailed(r) \/ Release(r)
    \/ Crash

Spec == Init /\ [][Next]_vars

-----------------------------------------------------------------------------
RecorderType ==
    [pc : {"new", "reserved", "capturing", "sync", "discard", "link", "unstage", "syncDir",
           "failedToPublish", "release", "failed", "done"},
     name : Names \cup {None}, wrote : BOOLEAN, closed : BOOLEAN,
     finalized : BOOLEAN, published : BOOLEAN]

TypeOK ==
    /\ reserved \subseteq Names /\ crashes \subseteq Recorders
    /\ shown \in [Names -> Recorders \cup {None}] /\ onDisk \in [Names -> Recorders \cup {None}]
    /\ staging \subseteq Recorders /\ flushed \subseteq Recorders /\ torn \subseteq Recorders
    /\ recorder \in [Recorders -> RecorderType]

\* What is at a recording's final path is a whole recording, before a crash and
\* after any number of them: closed by its encoder, with every byte. One that
\* was reported published outlives every crash, and one reported finalized is
\* the file at its path until a crash.
RecordingsAreWhole ==
    /\ \A n \in Names : shown[n] # None => recorder[shown[n]].closed /\ shown[n] \notin torn
    /\ \A r \in Recorders :
        /\ recorder[r].published => shown[recorder[r].name] = r
        /\ recorder[r].finalized /\ r \notin crashes => shown[recorder[r].name] = r
=============================================================================
