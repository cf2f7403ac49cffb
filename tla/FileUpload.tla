----------------------------- MODULE FileUpload -----------------------------
(***************************************************************************)
(* The uploads of one organisation (backend/src/files/files.service.ts):   *)
(* a reservation of space, the browser's upload to the object store, the   *)
(* completion, and the worker's job that stores the final file             *)
(* (backend/src/worker/files.processor.ts).  A file counts toward the      *)
(* quota while it is PENDING or READY and not deleted.                     *)
(***************************************************************************)
EXTENDS Naturals, FiniteSetsExt

CONSTANTS
    File,
    Caller,         \* requests that complete an upload at the same time
    Worker,         \* places of the files queue (its concurrency)
    Quota,          \* max_storage_mb
    MaxSize,        \* bound: sizes
    MaxPuts,        \* bound: PUTs of one file
    Sent,           \* bound: files whose browser goes on to its PUT
    MaxTries,       \* attempts of a job
    MaxMishaps,     \* bound: requests that die, jobs that fail or stall
    NoFile

ASSUME FileAssumption ==
    /\ {Quota, MaxSize, MaxPuts, MaxMishaps} \subseteq Nat
    /\ MaxTries \in Nat \ {0}
    /\ NoFile \notin File /\ IsFiniteSet(File)

VARIABLES
    files,          \* file_objects
    tmp,            \* size of what the browser has stored under tmp/, 0 if nothing
    puts,           \* how often the browser stored something, of another size each time
    reserving,      \* files whose reservation found enough room, inside its transaction: size
    completing,     \* what each caller has loaded and where it is
    job,            \* files.process-{id} of the queue
    working,        \* the file each place is working on
    grown,          \* history: bytes that files grew by after their reservation
    mishaps         \* counted to bound the model

reserveVars == <<reserving, grown>>
jobVars == <<job, working>>
putVars == <<tmp, puts>>
fileVars == <<files, putVars, reserveVars, completing, jobVars, mishaps>>

FileRow == [status : {"NONE", "PENDING", "READY", "FAILED"}, size : 0 .. MaxSize,
            original : BOOLEAN,     \* is original_size_bytes written?
            deleted : BOOLEAN]
NewFile == [status |-> "NONE", size |-> 0, original |-> FALSE, deleted |-> FALSE]

NoCall == [pc |-> "idle", file |-> NoFile, size |-> 0]
Call == [pc : {"head", "store", "refuse", "enqueue"}, file : File, size : 0 .. MaxSize]

(* A job that is over is kept for a while, and a second one is ignored until then. *)
NoJob == [state |-> "none", tries |-> 0]
Job == [state : {"none", "waiting", "active", "kept"}, tries : 0 .. MaxTries - 1]

FileTypeOK ==
    /\ files \in [File -> FileRow]
    /\ tmp \in [File -> 0 .. MaxSize] /\ puts \in [File -> 0 .. MaxPuts]
    /\ reserving \in [File -> 0 .. MaxSize]
    /\ completing \in [Caller -> Call \cup {NoCall}]
    /\ job \in [File -> Job]
    /\ working \in [Worker -> File \cup {NoFile}]
    /\ grown \in Nat /\ mishaps \in Nat

FileInit ==
    /\ files = [f \in File |-> NewFile]
    /\ tmp = [f \in File |-> 0] /\ puts = [f \in File |-> 0]
    /\ reserving = [f \in File |-> 0]
    /\ completing = [u \in Caller |-> NoCall]
    /\ job = [f \in File |-> NoJob]
    /\ working = [w \in Worker |-> NoFile]
    /\ grown = 0 /\ mishaps = 0

-----------------------------------------------------------------------------
Used == SumFunctionOnSet([f \in File |-> files[f].size],
            {f \in File : files[f].status \in {"PENDING", "READY"} /\ ~files[f].deleted})

ReserveStep == UNCHANGED <<putVars, completing, jobVars, grown, mishaps>>

(* reserve: under the organisation's advisory lock, is there room? *)
BugReserve(f, size) ==      \* without the lock
    /\ files[f].status = "NONE" /\ reserving[f] = 0
    /\ Used + size <= Quota
    /\ reserving' = [reserving EXCEPT ![f] = size]
    /\ UNCHANGED files /\ ReserveStep

Reserve(f, size) ==
    /\ files[f].status = "NONE" /\ \A g \in File : reserving[g] = 0
    /\ Used + size <= Quota
    /\ reserving' = [reserving EXCEPT ![f] = size]
    /\ UNCHANGED files /\ ReserveStep

(* reserve: the row *)
SaveReserved(f) ==
    /\ reserving[f] # 0
    /\ files' = [files EXCEPT ![f] = [NewFile EXCEPT !.status = "PENDING", !.size = reserving[f]]]
    /\ reserving' = [reserving EXCEPT ![f] = 0]
    /\ ReserveStep

(* The browser's PUT, of any size; and again while the link is valid. *)
Put(f, size) ==
    /\ f \in Sent /\ files[f].status # "NONE" /\ size # tmp[f] /\ puts[f] < MaxPuts
    /\ tmp' = [tmp EXCEPT ![f] = size]
    /\ puts' = [puts EXCEPT ![f] = @ + 1]
    /\ UNCHANGED <<files, reserveVars, completing, jobVars, mishaps>>

(* remove *)
Remove(f) ==
    /\ files[f].status # "NONE" /\ ~files[f].deleted
    /\ files' = [files EXCEPT ![f].deleted = TRUE]
    /\ UNCHANGED <<putVars, reserveVars, completing, jobVars, mishaps>>

-----------------------------------------------------------------------------
Goto(u, call) == completing' = [completing EXCEPT ![u] = call]

(* complete: a row that is PENDING and not completed yet ... *)
Complete(u, f) ==
    /\ completing[u] = NoCall
    /\ files[f].status = "PENDING" /\ ~files[f].original /\ ~files[f].deleted
    /\ Goto(u, [pc |-> "head", file |-> f, size |-> files[f].size])
    /\ UNCHANGED <<files, putVars, reserveVars, jobVars, mishaps>>

(* ... its object in the store, compared with the size that was loaded ... *)
SizeOf(call) ==
    CASE tmp[call.file] = 0 -> NoCall
      [] tmp[call.file] > call.size -> [call EXCEPT !.pc = "refuse"]
      [] OTHER -> [call EXCEPT !.pc = "store", !.size = tmp[call.file]]

ReadSize(u) ==
    /\ completing[u].pc = "head"
    /\ Goto(u, SizeOf(completing[u]))
    /\ UNCHANGED <<files, putVars, reserveVars, jobVars, mishaps>>

(* ... and one of two updates by its id, whatever the row holds by now. *)
RefuseSize(u) ==
    /\ completing[u].pc = "refuse"
    /\ files' = [files EXCEPT ![completing[u].file].status = "FAILED"]
    /\ Goto(u, NoCall)
    /\ UNCHANGED <<putVars, reserveVars, jobVars, mishaps>>

Growth(f, size) == IF size > files[f].size THEN size - files[f].size ELSE 0

BugStoreSizes(u) ==     \* saves the row that was loaded
    LET f == completing[u].file  size == completing[u].size IN
    /\ completing[u].pc = "store"
    /\ files' = [files EXCEPT ![f] = [status |-> "PENDING", size |-> size, original |-> TRUE, deleted |-> FALSE]]
    /\ grown' = grown + Growth(f, size)
    /\ Goto(u, [completing[u] EXCEPT !.pc = "enqueue"])
    /\ UNCHANGED <<putVars, reserving, jobVars, mishaps>>

StoreSizes(u) ==
    LET f == completing[u].file  size == completing[u].size IN
    /\ completing[u].pc = "store"
    /\ files' = [files EXCEPT ![f].size = size, ![f].original = TRUE]
    /\ grown' = grown + Growth(f, size)
    /\ Goto(u, [completing[u] EXCEPT !.pc = "enqueue"])
    /\ UNCHANGED <<putVars, reserving, jobVars, mishaps>>

Enqueued(f) ==
    job' = IF job[f].state = "none" THEN [job EXCEPT ![f] = [state |-> "waiting", tries |-> 0]] ELSE job

Enqueue(u) ==
    /\ completing[u].pc = "enqueue"
    /\ Enqueued(completing[u].file)
    /\ Goto(u, NoCall)
    /\ UNCHANGED <<files, putVars, reserveVars, working, mishaps>>

CallerDies(u) ==
    /\ completing[u] # NoCall /\ mishaps < MaxMishaps /\ mishaps' = mishaps + 1
    /\ Goto(u, NoCall)
    /\ UNCHANGED <<files, putVars, reserveVars, jobVars>>

-----------------------------------------------------------------------------
JobStep == UNCHANGED <<putVars, reserving, completing>>
Rest(w) == working' = [working EXCEPT ![w] = NoFile]

(* process: anything but a completed upload is skipped *)
StartJob(w, f) ==
    /\ working[w] = NoFile /\ job[f].state = "waiting"
    /\ IF files[f].status = "PENDING" /\ files[f].original /\ ~files[f].deleted
       THEN /\ working' = [working EXCEPT ![w] = f]
            /\ job' = [job EXCEPT ![f].state = "active"]
       ELSE /\ job' = [job EXCEPT ![f].state = "kept"] /\ UNCHANGED working
    /\ UNCHANGED <<files, grown, mishaps>> /\ JobStep

(* process: the final write, of an image in its new size, while the row is PENDING *)
FinishJob(w, size) ==
    LET f == working[w] IN
    /\ f # NoFile
    /\ IF files[f].status = "PENDING"
       THEN /\ files' = [files EXCEPT ![f].status = "READY", ![f].size = size]
            /\ grown' = grown + Growth(f, size)
       ELSE UNCHANGED <<files, grown>>
    /\ job' = [job EXCEPT ![f].state = "kept"] /\ Rest(w)
    /\ UNCHANGED mishaps /\ JobStep

(* An error: another try, or markFailed after the last one. *)
BugFailJob(w) ==       \* one try too many
    LET f == working[w]  last == job[f].tries + 1 > MaxTries IN
    /\ f # NoFile /\ mishaps < MaxMishaps /\ mishaps' = mishaps + 1
    /\ files' = IF last /\ files[f].status = "PENDING"
                THEN [files EXCEPT ![f].status = "FAILED"] ELSE files
    /\ job' = [job EXCEPT ![f] = IF last THEN [@ EXCEPT !.state = "kept"]
                                         ELSE [state |-> "waiting", tries |-> @.tries + 1]]
    /\ Rest(w) /\ UNCHANGED grown /\ JobStep

FailJob(w) ==
    LET f == working[w]  last == job[f].tries + 1 >= MaxTries IN
    /\ f # NoFile /\ mishaps < MaxMishaps /\ mishaps' = mishaps + 1
    /\ files' = IF last /\ files[f].status = "PENDING"
                THEN [files EXCEPT ![f].status = "FAILED"] ELSE files
    /\ job' = [job EXCEPT ![f] = IF last THEN [@ EXCEPT !.state = "kept"]
                                         ELSE [state |-> "waiting", tries |-> @.tries + 1]]
    /\ Rest(w) /\ UNCHANGED grown /\ JobStep

(* The queue takes a job for stalled, though its worker may still be at work;
   or the worker is gone. *)
StallJob(w, gone) ==
    LET f == working[w] IN
    /\ f # NoFile /\ job[f].state = "active" /\ mishaps < MaxMishaps /\ mishaps' = mishaps + 1
    /\ job' = [job EXCEPT ![f].state = "waiting"]
    /\ IF gone THEN Rest(w) ELSE UNCHANGED working
    /\ UNCHANGED <<files, grown>> /\ JobStep

(* removeOnComplete, removeOnFail *)
ForgetJob(f) ==
    /\ job[f].state = "kept"
    /\ job' = [job EXCEPT ![f] = NoJob]
    /\ UNCHANGED <<files, working, grown, mishaps>> /\ JobStep

-----------------------------------------------------------------------------
(* sweep: links that were not completed in time, at any time from now on *)
Abandon(f) ==
    /\ files[f].status = "PENDING" /\ ~files[f].original
    /\ files' = [files EXCEPT ![f].status = "FAILED"]
    /\ UNCHANGED <<jobVars, grown, mishaps>> /\ JobStep

(* sweep: completed uploads that are still PENDING *)
Requeue(f) ==
    /\ files[f].status = "PENDING" /\ files[f].original /\ ~files[f].deleted
    /\ job[f].state = "none" /\ Enqueued(f)
    /\ UNCHANGED <<files, working, grown, mishaps>> /\ JobStep

-----------------------------------------------------------------------------
FileNext ==
    \/ \E f \in File :
          \/ \E size \in 1 .. MaxSize : Reserve(f, size) \/ Put(f, size)
          \/ SaveReserved(f) \/ Remove(f) \/ ForgetJob(f) \/ Abandon(f) \/ Requeue(f)
    \/ \E u \in Caller : (\E f \in File : Complete(u, f)) \/ ReadSize(u) \/ RefuseSize(u) \/ StoreSizes(u) \/ Enqueue(u) \/ CallerDies(u)
    \/ \E w \in Worker :
          \/ \E f \in File : StartJob(w, f)
          \/ \E size \in 1 .. MaxSize : FinishJob(w, size)
          \/ \E gone \in BOOLEAN : StallJob(w, gone)
          \/ FailJob(w)

FileSpec == FileInit /\ [][FileNext]_fileVars

-----------------------------------------------------------------------------
(* "Parallel uploads cannot pass the quota together": what is stored exceeds
   the quota by no more than files grew after their space was reserved. *)
QuotaKept == Used <= Quota + grown

(* The phase of a file: a PENDING one is uploaded when its completion was stored. *)
PhaseOf(row) ==
    CASE row.status = "NONE" -> "none"
      [] row.status = "PENDING" -> IF row.original THEN "uploaded" ELSE "reserved"
      [] OTHER -> row.status

(* What uploads promise (module FilePromise): requests that die, jobs that run twice
   and sweeps in between never skip a phase, go back or undo a removal.  A file
   that is READY becomes FAILED only if the browser sent two sizes. *)
Lifecycle == INSTANCE FilePromise WITH
    phase <- [f \in File |-> PhaseOf(files[f])],
    removed <- [f \in File |-> files[f].deleted],
    replaced <- [f \in File |-> puts[f] > 1]

FilesKeepPromise == Lifecycle!Spec

(* A completed upload does not stay PENDING: its request may die before the
   job is queued, its job may fail or stall. *)
UploadsSettled ==
    \A f \in File : files[f].original /\ ~files[f].deleted => files[f].status # "PENDING"
=============================================================================
