-------------------------------- MODULE Upload --------------------------------
(***************************************************************************)
(* upload_video and the ingest of what it saved.  Requests run in threads  *)
(* of the API, ingests in workers, and both meet in INPUT_DIR: a directory *)
(* of names, where opening a name that exists truncates the file behind    *)
(* it, and removing a name leaves open descriptors usable.  A file is a    *)
(* sequence of chunks, each known by the request that wrote it.            *)
(***************************************************************************)
EXTENDS Naturals, Sequences

CONSTANTS
  Uploads,        \* requests; each is also the file it may create
  Names,          \* what sanitize_filename makes of the clients' names
  None,           \* no file
  MaxSize,        \* settings.max_upload_size_mb, in chunks
  IngestRetries   \* max_retries of process_video

ASSUME UploadAssumption ==
  /\ None \notin Uploads
  /\ MaxSize \in Nat \ {0}
  /\ IngestRetries \in Nat

VARIABLES
  dir,      \* INPUT_DIR: name -> file
  data,     \* file -> its chunks
  req,      \* request -> its thread
  ingest,   \* request -> the ingest of its video
  copy      \* request -> WORK_DIR/<video>/source.*

vars == <<dir, data, req, ingest, copy>>

Hole   == "hole"    \* never written, reads as zeros
Chunks == Seq(Uploads \cup {Hole})

TypeOK ==
  /\ dir \in [Names -> Uploads \cup {None}]
  /\ data \in [Uploads -> Chunks] /\ copy \in [Uploads -> Chunks]
  /\ req \in [Uploads ->
       [pc : {"waiting", "open", "write", "insert", "enqueue", "accepted", "rejected", "error"},
        name : Names, size : 0 .. MaxSize + 1, sent : 0 .. MaxSize, file : Uploads \cup {None}]]
  /\ ingest \in [Uploads ->
       [pc : {"none", "queued", "open", "copy", "ingested", "failed"},
        file : Uploads \cup {None}, retries : 0 .. IngestRetries]]

Init ==
  /\ dir = [n \in Names |-> None]
  /\ data = [u \in Uploads |-> <<>>] /\ copy = data
  /\ req \in [Uploads -> [pc : {"waiting"}, name : Names, size : 0 .. MaxSize + 1,
                          sent : {0}, file : {None}]]
  /\ ingest = [u \in Uploads |-> [pc |-> "none", file |-> None, retries |-> 0]]

Dest(u)    == req[u].name
At(u, pc)  == req[u].pc = pc
Goto(u, pc) == req' = [req EXCEPT ![u].pc = pc]
Unlink(u)  == dir' = [dir EXCEPT ![Dest(u)] = None]

-----------------------------------------------------------------------------
(* The request.                                                            *)

(* sanitize_filename accepts the name, or the request ends with a 400.     *)
Receive(u) ==
  /\ At(u, "waiting")
  /\ Goto(u, "open") \/ Goto(u, "rejected")
  /\ UNCHANGED <<dir, data, ingest, copy>>

(* dest.open("wb") creates the file or truncates the one that is there.    *)
Open(u) ==
  /\ At(u, "open")
  /\ LET f == IF dir[Dest(u)] = None THEN u ELSE dir[Dest(u)] IN
       /\ dir' = [dir EXCEPT ![Dest(u)] = f]
       /\ data' = [data EXCEPT ![f] = <<>>]
       /\ req' = [req EXCEPT ![u].pc = "write", ![u].file = f]
  /\ UNCHANGED <<ingest, copy>>

(* A write at offset k leaves a hole behind a shorter end of the file.     *)
WrittenAt(s, k, x) ==
  [i \in 1 .. (IF k > Len(s) THEN k ELSE Len(s)) |->
     IF i = k THEN x ELSE IF i <= Len(s) THEN s[i] ELSE Hole]

WriteChunk(u) ==
  /\ data' = [data EXCEPT ![req[u].file] = WrittenAt(@, req[u].sent + 1, u)]
  /\ req' = [req EXCEPT ![u].sent = @ + 1]
  /\ UNCHANGED <<dir, ingest, copy>>

(* Mutant: the total is not compared while the upload runs.                *)
WriteUnchecked(u) ==
  /\ At(u, "write") /\ req[u].sent < req[u].size
  /\ WriteChunk(u)

(* Mutant: the video is queued while its upload is still written.          *)
WriteAfterEnqueue(u) ==
  /\ At(u, "write") /\ req[u].sent < req[u].size /\ req[u].sent + 1 <= MaxSize
  /\ data' = [data EXCEPT ![req[u].file] = WrittenAt(@, req[u].sent + 1, u)]
  /\ req' = [req EXCEPT ![u].sent = @ + 1]
  /\ ingest' = [ingest EXCEPT ![u].pc = IF @ = "none" THEN "queued" ELSE @]
  /\ UNCHANGED <<dir, copy>>

Write(u) ==
  /\ At(u, "write") /\ req[u].sent < req[u].size
  /\ req[u].sent + 1 <= MaxSize
  /\ WriteChunk(u)

(* Mutant: a 413 keeps the file.                                           *)
TooLargeKept(u) ==
  /\ At(u, "write") /\ req[u].sent < req[u].size /\ req[u].sent + 1 > MaxSize
  /\ Goto(u, "rejected")
  /\ UNCHANGED <<dir, data, ingest, copy>>

TooLarge(u) ==
  /\ At(u, "write") /\ req[u].sent < req[u].size
  /\ req[u].sent + 1 > MaxSize
  /\ Unlink(u) /\ Goto(u, "rejected")
  /\ UNCHANGED <<data, ingest, copy>>

(* OSError from open or write: the name is removed, whoever created it.    *)
SaveFails(u) ==
  /\ At(u, "open") \/ (At(u, "write") /\ req[u].sent < req[u].size)
  /\ Unlink(u) /\ Goto(u, "rejected")
  /\ UNCHANGED <<data, ingest, copy>>

(* End of the upload; validate_upload_size refuses an empty one.           *)
Saved(u) ==
  /\ At(u, "write") /\ req[u].sent = req[u].size
  /\ IF req[u].size = 0 THEN Unlink(u) /\ Goto(u, "rejected")
                        ELSE Goto(u, "insert") /\ UNCHANGED dir
  /\ UNCHANGED <<data, ingest, copy>>

Insert(u) ==
  /\ At(u, "insert") /\ Goto(u, "enqueue")
  /\ UNCHANGED <<dir, data, ingest, copy>>

Enqueue(u) ==
  /\ At(u, "enqueue") /\ Goto(u, "accepted")
  /\ ingest' = [ingest EXCEPT ![u].pc = "queued"]
  /\ UNCHANGED <<dir, data, copy>>

(* The commit or the publication raises: a 500, and the file stays.        *)
RequestFails(u) ==
  /\ At(u, "insert") \/ At(u, "enqueue")
  /\ Goto(u, "error")
  /\ UNCHANGED <<dir, data, ingest, copy>>

-----------------------------------------------------------------------------
(* The ingest stage of the video.                                          *)

Ingesting(u, pc) == ingest[u].pc = pc
IngestGoto(u, pc) == ingest' = [ingest EXCEPT ![u].pc = pc]

(* resolve_local_source: a missing file is a ValidationError, not retried. *)
Resolve(u) ==
  /\ Ingesting(u, "queued")
  /\ IngestGoto(u, IF dir[Dest(u)] = None THEN "failed" ELSE "open")
  /\ UNCHANGED <<dir, data, req, copy>>

(* copy2 opens the name again and truncates its destination.               *)
OpenCopy(u) ==
  /\ Ingesting(u, "open") /\ dir[Dest(u)] # None
  /\ ingest' = [ingest EXCEPT ![u].pc = "copy", ![u].file = dir[Dest(u)]]
  /\ copy' = [copy EXCEPT ![u] = <<>>]
  /\ UNCHANGED <<dir, data, req>>

CopyChunk(u) ==
  /\ Ingesting(u, "copy")
  /\ Len(copy[u]) < Len(data[ingest[u].file])
  /\ copy' = [copy EXCEPT ![u] = Append(@, data[ingest[u].file][Len(@) + 1])]
  /\ UNCHANGED <<dir, data, req, ingest>>

(* Retryable are an OSError of the copy, as an IngestError, and ffprobe    *)
(* finding no duration in the copy, as an FFmpegExecutionError.            *)
IngestFails(u) ==
  /\ Ingesting(u, "open") \/ Ingesting(u, "copy")
  /\ IF ingest[u].retries < IngestRetries
       THEN ingest' = [ingest EXCEPT ![u].pc = "queued", ![u].retries = @ + 1]
       ELSE IngestGoto(u, "failed")
  /\ UNCHANGED <<dir, data, req, copy>>

(* End of file.  Of what has a duration, validate_media_file refuses what  *)
(* is no video, for good; an empty copy passes neither.                    *)
Validate(u) ==
  /\ Ingesting(u, "copy")
  /\ Len(copy[u]) >= Len(data[ingest[u].file])
  /\ IngestGoto(u, "failed") \/ (copy[u] # <<>> /\ IngestGoto(u, "ingested"))
  /\ UNCHANGED <<dir, data, req, copy>>

Next == \E u \in Uploads :
  \/ Receive(u) \/ Open(u) \/ Write(u) \/ TooLarge(u) \/ SaveFails(u) \/ Saved(u)
  \/ Insert(u) \/ Enqueue(u) \/ RequestFails(u)
  \/ Resolve(u) \/ OpenCopy(u) \/ CopyChunk(u) \/ IngestFails(u) \/ Validate(u)

Spec == Init /\ [][Next]_vars

-----------------------------------------------------------------------------
Shared(u) == \E v \in Uploads \ {u} : Dest(v) = Dest(u)
Own(u)    == [i \in 1 .. req[u].size |-> u]

(* No file in INPUT_DIR grows beyond the limit, not even while a request   *)
(* that will be refused is running or two requests write to one file.      *)
SizeCap == \A f \in Uploads : Len(data[f]) <= MaxSize

(* A request that was refused leaves no file under its name, whichever     *)
(* check or write refused it.                                              *)
RejectedLeavesNothing ==
  \A u \in Uploads : At(u, "rejected") /\ ~Shared(u) => dir[Dest(u)] = None

(* What a worker ingests for an upload with a name of its own is all of    *)
(* that upload, whatever else is uploaded, refused or retried meanwhile.   *)
IngestsWholeUpload ==
  \A u \in Uploads : Ingesting(u, "ingested") /\ ~Shared(u) => copy[u] = Own(u)
=============================================================================
