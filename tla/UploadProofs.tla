----------------------------- MODULE UploadProofs -----------------------------
(* Proofs about Upload, for any set of requests and of names, every limit  *)
(* on the size of a file and every number of retries.                      *)
EXTENDS Upload, TLAPS

ReqType ==
  [pc : {"waiting", "open", "write", "insert", "enqueue", "accepted", "rejected", "error"},
   name : Names, size : 0 .. MaxSize + 1, sent : 0 .. MaxSize, file : Uploads \cup {None}]
IngestType ==
  [pc : {"none", "queued", "open", "copy", "ingested", "failed"},
   file : Uploads \cup {None}, retries : 0 .. IngestRetries]

Pieces(n, u) == [i \in 1 .. n |-> u]

(* A file stays under the name it was created with, wherever it is open.   *)
FilesNamed ==
  /\ \A n \in Names : dir[n] # None => Dest(dir[n]) = n
  /\ \A u \in Uploads : req[u].file # None => Dest(req[u].file) = Dest(u)
  /\ \A u \in Uploads : ingest[u].file # None => Dest(ingest[u].file) = Dest(u)

(* Who writes or copies has a file open, and who ingests was accepted.     *)
Opened ==
  \A u \in Uploads :
    /\ At(u, "write") => req[u].file # None
    /\ Ingesting(u, "copy") => ingest[u].file # None
    /\ ingest[u].pc # "none" => At(u, "accepted")

(* What a name that nobody else uses holds at each step of its upload.     *)
Alone(u) ==
  ~Shared(u) =>
    /\ req[u].pc \in {"waiting", "open", "rejected"} => dir[Dest(u)] = None
    /\ req[u].pc \in {"waiting", "open"} => req[u].sent = 0
    /\ At(u, "write") => data[u] = Pieces(req[u].sent, u) /\ req[u].sent <= req[u].size
    /\ req[u].pc \in {"insert", "enqueue", "accepted", "error"} => data[u] = Own(u)
    /\ Ingesting(u, "copy") => \E k \in 0 .. req[u].size : copy[u] = Pieces(k, u)
    /\ Ingesting(u, "ingested") => copy[u] = Own(u)

Inv ==
  /\ TypeOK /\ SizeCap /\ FilesNamed /\ Opened
  /\ \A u \in Uploads : Alone(u)

LEMMA Parts ==
  ASSUME TypeOK, NEW u \in Uploads
  PROVE  /\ req[u] \in ReqType /\ ingest[u] \in IngestType
         /\ data[u] \in Chunks /\ copy[u] \in Chunks
         /\ Dest(u) \in Names /\ dir[Dest(u)] \in Uploads \cup {None}
         /\ None \notin Uploads /\ MaxSize \in Nat /\ MaxSize > 0 /\ IngestRetries \in Nat
<1>1. req[u] \in ReqType /\ ingest[u] \in IngestType  BY DEF TypeOK, ReqType, IngestType
<1>2. data[u] \in Chunks /\ copy[u] \in Chunks  BY DEF TypeOK
<1>3. Dest(u) \in Names  BY <1>1 DEF Dest, ReqType
<1>4. QED  BY <1>1, <1>2, <1>3, UploadAssumption DEF TypeOK

LEMMA InvInit == Init => Inv
<1> SUFFICES ASSUME Init PROVE Inv
  OBVIOUS
<1>1. \A u \in Uploads : req[u] \in [pc : {"waiting"}, name : Names, size : 0 .. MaxSize + 1,
                                     sent : {0}, file : {None}]
  BY DEF Init
<1>2. TypeOK
  <2>1. req \in [Uploads -> ReqType]
    <3>1. req \in [Uploads -> [pc : {"waiting"}, name : Names, size : 0 .. MaxSize + 1,
                               sent : {0}, file : {None}]]
      BY DEF Init
    <3>2. ASSUME NEW u \in Uploads PROVE req[u] \in ReqType
      BY <1>1, UploadAssumption DEF ReqType
    <3> QED  BY <3>1, <3>2
  <2>2. ingest \in [Uploads -> IngestType]
    BY UploadAssumption DEF Init, IngestType
  <2>3. data \in [Uploads -> Chunks] /\ copy \in [Uploads -> Chunks]
    BY DEF Init, Chunks
  <2> QED  BY <2>1, <2>2, <2>3 DEF Init, TypeOK, ReqType, IngestType
<1>3. \A u \in Uploads : data[u] = <<>> /\ req[u].pc = "waiting" /\ req[u].file = None
                           /\ ingest[u].file = None /\ ingest[u].pc = "none" /\ Dest(u) \in Names
  BY <1>1 DEF Init, Dest
<1>4. SizeCap
  BY <1>3, UploadAssumption DEF SizeCap
<1>5. FilesNamed /\ Opened
  BY <1>3 DEF Init, FilesNamed, Opened, At, Ingesting
<1>6. \A u \in Uploads : Alone(u)
  BY <1>1, <1>3 DEF Init, Alone, At, Ingesting
<1> QED  BY <1>2, <1>4, <1>5, <1>6 DEF Inv

(* What a step of u may touch.                                             *)
Requests(u) ==
  \/ Receive(u) \/ Open(u) \/ Write(u) \/ TooLarge(u) \/ SaveFails(u) \/ Saved(u)
  \/ Insert(u) \/ Enqueue(u) \/ RequestFails(u)
Ingests(u) ==
  Resolve(u) \/ OpenCopy(u) \/ CopyChunk(u) \/ IngestFails(u) \/ Validate(u)

Frame(u) ==
  /\ \A x \in Uploads \ {u} : req'[x] = req[x] /\ ingest'[x] = ingest[x] /\ copy'[x] = copy[x]
  /\ \A n \in Names \ {Dest(u)} : dir'[n] = dir[n]
  /\ \A f \in Uploads : Dest(f) # Dest(u) => data'[f] = data[f]
  /\ req'[u].name = req[u].name /\ req'[u].size = req[u].size

LEMMA WrittenTyped ==
  ASSUME NEW s \in Chunks, NEW k \in Nat, k > 0, NEW x \in Uploads
  PROVE  /\ WrittenAt(s, k, x) \in Chunks
         /\ Len(WrittenAt(s, k, x)) = IF k > Len(s) THEN k ELSE Len(s)
<1> DEFINE n == IF k > Len(s) THEN k ELSE Len(s)
<1>1. n \in Nat /\ Len(s) \in Nat  BY DEF Chunks
<1>2. \A i \in 1 .. n : (IF i = k THEN x ELSE IF i <= Len(s) THEN s[i] ELSE Hole)
                           \in Uploads \cup {Hole}
  BY <1>1 DEF Chunks
<1>3. WrittenAt(s, k, x) =
        [i \in 1 .. n |-> IF i = k THEN x ELSE IF i <= Len(s) THEN s[i] ELSE Hole]
  BY DEF WrittenAt
<1> HIDE DEF n
<1>4. WrittenAt(s, k, x) \in [1 .. n -> Uploads \cup {Hole}]  BY <1>2, <1>3
<1>5. WrittenAt(s, k, x) \in Chunks /\ Len(WrittenAt(s, k, x)) = n
  BY <1>1, <1>4 DEF Chunks
<1> QED  BY <1>5 DEF n

LEMMA UploadFrame == ASSUME Inv, NEW u \in Uploads, Requests(u) PROVE Frame(u)
<1>1. TypeOK /\ req[u] \in ReqType /\ Dest(u) \in Names  BY Parts DEF Inv
<1>2. CASE Open(u)
  <2> DEFINE f == IF dir[Dest(u)] = None THEN u ELSE dir[Dest(u)]
  <2>1. Dest(f) = Dest(u)  BY <1>1 DEF Inv, FilesNamed
  <2>2. /\ dir' = [dir EXCEPT ![Dest(u)] = f] /\ data' = [data EXCEPT ![f] = <<>>]
        /\ req' = [req EXCEPT ![u].pc = "write", ![u].file = f] /\ UNCHANGED <<ingest, copy>>
    BY <1>2 DEF Open
  <2> HIDE DEF f
  <2> QED  BY <1>1, <2>1, <2>2 DEF Frame, TypeOK, ReqType
<1>3. CASE Write(u)
  <2> DEFINE f == req[u].file
             s == WrittenAt(data[f], req[u].sent + 1, u)
  <2>1. Dest(f) = Dest(u)  BY <1>1, <1>3 DEF Write, Inv, FilesNamed, Opened
  <2>2. /\ data' = [data EXCEPT ![f] = s] /\ req' = [req EXCEPT ![u].sent = @ + 1]
        /\ UNCHANGED <<dir, ingest, copy>>
    BY <1>3 DEF Write, WriteChunk
  <2> HIDE DEF f, s
  <2> QED  BY <1>1, <2>1, <2>2 DEF Frame, TypeOK, ReqType
<1>4. CASE Enqueue(u)
  BY <1>1, <1>4 DEF Enqueue, Goto, Frame, TypeOK, ReqType
<1>5. CASE TooLarge(u) \/ SaveFails(u) \/ Saved(u)
  BY <1>1, <1>5 DEF TooLarge, SaveFails, Saved, Goto, Unlink, Frame, TypeOK, ReqType
<1>6. CASE Receive(u) \/ Insert(u) \/ RequestFails(u)
  BY <1>1, <1>6 DEF Receive, Insert, RequestFails, Goto, Frame, TypeOK, ReqType
<1> QED  BY <1>2, <1>3, <1>4, <1>5, <1>6 DEF Requests

LEMMA IngestFrame == ASSUME Inv, NEW u \in Uploads, Ingests(u) PROVE Frame(u)
<1>1. req[u].name = req[u].name /\ TypeOK  BY DEF Inv
<1>2. UNCHANGED <<dir, data, req>>
  BY DEF Ingests, Resolve, OpenCopy, CopyChunk, IngestFails, Validate
<1>3. \A x \in Uploads \ {u} : copy'[x] = copy[x]
  BY <1>1 DEF Ingests, Resolve, OpenCopy, CopyChunk, IngestFails, Validate, TypeOK
<1>4. \A x \in Uploads \ {u} : ingest'[x] = ingest[x]
  <2>1. CASE Resolve(u) \/ CopyChunk(u) \/ Validate(u)
    BY <1>1, <2>1 DEF Resolve, CopyChunk, Validate, IngestGoto, TypeOK
  <2>2. CASE OpenCopy(u)
    BY <1>1, <2>2 DEF OpenCopy, TypeOK
  <2>3. CASE IngestFails(u)
    BY <1>1, <2>3 DEF IngestFails, IngestGoto, TypeOK
  <2> QED  BY <2>1, <2>2, <2>3 DEF Ingests
<1> QED  BY <1>2, <1>3, <1>4 DEF Frame

(* What others do does not change what u finds under a name of its own.    *)
LEMMA OthersAlone ==
  ASSUME Inv, NEW u \in Uploads, NEW x \in Uploads, x # u, Frame(u)
  PROVE  Alone(x)'
<1>1. \A y \in Uploads : Dest(y)' = Dest(y) /\ Dest(y) \in Names
  BY Parts DEF Inv, Frame, Dest
<1>2. Shared(x)' <=> Shared(x)  BY <1>1 DEF Shared
<1>3. /\ req'[x] = req[x] /\ ingest'[x] = ingest[x] /\ copy'[x] = copy[x]
  BY DEF Frame
<1>4. ~Shared(x) => Dest(u) # Dest(x)  BY DEF Shared
<1>5. ~Shared(x) => dir'[Dest(x)] = dir[Dest(x)] /\ data'[x] = data[x]
  BY <1>1, <1>4 DEF Frame
<1>6. Alone(x)  BY DEF Inv
<1> QED  BY <1>1, <1>2, <1>3, <1>5, <1>6 DEF Alone, At, Ingesting, Own, Dest

-----------------------------------------------------------------------------
LEMMA TypeRequest == ASSUME Inv, NEW u \in Uploads, Requests(u) PROVE TypeOK' /\ SizeCap'
<1>1. /\ TypeOK /\ SizeCap /\ req[u] \in ReqType /\ Dest(u) \in Names
      /\ dir[Dest(u)] \in Uploads \cup {None}
      /\ MaxSize \in Nat /\ MaxSize > 0
      /\ req \in [Uploads -> ReqType] /\ ingest \in [Uploads -> IngestType]
  BY Parts DEF Inv, TypeOK, ReqType, IngestType
<1>2. SUFFICES /\ dir' \in [Names -> Uploads \cup {None}]
               /\ data' \in [Uploads -> Chunks] /\ copy' \in [Uploads -> Chunks]
               /\ req' \in [Uploads -> ReqType] /\ ingest' \in [Uploads -> IngestType]
               /\ \A f \in Uploads : Len(data'[f]) <= MaxSize
  BY DEF TypeOK, ReqType, IngestType, SizeCap
<1>3. CASE Open(u)
  <2> DEFINE f == IF dir[Dest(u)] = None THEN u ELSE dir[Dest(u)]
  <2>1. f \in Uploads  BY <1>1
  <2>2. /\ dir' = [dir EXCEPT ![Dest(u)] = f] /\ data' = [data EXCEPT ![f] = <<>>]
        /\ req' = [req EXCEPT ![u] = [@ EXCEPT !.pc = "write", !.file = f]]
        /\ UNCHANGED <<ingest, copy>>
    BY <1>3 DEF Open
  <2>3. <<>> \in Chunks /\ Len(<<>>) <= MaxSize  BY <1>1 DEF Chunks
  <2>4. [req[u] EXCEPT !.pc = "write", !.file = f] \in ReqType
    <3> HIDE DEF f
    <3> QED  BY <1>1, <2>1 DEF ReqType
  <2> HIDE DEF f
  <2> QED  BY <1>1, <2>1, <2>2, <2>3, <2>4 DEF TypeOK, SizeCap
<1>4. CASE Write(u)
  <2> DEFINE f == req[u].file
             s == WrittenAt(data[f], req[u].sent + 1, u)
  <2>1. f \in Uploads /\ data[f] \in Chunks
    BY <1>1, <1>4 DEF Write, Inv, Opened, ReqType, TypeOK
  <2>2. req[u].sent + 1 \in 0 .. MaxSize /\ req[u].sent + 1 > 0  BY <1>1, <1>4 DEF Write, ReqType
  <2>3. s \in Chunks /\ Len(s) <= MaxSize
    <3> DEFINE k == req[u].sent + 1
    <3>1. k \in Nat /\ k > 0 /\ k <= MaxSize  BY <1>1, <2>2
    <3>2. Len(data[f]) <= MaxSize  BY <1>1, <2>1 DEF SizeCap
    <3> HIDE DEF f, k
    <3>3. WrittenAt(data[f], k, u) \in Chunks /\ Len(WrittenAt(data[f], k, u)) <= MaxSize
      BY <2>1, <3>1, <3>2, WrittenTyped
    <3> QED  BY <3>3 DEF k
  <2>4. /\ data' = [data EXCEPT ![f] = s]
        /\ req' = [req EXCEPT ![u] = [@ EXCEPT !.sent = req[u].sent + 1]]
        /\ UNCHANGED <<dir, ingest, copy>>
    BY <1>1, <1>4 DEF Write, WriteChunk
  <2>5. [req[u] EXCEPT !.sent = req[u].sent + 1] \in ReqType  BY <1>1, <2>2 DEF ReqType
  <2> HIDE DEF f, s
  <2> QED  BY <1>1, <2>1, <2>3, <2>4, <2>5 DEF TypeOK, SizeCap
<1>5. CASE Enqueue(u)
  <2>1. [req[u] EXCEPT !.pc = "accepted"] \in ReqType  BY <1>1 DEF ReqType
  <2>2. [ingest[u] EXCEPT !.pc = "queued"] \in IngestType  BY <1>1 DEF IngestType
  <2>3. /\ req' = [req EXCEPT ![u] = [@ EXCEPT !.pc = "accepted"]]
        /\ ingest' = [ingest EXCEPT ![u] = [@ EXCEPT !.pc = "queued"]]
        /\ UNCHANGED <<dir, data, copy>>
    BY <1>5 DEF Enqueue, Goto
  <2> QED  BY <1>1, <2>1, <2>2, <2>3 DEF TypeOK, SizeCap
<1>6. CASE Receive(u) \/ TooLarge(u) \/ SaveFails(u) \/ Saved(u) \/ Insert(u) \/ RequestFails(u)
  <2>1. PICK p \in {"open", "rejected", "insert", "enqueue", "error"} :
          req' = [req EXCEPT ![u] = [@ EXCEPT !.pc = p]]
    BY <1>6 DEF Receive, TooLarge, SaveFails, Saved, Insert, RequestFails, Goto
  <2>2. [req[u] EXCEPT !.pc = p] \in ReqType  BY <1>1 DEF ReqType
  <2>3. UNCHANGED <<data, ingest, copy>> /\ (UNCHANGED dir \/ dir' = [dir EXCEPT ![Dest(u)] = None])
    BY <1>6 DEF Receive, TooLarge, SaveFails, Saved, Insert, RequestFails, Unlink
  <2> QED  BY <1>1, <2>1, <2>2, <2>3 DEF TypeOK, SizeCap
<1> QED  BY <1>3, <1>4, <1>5, <1>6 DEF Requests

LEMMA TypeIngest == ASSUME Inv, NEW u \in Uploads, Ingests(u) PROVE TypeOK' /\ SizeCap'
<1>1. /\ TypeOK /\ SizeCap /\ ingest[u] \in IngestType /\ copy[u] \in Chunks
      /\ dir[Dest(u)] \in Uploads \cup {None} /\ IngestRetries \in Nat
      /\ ingest \in [Uploads -> IngestType]
  BY Parts DEF Inv, TypeOK, IngestType
<1>2. UNCHANGED <<dir, data, req>>
  BY DEF Ingests, Resolve, OpenCopy, CopyChunk, IngestFails, Validate
<1>3. SUFFICES copy' \in [Uploads -> Chunks] /\ ingest' \in [Uploads -> IngestType]
  BY <1>1, <1>2 DEF TypeOK, IngestType, SizeCap
<1>4. CASE Resolve(u) \/ Validate(u)
  <2>1. PICK p \in {"open", "failed", "ingested"} :
          ingest' = [ingest EXCEPT ![u] = [@ EXCEPT !.pc = p]]
    BY <1>4 DEF Resolve, Validate, IngestGoto
  <2>2. [ingest[u] EXCEPT !.pc = p] \in IngestType  BY <1>1 DEF IngestType
  <2> QED  BY <1>1, <1>4, <2>1, <2>2 DEF Resolve, Validate, TypeOK
<1>5. CASE OpenCopy(u)
  <2>1. ingest' = [ingest EXCEPT ![u] = [@ EXCEPT !.pc = "copy", !.file = dir[Dest(u)]]]
    BY <1>5 DEF OpenCopy
  <2>2. [ingest[u] EXCEPT !.pc = "copy", !.file = dir[Dest(u)]] \in IngestType
    BY <1>1 DEF IngestType
  <2> QED  BY <1>1, <1>5, <2>1, <2>2 DEF OpenCopy, TypeOK, Chunks
<1>6. CASE CopyChunk(u)
  <2> DEFINE f == ingest[u].file
             k == Len(copy[u]) + 1
  <2>1. f \in Uploads /\ data[f] \in Chunks
    BY <1>1, <1>6 DEF CopyChunk, Inv, Opened, TypeOK, IngestType
  <2>2. k \in DOMAIN data[f]  BY <1>1, <1>6, <2>1 DEF CopyChunk, Chunks
  <2>3. Append(copy[u], data[f][k]) \in Chunks  BY <1>1, <2>1, <2>2 DEF Chunks
  <2>4. copy' = [copy EXCEPT ![u] = Append(@, data[f][k])] /\ UNCHANGED ingest
    BY <1>1, <1>6 DEF CopyChunk, TypeOK
  <2> HIDE DEF f, k
  <2> QED  BY <1>1, <2>3, <2>4 DEF TypeOK
<1>7. CASE IngestFails(u)
  <2> DEFINE n == ingest[u].retries + 1
  <2>1. \/ /\ ingest[u].retries < IngestRetries
           /\ ingest' = [ingest EXCEPT ![u].pc = "queued", ![u].retries = n]
        \/ ingest' = [ingest EXCEPT ![u].pc = "failed"]
    BY <1>1, <1>7 DEF IngestFails, IngestGoto
  <2>2. [ingest[u] EXCEPT !.pc = "failed"] \in IngestType  BY <1>1 DEF IngestType
  <2>3. ingest[u].retries < IngestRetries =>
          [ingest[u] EXCEPT !.pc = "queued", !.retries = n] \in IngestType
    <3>1. ingest[u].retries < IngestRetries => n \in 0 .. IngestRetries
      BY <1>1 DEF IngestType
    <3> HIDE DEF n
    <3> QED  BY <1>1, <3>1 DEF IngestType
  <2> HIDE DEF n
  <2> QED  BY <1>1, <1>7, <2>1, <2>2, <2>3 DEF IngestFails, TypeOK
<1> QED  BY <1>4, <1>5, <1>6, <1>7 DEF Ingests

-----------------------------------------------------------------------------
LEMMA NamedStep ==
  ASSUME Inv, NEW u \in Uploads, Requests(u) \/ Ingests(u), Frame(u)
  PROVE  FilesNamed'
<1>1. TypeOK /\ FilesNamed  BY DEF Inv
<1>2. \A y \in Uploads : req'[y].name = Dest(y) /\ Dest(y) \in Names /\ dir[Dest(y)] \in Uploads \cup {None}
                           /\ req[y] \in ReqType /\ ingest[y] \in IngestType
  BY Parts, <1>1 DEF Frame, Dest
<1>3. /\ dir'[Dest(u)] \in {dir[Dest(u)], None, u}
      /\ req'[u].file \in {req[u].file, u, dir[Dest(u)]}
      /\ ingest'[u].file \in {ingest[u].file, dir[Dest(u)]}
  <2>1. CASE Open(u)
    BY <1>1, <1>2, <2>1 DEF Open, TypeOK, ReqType
  <2>2. CASE Write(u) \/ Enqueue(u)
    BY <1>1, <1>2, <2>2 DEF Write, WriteChunk, Enqueue, Goto, TypeOK, ReqType, IngestType
  <2>3. CASE Receive(u) \/ TooLarge(u) \/ SaveFails(u) \/ Saved(u) \/ Insert(u) \/ RequestFails(u)
    BY <1>1, <1>2, <2>3
       DEF Receive, TooLarge, SaveFails, Saved, Insert, RequestFails, Goto, Unlink, TypeOK, ReqType
  <2>4. CASE Resolve(u) \/ Validate(u) \/ IngestFails(u)
    BY <1>1, <1>2, <2>4 DEF Resolve, Validate, IngestFails, IngestGoto, TypeOK, IngestType
  <2>5. CASE OpenCopy(u) \/ CopyChunk(u)
    BY <1>1, <1>2, <2>5 DEF OpenCopy, CopyChunk, TypeOK, IngestType
  <2> QED  BY <2>1, <2>2, <2>3, <2>4, <2>5 DEF Requests, Ingests
<1>4. \A n \in Names : dir'[n] # None => req'[dir'[n]].name = n
  <2> TAKE n \in Names
  <2>1. dir[n] \in Uploads \cup {None}  BY <1>1 DEF TypeOK
  <2>2. CASE n = Dest(u)  BY <1>1, <1>2, <1>3, <2>1, <2>2 DEF FilesNamed
  <2>3. CASE n # Dest(u)  BY <1>1, <1>2, <2>1, <2>3 DEF FilesNamed, Frame
  <2> QED  BY <2>2, <2>3
<1>5. ASSUME NEW y \in Uploads
      PROVE  /\ req'[y].file # None => req'[req'[y].file].name = req'[y].name
             /\ ingest'[y].file # None => req'[ingest'[y].file].name = req'[y].name
  <2>1. req[y].file \in Uploads \cup {None} /\ ingest[y].file \in Uploads \cup {None}
    BY <1>2 DEF ReqType, IngestType
  <2>2. CASE y = u  BY <1>1, <1>2, <1>3, <2>1, <2>2 DEF FilesNamed
  <2>3. CASE y # u  BY <1>1, <1>2, <2>1, <2>3 DEF FilesNamed, Frame
  <2> QED  BY <2>2, <2>3
<1> QED  BY <1>4, <1>5 DEF FilesNamed, Dest

LEMMA OpenedStep ==
  ASSUME Inv, NEW u \in Uploads, Requests(u) \/ Ingests(u), Frame(u)
  PROVE  Opened'
<1>1. TypeOK /\ Opened  BY DEF Inv
<1>2. req[u] \in ReqType /\ ingest[u] \in IngestType /\ dir[Dest(u)] \in Uploads \cup {None}
      /\ None \notin Uploads
  BY Parts, <1>1
<1>3. SUFFICES /\ req'[u].pc = "write" => req'[u].file # None
               /\ ingest'[u].pc = "copy" => ingest'[u].file # None
               /\ ingest'[u].pc # "none" => req'[u].pc = "accepted"
  BY <1>1 DEF Opened, Frame, At, Ingesting
<1>4. CASE Open(u)
  BY <1>1, <1>2, <1>4 DEF Open, TypeOK, ReqType, Opened, At, Ingesting
<1>5. CASE Write(u) \/ Enqueue(u)
  BY <1>1, <1>2, <1>5
     DEF Write, WriteChunk, Enqueue, Goto, TypeOK, ReqType, IngestType, Opened, At, Ingesting
<1>6. CASE Receive(u) \/ TooLarge(u) \/ SaveFails(u) \/ Saved(u) \/ Insert(u) \/ RequestFails(u)
  BY <1>1, <1>2, <1>6
     DEF Receive, TooLarge, SaveFails, Saved, Insert, RequestFails, Goto, TypeOK, ReqType,
         Opened, At, Ingesting
<1>7. CASE Resolve(u) \/ Validate(u) \/ IngestFails(u)
  BY <1>1, <1>2, <1>7
     DEF Resolve, Validate, IngestFails, IngestGoto, TypeOK, IngestType, Opened, At, Ingesting
<1>8. CASE OpenCopy(u) \/ CopyChunk(u)
  BY <1>1, <1>2, <1>8 DEF OpenCopy, CopyChunk, TypeOK, IngestType, Opened, At, Ingesting
<1> QED  BY <1>4, <1>5, <1>6, <1>7, <1>8 DEF Requests, Ingests

-----------------------------------------------------------------------------
LEMMA Piecewise ==
  ASSUME NEW u \in Uploads, NEW n \in Nat
  PROVE  /\ Pieces(n, u) \in Seq({u}) /\ Len(Pieces(n, u)) = n
         /\ Pieces(0, u) = <<>>
         /\ \A i \in 1 .. n : Pieces(n, u)[i] = u
         /\ Append(Pieces(n, u), u) = Pieces(n + 1, u)
         /\ WrittenAt(Pieces(n, u), n + 1, u) = Pieces(n + 1, u)
<1>1. Pieces(n, u) \in Seq({u}) /\ Len(Pieces(n, u)) = n
  BY DEF Pieces
<1>2. Pieces(0, u) = <<>>
  BY DEF Pieces
<1>3. \A i \in 1 .. n : Pieces(n, u)[i] = u
  BY DEF Pieces
<1>4. Append(Pieces(n, u), u) = Pieces(n + 1, u)
  BY DEF Pieces
<1>5. WrittenAt(Pieces(n, u), n + 1, u) = Pieces(n + 1, u)
  <2>1. WrittenAt(Pieces(n, u), n + 1, u) =
          [i \in 1 .. n + 1 |-> IF i = n + 1 THEN u
                               ELSE IF i <= n THEN Pieces(n, u)[i] ELSE Hole]
    BY <1>1 DEF WrittenAt
  <2>2. \A i \in 1 .. n + 1 :
          (IF i = n + 1 THEN u ELSE IF i <= n THEN Pieces(n, u)[i] ELSE Hole) = u
    BY <1>3
  <2> QED  BY <2>1, <2>2 DEF Pieces
<1> QED  BY <1>1, <1>2, <1>3, <1>4, <1>5

(* Nobody else's file has a name that only u uses.                         *)
LEMMA Mine ==
  ASSUME Inv, NEW u \in Uploads, ~Shared(u)
  PROVE  dir[Dest(u)] \in {None, u} /\ req[u].file \in {None, u} /\ ingest[u].file \in {None, u}
<1>1. /\ dir[Dest(u)] \in Uploads \cup {None} /\ Dest(u) \in Names
      /\ req[u].file \in Uploads \cup {None} /\ ingest[u].file \in Uploads \cup {None}
  BY Parts DEF Inv, ReqType, IngestType
<1>2. \A f \in Uploads : Dest(f) = Dest(u) => f = u  BY DEF Shared
<1> QED  BY <1>1, <1>2 DEF Inv, FilesNamed

LEMMA AloneRequest ==
  ASSUME Inv, NEW u \in Uploads, ~Shared(u), Requests(u), req'[u].name = req[u].name
  PROVE  Alone(u)'
<1>1. /\ TypeOK /\ req \in [Uploads -> ReqType] /\ req[u] \in ReqType /\ ingest[u] \in IngestType
      /\ Dest(u) \in Names /\ None \notin Uploads /\ Dest(u) = req[u].name
  BY Parts DEF Inv, TypeOK, ReqType, Dest
<1>2. /\ req[u].pc \in {"waiting", "open"} => dir[Dest(u)] = None /\ req[u].sent = 0
      /\ req[u].pc = "write" => /\ data[u] = Pieces(req[u].sent, u) /\ req[u].sent <= req[u].size
                                /\ req[u].file = u
      /\ req[u].pc \in {"insert", "enqueue"} => data[u] = Pieces(req[u].size, u)
  BY Mine DEF Inv, Alone, Opened, At, Own, Pieces
<1>3. ingest[u].pc = "none"
  BY DEF Inv, Opened, At, Requests, Receive, Open, Write, TooLarge, SaveFails, Saved, Insert, Enqueue,
         RequestFails
<1>4. SUFFICES /\ ingest'[u].pc \notin {"copy", "ingested"}
               /\ req'[u].pc \in {"waiting", "open", "rejected"} => dir'[Dest(u)] = None
               /\ req'[u].pc \in {"waiting", "open"} => req'[u].sent = 0
               /\ req'[u].pc = "write" =>
                    data'[u] = Pieces(req'[u].sent, u) /\ req'[u].sent <= req'[u].size
               /\ req'[u].pc \in {"insert", "enqueue", "accepted", "error"} =>
                    data'[u] = Pieces(req'[u].size, u)
  BY <1>1 DEF Alone, At, Ingesting, Own, Pieces, Dest
<1>5. CASE Open(u)
  <2>1. /\ req' = [req EXCEPT ![u].pc = "write", ![u].file = u]
        /\ data' = [data EXCEPT ![u] = <<>>] /\ ingest' = ingest /\ req[u].sent = 0
    BY <1>2, <1>5 DEF Open, At
  <2>2. Pieces(0, u) = <<>>  BY Piecewise
  <2>3. /\ req'[u].pc = "write" /\ req'[u].sent = 0 /\ req'[u].size = req[u].size
        /\ data'[u] = <<>> /\ req[u].size \in Nat
    BY <1>1, <2>1, UploadAssumption DEF ReqType, TypeOK
  <2> QED  BY <1>3, <2>1, <2>2, <2>3
<1>6. CASE Write(u)
  <2>1. /\ req[u].pc = "write" /\ req[u].sent < req[u].size
        /\ req' = [req EXCEPT ![u].sent = @ + 1]
        /\ data' = [data EXCEPT ![u] = WrittenAt(data[u], req[u].sent + 1, u)] /\ ingest' = ingest
    BY <1>2, <1>6 DEF Write, WriteChunk, At
  <2>2. req[u].sent \in Nat /\ req[u].size \in Nat  BY <1>1, UploadAssumption DEF ReqType
  <2>3. data'[u] = Pieces(req[u].sent + 1, u)
    <3>1. data'[u] = WrittenAt(data[u], req[u].sent + 1, u)  BY <1>1, <2>1 DEF TypeOK
    <3>2. WrittenAt(Pieces(req[u].sent, u), req[u].sent + 1, u) = Pieces(req[u].sent + 1, u)
      BY <2>2, Piecewise
    <3> QED  BY <1>2, <2>1, <3>1, <3>2
  <2>4. /\ req'[u].pc = "write" /\ req'[u].sent = req[u].sent + 1 /\ req'[u].size = req[u].size
    BY <1>1, <2>1 DEF ReqType
  <2> QED  BY <1>3, <2>1, <2>2, <2>3, <2>4
<1>7. CASE Enqueue(u)
  <2>1. req'[u].pc = "accepted" /\ req'[u].size = req[u].size /\ data' = data /\ req[u].pc = "enqueue"
        /\ ingest'[u].pc = "queued"
    BY <1>1, <1>7 DEF Enqueue, Goto, At, ReqType, TypeOK, IngestType
  <2> QED  BY <1>2, <2>1
<1>8. CASE TooLarge(u) \/ SaveFails(u)
  BY <1>1, <1>3, <1>8 DEF TooLarge, SaveFails, Goto, Unlink, ReqType, TypeOK
<1>9. CASE Saved(u)
  BY <1>1, <1>2, <1>3, <1>9 DEF Saved, Goto, Unlink, ReqType, TypeOK, At
<1>10. CASE Receive(u) \/ Insert(u) \/ RequestFails(u)
  BY <1>1, <1>2, <1>3, <1>10 DEF Receive, Insert, RequestFails, Goto, ReqType, TypeOK, At
<1> QED  BY <1>5, <1>6, <1>7, <1>8, <1>9, <1>10 DEF Requests

LEMMA AloneIngest ==
  ASSUME Inv, NEW u \in Uploads, ~Shared(u), Ingests(u)
  PROVE  Alone(u)'
<1>1. /\ TypeOK /\ ingest \in [Uploads -> IngestType] /\ ingest[u] \in IngestType
      /\ req[u] \in ReqType /\ req[u].size \in Nat
  BY Parts, UploadAssumption DEF Inv, TypeOK, IngestType, ReqType
<1>a. req[u].size \in Nat  BY <1>1
<1>b. Len(Pieces(req[u].size, u)) = req[u].size  BY <1>a, Piecewise
<1>2. req[u].pc = "accepted"
  BY DEF Inv, Opened, At, Ingesting, Ingests, Resolve, OpenCopy, CopyChunk, IngestFails, Validate
<1>3. /\ data[u] = Pieces(req[u].size, u)
      /\ ingest[u].pc = "copy" =>
           ingest[u].file = u /\ \E k \in 0 .. req[u].size : copy[u] = Pieces(k, u)
      /\ ingest[u].pc = "ingested" => copy[u] = Pieces(req[u].size, u)
  BY <1>2, Mine DEF Inv, Alone, Opened, At, Ingesting, Own, Pieces
<1>4. UNCHANGED <<dir, data, req>>
  BY DEF Ingests, Resolve, OpenCopy, CopyChunk, IngestFails, Validate
<1>5. SUFFICES /\ ingest'[u].pc = "copy" => \E k \in 0 .. req[u].size : copy'[u] = Pieces(k, u)
               /\ ingest'[u].pc = "ingested" => copy'[u] = Pieces(req[u].size, u)
  BY <1>2, <1>3, <1>4 DEF Alone, At, Ingesting, Own, Pieces
<1>6. CASE OpenCopy(u)
  <2>1. Pieces(0, u) = <<>> /\ 0 \in 0 .. req[u].size
    <3>1. Pieces(0, u) = <<>>  BY Piecewise
    <3> QED  BY <3>1, <1>a
  <2>2. copy'[u] = <<>> /\ ingest'[u].pc = "copy"
    BY <1>1, <1>6 DEF OpenCopy, TypeOK, IngestType
  <2> QED  BY <2>1, <2>2
<1>7. CASE CopyChunk(u)
  <2>1. PICK k \in 0 .. req[u].size : copy[u] = Pieces(k, u)
    BY <1>3, <1>7 DEF CopyChunk, Ingesting
  <2>2. Len(copy[u]) = k /\ Len(data[u]) = req[u].size /\ ingest[u].file = u /\ k \in Nat
    <3>1. k \in Nat  BY <1>a
    <3>2. Len(Pieces(k, u)) = k  BY <3>1, Piecewise
    <3> QED  BY <1>3, <1>b, <1>7, <2>1, <3>1, <3>2 DEF CopyChunk, Ingesting
  <2>3. k < req[u].size /\ copy'[u] = Append(copy[u], data[u][k + 1]) /\ ingest' = ingest
        /\ ingest[u].pc = "copy"
    BY <1>1, <1>7, <2>2 DEF CopyChunk, Ingesting, TypeOK
  <2>4. data[u][k + 1] = u
    <3>1. k + 1 \in 1 .. req[u].size  BY <1>1, <2>2, <2>3
    <3>2. Pieces(req[u].size, u)[k + 1] = u  BY <1>1, <3>1, Piecewise
    <3> QED  BY <1>3, <3>2
  <2>5. copy'[u] = Pieces(k + 1, u) /\ k + 1 \in 0 .. req[u].size
    <3>1. Append(Pieces(k, u), u) = Pieces(k + 1, u)  BY <2>2, Piecewise
    <3> QED  BY <1>1, <2>1, <2>2, <2>3, <2>4, <3>1
  <2> QED  BY <2>3, <2>5
<1>8. CASE Validate(u)
  <2>1. PICK k \in 0 .. req[u].size : copy[u] = Pieces(k, u)
    BY <1>3, <1>8 DEF Validate, Ingesting
  <2>2. Len(copy[u]) = k /\ Len(data[u]) = req[u].size /\ ingest[u].file = u
    <3>1. k \in Nat  BY <1>a
    <3>2. Len(Pieces(k, u)) = k  BY <3>1, Piecewise
    <3> QED  BY <1>3, <1>b, <1>8, <2>1, <3>2 DEF Validate, Ingesting
  <2>3. k = req[u].size /\ copy' = copy /\ ingest'[u].pc # "copy"
    BY <1>1, <1>8, <2>2 DEF Validate, IngestGoto, TypeOK, IngestType
  <2> QED  BY <2>1, <2>3
<1>9. CASE Resolve(u) \/ IngestFails(u)
  BY <1>1, <1>9 DEF Resolve, IngestFails, IngestGoto, TypeOK, IngestType
<1> QED  BY <1>6, <1>7, <1>8, <1>9 DEF Ingests

LEMMA InvStep == Inv /\ [Next]_vars => Inv'
<1>1. ASSUME Inv, NEW u \in Uploads, Requests(u) \/ Ingests(u) PROVE Inv'
  <2>1. Frame(u)  BY <1>1, UploadFrame, IngestFrame
  <2>2. TypeOK' /\ SizeCap'  BY <1>1, TypeRequest, TypeIngest
  <2>3. FilesNamed' /\ Opened'  BY <1>1, <2>1, NamedStep, OpenedStep
  <2>4. ASSUME NEW x \in Uploads PROVE Alone(x)'
    <3>1. CASE x # u  BY <1>1, <2>1, <3>1, OthersAlone
    <3>2. CASE x = u /\ ~Shared(u)
      BY <1>1, <2>1, <3>2, AloneRequest, AloneIngest DEF Frame
    <3>3. CASE x = u /\ Shared(u)
      <4>1. \A y \in Uploads : Dest(y)' = Dest(y)  BY <2>1 DEF Frame, Dest
      <4>2. Shared(x)'  BY <3>3, <4>1 DEF Shared
      <4> QED  BY <4>2 DEF Alone
    <3> QED  BY <3>1, <3>2, <3>3
  <2> QED  BY <2>2, <2>3, <2>4 DEF Inv
<1>2. ASSUME Inv, UNCHANGED vars PROVE Inv'
  BY <1>2 DEF vars, Inv, TypeOK, SizeCap, FilesNamed, Opened, Alone, Shared, Dest, At, Ingesting, Own
<1> QED  BY <1>1, <1>2 DEF Next, Requests, Ingests

LEMMA Invariant == Spec => []Inv
BY InvInit, InvStep, PTL DEF Spec

(* Requests, files, ingests and copies keep their types.                   *)
THEOREM UploadTypes == Spec => []TypeOK
BY Invariant, PTL DEF Inv

(* No file outgrows the limit, for any number of concurrent requests.      *)
THEOREM SizesAreCapped == Spec => []SizeCap
BY Invariant, PTL DEF Inv

(* A refused request with a name of its own leaves no file.                *)
THEOREM RefusedLeavesNothing == Spec => []RejectedLeavesNothing
<1>1. Inv => RejectedLeavesNothing  BY DEF Inv, Alone, RejectedLeavesNothing, At
<1> QED  BY <1>1, Invariant, PTL

(* An upload with a name of its own is ingested whole.                     *)
THEOREM WholeUploadIngested == Spec => []IngestsWholeUpload
<1>1. Inv => IngestsWholeUpload  BY DEF Inv, Alone, IngestsWholeUpload
<1> QED  BY <1>1, Invariant, PTL
=============================================================================
