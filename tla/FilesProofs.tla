---------------------------- MODULE FilesProofs ----------------------------
(***************************************************************************)
(* Proofs about uploads (module FileUpload) and downloads (FileDownload):  *)
(* what holds of them for any number of transfers, connections, contents   *)
(* and failing awaits.                                                     *)
(*                                                                         *)
(* The argument about uploads is about the token of an upload: the one     *)
(* message or call by which it goes on.  As long as no chunk is counted to *)
(* an upload that did not send it, an upload has at most one (OneInv), so  *)
(* nothing else touches its object, its temporary file, its blob and its   *)
(* row, and what these hold at each stage can be said.  A closed           *)
(* connection adds one call, which only aborts and marks.                  *)
(*                                                                         *)
(* Downloads follow: the same of the one message that an exclusive         *)
(* download is carried on by (AloneDownload).                              *)
(***************************************************************************)
EXTENDS FileUpload, FileDownload, SequenceTheorems, TLAPS

Early == {"lookup", "link", "clear", "add"}
Stored == {"find", "remove", "update", "updated", "load"}
Whole == {"finish"} \cup Stored
Closing(k) == k.by.type = "close"
Fresh == [offset |-> 0, hash |-> <<>>, digested |-> FALSE]

Progress == [offset : Nat, hash : Seq(Chunk), digested : BOOLEAN]
Row == [status : {"none", "uploading", "ready", "failed"},
        key : Uploads \cup {None}, size : Nat, sha : Seq(Chunk)]

\* Types, as TypeOK says them and where it is silent.
TypesInv ==
    /\ tab \in [Uploads -> {"new", "waiting", "done", "error"}]
    /\ job \in [Uploads -> Job] /\ held \in [Uploads -> Holdup]
    /\ open \subseteq Clients
    /\ active \in [Clients -> Uploads \cup {None}]
    /\ progress \in [Uploads -> Progress]
    /\ rows \in [Uploads -> Row]
    /\ DOMAIN tmp \subseteq Uploads /\ tmp \in [DOMAIN tmp -> Seq(Chunk)]
    /\ DOMAIN blobs \subseteq Uploads /\ blobs \in [DOMAIN blobs -> Seq(Chunk)]
    /\ faults \in 0 .. MaxFaults
    /\ lapses \subseteq Lapse

UploadInv ==
    \A u \in Uploads :
        /\ progress[u].offset <= Size(u)
        /\ ~progress[u].digested /\ Size(u) > 0 => progress[u].offset < Size(u)
        /\ rows[u].status = "ready" => rows[u].key # None
        /\ tab[u] = "new" => job[u] = NoJob /\ progress[u] = Fresh /\ rows[u] = NoRow
                             /\ u \notin DOMAIN tmp /\ u \notin DOMAIN blobs
        /\ tab[u] # "new" => job[u].client \in Clients /\ job[u].file \in Files

WireInv ==
    \A m \in wire :
        /\ m \in Message /\ m.type # "close" /\ m.u \in Uploads
        /\ m.client = job[m.u].client /\ m.client \in open /\ tab[m.u] # "new"
        /\ m.type \in {"next", "chunk"} => m.at < Size(m.u)

CallOK(k) ==
    /\ k \in Call /\ tab[k.u] # "new" /\ k.by.client = job[k.u].client
    /\ k.by.type \in {"start", "chunk", "close"}
    /\ k.by.type = "start" =>
        k.by.u = k.u /\ k.pc \in Early \cup Whole \cup {"linked", "abort", "mark"}
    /\ k.by.type = "chunk" =>
        /\ k.by.u \in Uploads /\ tab[k.by.u] # "new" /\ k.by.at < Size(k.by.u)
        /\ k.pc \in Whole \cup {"write", "written", "abort", "mark"}
    /\ Closing(k) => k.by.client \notin open /\ k.pc \in {"abort", "mark"}
    /\ k.pc \in {"write", "written"} => Size(k.u) > 0
    /\ k.pc \in {"lookup", "clear", "add", "write", "written", "finish", "find"} => k.key = k.u
CallInv == \A k \in calls : CallOK(k)

MapInv ==
    \A c \in Clients : active[c] # None => job[active[c]].client = c /\ tab[active[c]] # "new"

\* Up to its addition an upload has left no trace.
Untouched(u) ==
    /\ tab[u] = "waiting" /\ progress[u] = Fresh /\ rows[u] = NoRow
    /\ active[job[u].client] # u /\ u \notin DOMAIN tmp /\ u \notin DOMAIN blobs

EarlyInv ==
    /\ \A m \in wire : m.type = "start" =>
        /\ Untouched(m.u)
        /\ \A n \in wire : n.u = m.u => n = m
        /\ \A k \in calls : k.u # m.u
    /\ \A k \in calls : k.pc \in Early =>
        /\ Untouched(k.u)
        /\ \A m \in wire : m.u # k.u
        /\ \A x \in calls : x.u = k.u => x = k

\* An upload that sent its hash gets no row with another.
MySha(u) == job[u].hashed => rows[u].sha = job[u].file
HashedInv ==
    /\ \A k \in calls : k.pc \in Whole =>
        progress[k.u].digested /\ (job[k.u].hashed => progress[k.u].hash = job[k.u].file)
    /\ \A k \in calls : k.pc \in {"updated", "load", "linked"} => MySha(k.u)
    /\ \A m \in wire : m.type = "done" => MySha(m.u)
    /\ \A u \in Uploads : tab[u] = "done" => MySha(u)

-----------------------------------------------------------------------------
(* As long as no chunk went astray.                                        *)

Straight == "stray" \notin lapses

OneInv == Straight =>
    /\ \A m, n \in wire : m.u = n.u => m = n
    /\ \A k, x \in calls : ~Closing(k) /\ ~Closing(x) /\ k.u = x.u => k = x
    /\ \A m \in wire, k \in calls : ~Closing(k) => m.u # k.u
    /\ \A u \in Uploads : tab[u] \in {"done", "error"} =>
        (\A m \in wire : m.u # u) /\ (\A k \in calls : ~Closing(k) => k.u # u)

NotInMap(u) == active[job[u].client] # u
OutInv == Straight =>
    /\ \A m \in wire : m.type \notin {"next", "chunk"} => NotInMap(m.u)
    /\ \A k \in calls :
        ~Closing(k) /\ k.pc \in Early \cup {"linked", "load", "abort", "mark"} => NotInMap(k.u)
    /\ \A u \in Uploads : tab[u] \in {"done", "error"} => NotInMap(u)

\* The token knows how far the upload is, and the hash is that of the chunks so far.
ProgressInv == Straight =>
    /\ \A m \in wire : m.type \in {"next", "chunk"} =>
        m.at = progress[m.u].offset /\ ~progress[m.u].digested
    /\ \A k \in calls : k.pc \in {"write", "written"} =>
        k.by.u = k.u /\ k.by.at = progress[k.u].offset /\ ~progress[k.u].digested
    /\ \A k \in calls : k.pc \in Whole => progress[k.u].offset = Size(k.u)
    /\ \A u \in Uploads : progress[u].hash = SubSeq(job[u].file, 1, progress[u].offset)

Unready(u) == rows[u].status # "ready" /\ rows[u].key = None
UnreadyInv == Straight =>
    /\ \A m \in wire : m.type \in {"next", "chunk"} => Unready(m.u)
    /\ \A k \in calls :
        k.pc \in {"write", "written", "finish", "find", "remove", "update"} => Unready(k.u)

Mine(u) == rows[u].status = "ready" /\ rows[u].sha = job[u].file
ReadyInv == Straight =>
    /\ \A k \in calls :
        k.pc \in {"updated", "load", "linked"} =>
            rows[k.u].sha = job[k.u].file /\ (job[k.u].client \in open => Mine(k.u))
    /\ \A m \in wire : m.type = "done" => Mine(m.u)
    /\ \A u \in Uploads : tab[u] = "done" => Mine(u) /\ \A k \in calls : k.u # u

GoneInv == Straight => \A k \in calls : k.pc \in Stored => k.u \notin DOMAIN tmp

-----------------------------------------------------------------------------
(* As long, besides, as no connection closed while a call was at work.     *)

Uncut == Straight /\ "cut" \notin lapses

TmpOf(u) == IF u \in DOMAIN tmp THEN tmp[u] ELSE <<>>
\* x is the name of a blob for good, and the blob is s.
Holds(x, s) == rows[x].key = x /\ x \in DOMAIN blobs /\ blobs[x] = s

AloneInv == Uncut => \A k, x \in calls : Closing(k) /\ ~Closing(x) => k.u # x.u

TmpFits == Uncut =>
    /\ \A m \in wire : m.type \in {"next", "chunk"} => TmpOf(m.u) = progress[m.u].hash
    /\ \A k \in calls : k.pc \in {"write", "finish"} => TmpOf(k.u) = progress[k.u].hash
    /\ \A k \in calls : k.pc = "written" =>
        TmpOf(k.u) = Append(progress[k.u].hash, ChunkOf(k.by))

\* What the calls know about blobs.
BlobsOf(k) ==
    /\ k.pc \in {"find", "remove", "update"} => k.size = Len(progress[k.u].hash)
    /\ k.pc \in {"find", "remove"} \/ (k.pc = "update" /\ k.key = k.u) =>
        k.u \in DOMAIN blobs /\ blobs[k.u] = progress[k.u].hash
    /\ k.pc = "remove" \/ (k.pc = "update" /\ k.key # k.u) =>
        Holds(k.key, progress[k.u].hash)
    /\ k.pc = "link" => Holds(k.key, job[k.u].file)
BlobsInv == Uncut => \A k \in calls : BlobsOf(k)

RowsInv == Uncut =>
    \A t \in Uploads : rows[t].key # None =>
        Holds(rows[t].key, rows[t].sha) /\ rows[t].size = Len(rows[t].sha)

-----------------------------------------------------------------------------
(* As long as uploads of one connection stay out of each other's way.      *)

InMap(u) == job[u].client \in open /\ active[job[u].client] = u

\* Nothing goes astray.
Apart == "overlap" \notin lapses /\ "evicted" \notin lapses
MineInv == Apart =>
    /\ Straight
    /\ \A m \in wire : m.type \in {"next", "chunk"} => active[m.client] = m.u
    /\ \A k \in calls : k.pc \in {"write", "written"} =>
        InMap(k.u) \/ ("cut" \in lapses /\ job[k.u].client \notin open)

\* A row that is uploading is in the Map, or will be marked.
FailedInv ==
    /\ \A k \in calls : k.pc = "updated" => rows[k.u].status # "uploading"
    /\ Apart /\ lapses \cap {"late", "swallowed", "unlogged"} = {} =>
        \A u \in Uploads : rows[u].status = "uploading" =>
            InMap(u) \/ \E k \in calls : k.u = u /\ k.pc \in {"abort", "mark"}

\* The upload of a temporary file is in the Map, or the file will be removed.
LeftInv ==
    Apart /\ "cut" \notin lapses /\ "swallowed" \notin lapses =>
        \A u \in DOMAIN tmp :
            InMap(u) \/ \E k \in calls : k.u = u /\ k.pc \in {"abort", "finish"}

WaitInv ==
    Apart => \A u \in Uploads :
        tab[u] = "waiting" /\ held[u] # "unread" /\ job[u].client \in open =>
        (\E m \in wire : m.u = u) \/ (\E k \in calls : k.u = u)

IInv == /\ TypesInv /\ UploadInv /\ WireInv /\ CallInv /\ MapInv /\ EarlyInv /\ HashedInv
        /\ OneInv /\ OutInv /\ ProgressInv /\ UnreadyInv /\ ReadyInv /\ GoneInv
        /\ AloneInv /\ TmpFits /\ BlobsInv /\ RowsInv
        /\ MineInv /\ FailedInv /\ LeftInv /\ WaitInv

-----------------------------------------------------------------------------
(* What the steps have in common.                                         *)

LEMMA ContentType ==
    ASSUME NEW f \in Files
    PROVE  f \in Seq(Chunk) /\ Len(f) \in Nat /\ \A i \in 1 .. Len(f) : f[i] \in Chunk
<1>1. PICK S : f \in Seq(S)
  BY FilesAssumption
<1>2. \A i \in 1 .. Len(f) : f[i] \in Chunk
  BY <1>1 DEF Chunk
<1> QED
  BY <1>1, <1>2

\* What the invariant says of a call, of a message and of the state as a whole.
CallSound(k) ==
    /\ k \in Call /\ k.u \in Uploads /\ k.by \in Message /\ k.key \in Uploads /\ k.size \in Nat
    /\ tab[k.u] # "new" /\ Size(k.u) \in Nat /\ job[k.u].client \in Clients
    /\ job[k.u].file \in Seq(Chunk) /\ k.by.client = job[k.u].client

MessageSound(m) ==
    /\ m \in Message /\ m.type # "close" /\ m.u \in Uploads /\ m.at \in Nat
    /\ m.client \in Clients
    /\ m.client = job[m.u].client /\ m.client \in open /\ tab[m.u] # "new"
    /\ Size(m.u) \in Nat /\ job[m.u].file \in Seq(Chunk)

StateSound ==
    /\ \A z \in calls : z.u \in Uploads /\ z.key \in Uploads /\ job[z.u].client \in Clients
    /\ \A z \in calls : z.pc \notin {"abort", "mark"} => ~Closing(z)
    /\ \A m \in wire : m.u \in Uploads /\ m.client \in Clients /\ m.client = job[m.u].client
    /\ \A u \in Uploads : tab[u] # "new" => job[u].client \in Clients
    /\ \A u \in Uploads : rows[u].key \in Uploads \cup {None}
    /\ None \notin Uploads /\ None \notin Clients

LEMMA CallFacts ==
    ASSUME IInv, NEW k \in calls
    PROVE  CallSound(k)
<1>1. k \in Call /\ tab[k.u] # "new" /\ k.by.client = job[k.u].client
  BY DEF IInv, CallInv, CallOK
<1>2. k.u \in Uploads /\ k.by \in Message /\ k.key \in Uploads /\ k.size \in Nat
  BY <1>1 DEF Call
<1>3. job[k.u].client \in Clients /\ job[k.u].file \in Files
  BY <1>1, <1>2 DEF IInv, UploadInv
<1> QED
  BY <1>1, <1>2, <1>3, ContentType DEF Size, CallSound

LEMMA MessageFacts ==
    ASSUME IInv, NEW m \in wire
    PROVE  MessageSound(m)
<1>1. /\ m \in Message /\ m.type # "close" /\ m.u \in Uploads
      /\ m.client = job[m.u].client /\ m.client \in open /\ tab[m.u] # "new"
  BY DEF IInv, WireInv
<1>2. m.at \in Nat /\ m.client \in Clients
  BY <1>1 DEF Message
<1>3. job[m.u].file \in Files
  BY <1>1 DEF IInv, UploadInv
<1> QED
  BY <1>1, <1>2, <1>3, ContentType DEF Size, MessageSound

LEMMA StateFacts == IInv => StateSound
BY CallFacts, MessageFacts, FilesAssumption
   DEF CallSound, MessageSound, IInv, UploadInv, TypesInv, Row, CallInv, CallOK, Closing,
       StateSound

\* What assigning one field, or one object, does to rows and progress.
LEMMA Marked ==
    ASSUME rows \in [Uploads -> Row], NEW u \in Uploads, NEW s \in {"none", "uploading",
           "ready", "failed"},
           rows' = [rows EXCEPT ![u].status = s]
    PROVE  /\ rows' \in [Uploads -> Row]
           /\ \A v \in Uploads : v # u => rows'[v] = rows[v]
           /\ rows'[u].status = s /\ rows'[u].key = rows[u].key
           /\ rows'[u].sha = rows[u].sha /\ rows'[u].size = rows[u].size
<1>1. rows[u] \in Row
  OBVIOUS
<1>2. rows'[u] = [rows[u] EXCEPT !.status = s] /\ \A v \in Uploads : v # u => rows'[v] = rows[v]
  OBVIOUS
<1>3. rows'[u] \in Row /\ rows'[u].status = s /\ rows'[u].key = rows[u].key
      /\ rows'[u].sha = rows[u].sha /\ rows'[u].size = rows[u].size
  BY <1>1, <1>2 DEF Row
<1> QED
  BY <1>2, <1>3

LEMMA Counted ==
    ASSUME progress \in [Uploads -> Progress], NEW u \in Uploads, NEW o \in Nat,
           NEW h \in Seq(Chunk), NEW d \in BOOLEAN,
           progress' = [progress EXCEPT ![u] = [offset |-> o, hash |-> h, digested |-> d]]
    PROVE  /\ progress' \in [Uploads -> Progress]
           /\ \A v \in Uploads : v # u => progress'[v] = progress[v]
           /\ progress'[u].offset = o /\ progress'[u].hash = h /\ progress'[u].digested = d
<1>1. progress'[u] = [offset |-> o, hash |-> h, digested |-> d]
      /\ \A v \in Uploads : v # u => progress'[v] = progress[v]
  OBVIOUS
<1>2. progress'[u] \in Progress
  BY <1>1 DEF Progress
<1>3. progress'[u].offset = o /\ progress'[u].hash = h /\ progress'[u].digested = d
  BY <1>1
<1> QED
  BY <1>1, <1>2, <1>3

LEMMA Digest ==
    ASSUME progress \in [Uploads -> Progress], NEW u \in Uploads,
           progress' = [progress EXCEPT ![u].digested = TRUE]
    PROVE  /\ progress' \in [Uploads -> Progress]
           /\ \A v \in Uploads : v # u => progress'[v] = progress[v]
           /\ progress'[u].digested /\ progress'[u].hash = progress[u].hash
           /\ progress'[u].offset = progress[u].offset
<1>1. progress[u] \in Progress
  OBVIOUS
<1>2. progress'[u] = [progress[u] EXCEPT !.digested = TRUE]
      /\ \A v \in Uploads : v # u => progress'[v] = progress[v]
  OBVIOUS
<1>3. progress'[u] \in Progress /\ progress'[u].digested /\ progress'[u].hash = progress[u].hash
      /\ progress'[u].offset = progress[u].offset
  BY <1>1, <1>2 DEF Progress
<1> QED
  BY <1>2, <1>3

LEMMA Prefix ==
    ASSUME NEW T, NEW s \in Seq(T), NEW n \in Nat, n < Len(s)
    PROVE  SubSeq(s, 1, n + 1) = Append(SubSeq(s, 1, n), s[n + 1])
OBVIOUS

LEMMA Entire ==
    ASSUME NEW T, NEW s \in Seq(T)
    PROVE  SubSeq(s, 1, Len(s)) = s
OBVIOUS

\* As long as nothing goes astray, the call that counts a chunk is its upload's
\* token, and the hash goes on along the file.
LEMMA CountFacts ==
    ASSUME IInv, NEW k \in calls, k.pc = "written", Straight
    PROVE  /\ \A z \in calls : z # k /\ ~Closing(z) => z.u # k.u
           /\ \A m \in wire : m.u # k.u
           /\ tab[k.u] \notin {"done", "error"}
           /\ progress[k.u].offset < Size(k.u)
           /\ Append(progress[k.u].hash, ChunkOf(k.by))
                = SubSeq(job[k.u].file, 1, progress[k.u].offset + 1)
<1>1. k.u \in Uploads /\ Size(k.u) \in Nat /\ job[k.u].file \in Seq(Chunk)
  BY CallFacts DEF CallSound
<1>2. ~Closing(k) /\ k.by.u = k.u /\ k.by.at = progress[k.u].offset /\ ~progress[k.u].digested
      /\ Size(k.u) > 0
  BY DEF IInv, CallInv, CallOK, Closing, ProgressInv
<1>3. progress[k.u].offset < Size(k.u)
  BY <1>1, <1>2 DEF IInv, UploadInv
<1>4. progress[k.u].offset \in Nat
  BY <1>1 DEF IInv, TypesInv, Progress
<1>5. progress[k.u].hash = SubSeq(job[k.u].file, 1, progress[k.u].offset)
  BY <1>1 DEF IInv, ProgressInv
<1>6. Append(progress[k.u].hash, ChunkOf(k.by)) = SubSeq(job[k.u].file, 1, progress[k.u].offset + 1)
  BY <1>1, <1>2, <1>3, <1>4, <1>5, Prefix DEF ChunkOf, Size
<1> QED
  BY <1>1, <1>2, <1>3, <1>6 DEF IInv, OneInv

-----------------------------------------------------------------------------
(* Every step preserves the invariant.                                     *)

\* upload() of a tab that has announced nothing yet.
LEMMA UploadKeeps ==
    ASSUME IInv, NEW u \in Uploads, Upload(u)
    PROVE  IInv'
<1>1. PICK c \in open, f \in Files, h \in BOOLEAN :
        /\ job' = [job EXCEPT ![u] = [client |-> c, file |-> f, hashed |-> h]]
        /\ wire' = wire \cup {[type |-> "start", u |-> u, client |-> c, at |-> 0]}
  BY DEF Upload
<1>2. c \in Clients /\ f \in Seq(Chunk) /\ Len(f) \in Nat
  BY ContentType DEF IInv, TypesInv
<1> DEFINE n == [type |-> "start", u |-> u, client |-> c, at |-> 0]
<1>3. n \in Message /\ n.type = "start" /\ n.u = u /\ n.client = c /\ n.at = 0
  BY <1>2 DEF Message
<1>4. wire' = wire \cup {n}
  BY <1>1
<1>5. /\ job'[u] = [client |-> c, file |-> f, hashed |-> h] /\ job' \in [Uploads -> Job]
      /\ \A v \in Uploads \ {u} : job'[v] = job[v]
  BY <1>1, <1>2 DEF IInv, TypesInv, Job
<1>6. c # None
  BY <1>2, FilesAssumption
<1> HIDE DEF n
<1>7. StateSound
  BY StateFacts
<1> USE FilesAssumption DEF StateSound, Untouched, Fresh, NoRow, NoJob, Early, Whole, Stored,
    Closing, MySha, Size, Lapsed, Straight, Uncut, Apart, CallOK, InMap, NotInMap, Unready,
    Mine, TmpOf, Holds, BlobsOf, ChunkOf, tabVars, stored, Lapse
<1>8. EarlyInv'
  <2>1. /\ tab[u] = "new" /\ tab' = [tab EXCEPT ![u] = "waiting"]
        /\ UNCHANGED <<open, active, progress, tmp, blobs, rows, calls>>
    BY DEF Upload
  <2>2. /\ \A m \in wire : m.u # u
        /\ \A k \in calls : k.u # u
    BY <2>1 DEF IInv, WireInv, CallInv
  <2>3. Untouched(u)'
    BY <1>1, <1>2, <1>3, <1>4, <1>5, <1>6, <1>7, <2>1 DEF IInv, TypesInv, UploadInv, MapInv
  <2>4. ASSUME NEW v \in Uploads, v # u, Untouched(v) PROVE Untouched(v)'
    BY <1>1, <1>2, <1>3, <1>4, <1>5, <1>6, <1>7, <2>1, <2>4 DEF IInv, TypesInv
  <2>5. ASSUME NEW m \in wire', m.type = "start"
        PROVE  /\ Untouched(m.u)'
               /\ \A p \in wire' : p.u = m.u => p = m
               /\ \A k \in calls' : k.u # m.u
    <3>1. CASE m = n
      BY <1>1, <1>2, <1>3, <1>4, <1>5, <1>6, <1>7, <2>1, <2>2, <2>3, <3>1
    <3>2. CASE m \in wire
      <4>1. /\ Untouched(m.u) /\ m.u # u /\ m.u \in Uploads
            /\ \A p \in wire : p.u = m.u => p = m
            /\ \A k \in calls : k.u # m.u
        BY <1>7, <2>2, <2>5, <3>2 DEF IInv, EarlyInv
      <4> QED
        BY <1>1, <1>2, <1>3, <1>4, <1>5, <1>6, <1>7, <2>1, <2>4, <4>1
    <3> QED
      BY <1>1, <1>2, <1>3, <1>4, <1>5, <1>6, <1>7, <3>1, <3>2
  <2>6. ASSUME NEW k \in calls', k.pc \in Early
        PROVE  /\ Untouched(k.u)'
               /\ \A m \in wire' : m.u # k.u
               /\ \A z \in calls' : z.u = k.u => z = k
    <3>1. /\ Untouched(k.u) /\ k.u # u /\ k.u \in Uploads
          /\ \A m \in wire : m.u # k.u
          /\ \A z \in calls : z.u = k.u => z = k
      BY <1>7, <2>1, <2>2, <2>6 DEF IInv, EarlyInv
    <3> QED
      BY <1>1, <1>2, <1>3, <1>4, <1>5, <1>6, <1>7, <2>1, <2>4, <3>1
  <2> QED
    BY <2>5, <2>6 DEF EarlyInv
<1> USE <1>1, <1>2, <1>3, <1>4, <1>5, <1>6, <1>7 DEF IInv, Upload
<1>9. TypesInv' /\ UploadInv' /\ WireInv' /\ CallInv'
  BY DEF TypesInv, UploadInv, WireInv, CallInv
<1>10. MapInv' /\ HashedInv' /\ OneInv' /\ OutInv'
  BY DEF MapInv, HashedInv, OneInv, OutInv, TypesInv, CallInv, WireInv, UploadInv, EarlyInv
<1>11. ProgressInv' /\ UnreadyInv' /\ ReadyInv' /\ GoneInv'
  BY DEF ProgressInv, UnreadyInv, ReadyInv, GoneInv, TypesInv, CallInv, WireInv, UploadInv,
      MapInv, EarlyInv
<1>12. TmpFits'
  BY DEF TmpFits, OneInv, AloneInv, ProgressInv, EarlyInv, Row, Progress, TypesInv, CallInv,
      WireInv, UploadInv, MapInv
<1>13. AloneInv' /\ BlobsInv' /\ RowsInv' /\ MineInv'
  BY DEF AloneInv, BlobsInv, RowsInv, MineInv, TypesInv, CallInv, WireInv
<1>14. FailedInv'  BY DEF FailedInv, TypesInv, CallInv, UploadInv, MapInv
<1>15. LeftInv'  BY DEF LeftInv, TypesInv, CallInv, UploadInv, MapInv
<1>16. WaitInv'  BY DEF WaitInv, TypesInv
<1> QED
  BY <1>8, <1>9, <1>10, <1>11, <1>12, <1>13, <1>14, <1>15, <1>16

\* The tab sends the chunk it is asked for, or ignores the request.
LEMMA SendUploadChunkKeeps ==
    ASSUME IInv, NEW m \in wire, SendUploadChunk(m)
    PROVE  IInv'
<1>1. MessageSound(m)
  BY MessageFacts
<1> USE DEF MessageSound
<1> DEFINE n == Msg("chunk", m.u, m.at)
<1>2. n \in Message /\ n.type = "chunk" /\ n.u = m.u /\ n.client = m.client /\ n.at = m.at
  BY <1>1 DEF Msg, Message
<1>3. wire' = (wire \ {m}) \cup (IF tab[m.u] = "waiting" THEN {n} ELSE {})
  BY DEF SendUploadChunk
<1> HIDE DEF n
<1>4. StateSound
  BY StateFacts
<1> USE FilesAssumption DEF StateSound, Untouched, Fresh, NoRow, NoJob, Early, Whole, Stored,
    Closing, MySha, Size, Lapsed, Straight, Uncut, Apart, CallOK, InMap, NotInMap, Unready,
    Mine, TmpOf, Holds, BlobsOf, ChunkOf, tabVars, stored, Lapse
<1> USE <1>1, <1>2, <1>3, <1>4 DEF IInv, SendUploadChunk
<1>5. TypesInv' /\ UploadInv' /\ WireInv' /\ CallInv'
  BY DEF TypesInv, UploadInv, WireInv, CallInv
<1>6. MapInv' /\ EarlyInv' /\ HashedInv' /\ OneInv'
  BY DEF MapInv, EarlyInv, HashedInv, OneInv
<1>7. OutInv' /\ ProgressInv' /\ UnreadyInv' /\ ReadyInv'
  BY DEF OutInv, ProgressInv, UnreadyInv, ReadyInv
<1>8. GoneInv' /\ AloneInv' /\ TmpFits' /\ BlobsInv'
  BY DEF GoneInv, AloneInv, TmpFits, BlobsInv
<1>9. RowsInv' /\ MineInv' /\ FailedInv' /\ LeftInv'
  BY DEF RowsInv, MineInv, FailedInv, LeftInv
<1>10. WaitInv'  BY DEF WaitInv
<1> QED
  BY <1>5, <1>6, <1>7, <1>8, <1>9, <1>10

\* The tab is told that the upload succeeded.
LEMMA UploadDoneKeeps ==
    ASSUME IInv, NEW m \in wire, UploadDone(m)
    PROVE  IInv'
<1>1. MessageSound(m)
  BY MessageFacts
<1> USE DEF MessageSound
<1>2. StateSound
  BY StateFacts
<1> USE FilesAssumption DEF StateSound, Untouched, Fresh, NoRow, NoJob, Early, Whole, Stored,
    Closing, MySha, Size, Lapsed, Straight, Uncut, Apart, CallOK, InMap, NotInMap, Unready,
    Mine, TmpOf, Holds, BlobsOf, ChunkOf, tabVars, stored, Lapse
<1>3. WaitInv'
  <2> SUFFICES ASSUME Apart', NEW u \in Uploads, tab'[u] = "waiting", held'[u] # "unread",
                      job'[u].client \in open'
               PROVE  (\E p \in wire' : p.u = u) \/ (\E z \in calls' : z.u = u)
    BY DEF WaitInv
  <2>1. /\ wire' = wire \ {m} /\ UNCHANGED <<job, open, calls, lapses>>
        /\ tab' = IF tab[m.u] = "waiting" THEN [tab EXCEPT ![m.u] = m.type] ELSE tab
        /\ held' = IF tab[m.u] = "waiting" THEN [held EXCEPT ![m.u] = "applying"] ELSE held
        /\ m.type = "done"
    BY DEF UploadDone, Settled
  <2>2. u # m.u /\ tab[u] = "waiting" /\ held[u] # "unread"
    BY <1>1, <2>1 DEF IInv, TypesInv
  <2>3. (\E p \in wire : p.u = u) \/ (\E z \in calls : z.u = u)
    BY <2>1, <2>2 DEF IInv, WaitInv
  <2> QED
    BY <2>1, <2>2, <2>3
<1> USE <1>1, <1>2 DEF IInv, UploadDone, Settled
<1>4. TypesInv' /\ UploadInv' /\ WireInv' /\ CallInv'
  BY DEF TypesInv, UploadInv, WireInv, CallInv, Holdup
<1>5. MapInv' /\ EarlyInv' /\ HashedInv' /\ OneInv'
  BY DEF MapInv, EarlyInv, HashedInv, OneInv
<1>6. OutInv' /\ ProgressInv'  BY DEF OutInv, ProgressInv
<1>7. UnreadyInv' /\ ReadyInv'  BY DEF UnreadyInv, ReadyInv, OneInv, OutInv, CallInv
<1>8. GoneInv' /\ AloneInv' /\ TmpFits' /\ BlobsInv'
  BY DEF GoneInv, AloneInv, TmpFits, BlobsInv
<1>9. RowsInv' /\ MineInv' /\ FailedInv' /\ LeftInv'
  BY DEF RowsInv, MineInv, FailedInv, LeftInv
<1> QED
  BY <1>3, <1>4, <1>5, <1>6, <1>7, <1>8, <1>9

\* The tab is told that the upload failed.
LEMMA UploadErrorKeeps ==
    ASSUME IInv, NEW m \in wire, UploadError(m)
    PROVE  IInv'
<1>1. MessageSound(m)
  BY MessageFacts
<1> USE DEF MessageSound
<1>2. StateSound
  BY StateFacts
<1> USE FilesAssumption DEF StateSound, Untouched, Fresh, NoRow, NoJob, Early, Whole, Stored,
    Closing, MySha, Size, Lapsed, Straight, Uncut, Apart, CallOK, InMap, NotInMap, Unready,
    Mine, TmpOf, Holds, BlobsOf, ChunkOf, tabVars, stored, Lapse
<1>3. WaitInv'
  <2> SUFFICES ASSUME Apart', NEW u \in Uploads, tab'[u] = "waiting", held'[u] # "unread",
                      job'[u].client \in open'
               PROVE  (\E p \in wire' : p.u = u) \/ (\E z \in calls' : z.u = u)
    BY DEF WaitInv
  <2>1. /\ wire' = wire \ {m} /\ UNCHANGED <<job, held, open, calls, lapses>>
        /\ tab' = IF tab[m.u] = "waiting" THEN [tab EXCEPT ![m.u] = m.type] ELSE tab
        /\ m.type = "error"
    BY DEF UploadError, Settled
  <2>2. u # m.u /\ tab[u] = "waiting"
    BY <1>1, <2>1 DEF IInv, TypesInv
  <2>3. (\E p \in wire : p.u = u) \/ (\E z \in calls : z.u = u)
    BY <2>1, <2>2 DEF IInv, WaitInv
  <2> QED
    BY <2>1, <2>2, <2>3
<1> USE <1>1, <1>2 DEF IInv, UploadError, Settled
<1>4. TypesInv' /\ UploadInv' /\ WireInv' /\ CallInv'
  BY DEF TypesInv, UploadInv, WireInv, CallInv
<1>5. MapInv' /\ EarlyInv' /\ HashedInv' /\ OneInv'
  BY DEF MapInv, EarlyInv, HashedInv, OneInv
<1>6. OutInv' /\ ProgressInv' /\ UnreadyInv' /\ ReadyInv'
  BY DEF OutInv, ProgressInv, UnreadyInv, ReadyInv
<1>7. GoneInv' /\ AloneInv' /\ TmpFits' /\ BlobsInv'
  BY DEF GoneInv, AloneInv, TmpFits, BlobsInv
<1>8. RowsInv' /\ MineInv' /\ FailedInv' /\ LeftInv'
  BY DEF RowsInv, MineInv, FailedInv, LeftInv
<1> QED
  BY <1>3, <1>4, <1>5, <1>6, <1>7, <1>8

\* A chunk the tab cannot read.
LEMMA UnreadChunkKeeps ==
    ASSUME IInv, NEW m \in wire, UnreadChunk(m)
    PROVE  IInv'
<1>1. MessageSound(m)
  BY MessageFacts
<1> USE DEF MessageSound
<1>2. /\ held' = [held EXCEPT ![m.u] = "unread"] /\ held' \in [Uploads -> Holdup]
      /\ faults' \in 0 .. MaxFaults
  BY <1>1, FilesAssumption DEF UnreadChunk, Holdup, IInv, TypesInv
<1>3. StateSound
  BY StateFacts
<1> USE FilesAssumption DEF StateSound, Untouched, Fresh, NoRow, NoJob, Early, Whole, Stored,
    Closing, MySha, Size, Lapsed, Straight, Uncut, Apart, CallOK, InMap, NotInMap, Unready,
    Mine, TmpOf, Holds, BlobsOf, ChunkOf, tabVars, stored, Lapse
<1>4. WaitInv'
  <2> SUFFICES ASSUME Apart', NEW u \in Uploads, tab'[u] = "waiting", held'[u] # "unread",
                      job'[u].client \in open'
               PROVE  (\E p \in wire' : p.u = u) \/ (\E z \in calls' : z.u = u)
    BY DEF WaitInv
  <2>1. wire' = wire \ {m} /\ UNCHANGED <<tab, job, open, calls, lapses>>
    BY DEF UnreadChunk
  <2>2. u # m.u /\ held[u] # "unread"
    BY <1>1, <1>2 DEF IInv, TypesInv
  <2>3. (\E p \in wire : p.u = u) \/ (\E z \in calls : z.u = u)
    BY <2>1, <2>2 DEF IInv, WaitInv
  <2> QED
    BY <2>1, <2>2, <2>3
<1> USE <1>1, <1>2, <1>3 DEF IInv, UnreadChunk
<1>5. TypesInv' /\ UploadInv' /\ WireInv' /\ CallInv'
  BY DEF TypesInv, UploadInv, WireInv, CallInv
<1>6. MapInv' /\ EarlyInv' /\ HashedInv' /\ OneInv'
  BY DEF MapInv, EarlyInv, HashedInv, OneInv
<1>7. OutInv' /\ ProgressInv' /\ UnreadyInv' /\ ReadyInv'
  BY DEF OutInv, ProgressInv, UnreadyInv, ReadyInv
<1>8. GoneInv' /\ AloneInv' /\ TmpFits' /\ BlobsInv'
  BY DEF GoneInv, AloneInv, TmpFits, BlobsInv
<1>9. RowsInv' /\ MineInv' /\ FailedInv' /\ LeftInv'
  BY DEF RowsInv, MineInv, FailedInv, LeftInv
<1> QED
  BY <1>4, <1>5, <1>6, <1>7, <1>8, <1>9

\* The tab's cache takes the row of a finished upload, or refuses it.
LEMMA HeldKeeps ==
    ASSUME IInv, NEW u \in Uploads, Resolve(u) \/ RowRefused(u)
    PROVE  IInv'
<1>1. /\ held[u] = "applying" /\ held' \in [Uploads -> Holdup]
      /\ faults' \in 0 .. MaxFaults
      /\ \A v \in Uploads : v # u => held'[v] = held[v]
      /\ UNCHANGED <<tab, job, wire, open, active, progress, tmp, blobs, rows, calls, lapses>>
  BY FilesAssumption DEF Resolve, RowRefused, Holdup, IInv, TypesInv, stored
<1>2. StateSound
  BY StateFacts
<1> USE FilesAssumption DEF StateSound, Untouched, Fresh, NoRow, NoJob, Early, Whole, Stored,
    Closing, MySha, Size, Lapsed, Straight, Uncut, Apart, CallOK, InMap, NotInMap, Unready,
    Mine, TmpOf, Holds, BlobsOf, ChunkOf, tabVars, stored, Lapse
<1> USE <1>1, <1>2 DEF IInv
<1>3. TypesInv' /\ UploadInv' /\ WireInv' /\ CallInv'
  BY DEF TypesInv, UploadInv, WireInv, CallInv
<1>4. MapInv' /\ EarlyInv' /\ HashedInv' /\ OneInv'
  BY DEF MapInv, EarlyInv, HashedInv, OneInv
<1>5. OutInv' /\ ProgressInv' /\ UnreadyInv' /\ ReadyInv'
  BY DEF OutInv, ProgressInv, UnreadyInv, ReadyInv
<1>6. GoneInv' /\ AloneInv' /\ TmpFits' /\ BlobsInv'
  BY DEF GoneInv, AloneInv, TmpFits, BlobsInv
<1>7. RowsInv' /\ MineInv' /\ FailedInv' /\ LeftInv'
  BY DEF RowsInv, MineInv, FailedInv, LeftInv
<1>8. WaitInv'  BY DEF WaitInv
<1> QED
  BY <1>3, <1>4, <1>5, <1>6, <1>7, <1>8

\* startUpload begins.
LEMMA StartUploadKeeps ==
    ASSUME IInv, NEW m \in wire, StartUpload(m)
    PROVE  IInv'
<1>1. MessageSound(m)
  BY MessageFacts
<1> USE DEF MessageSound
<1> DEFINE x == [by |-> m, pc |-> IF job[m.u].hashed THEN "lookup" ELSE "clear",
                 u |-> m.u, key |-> m.u, size |-> 0]
<1>2. x \in Call /\ x.by = m /\ x.u = m.u /\ x.key = m.u /\ x.pc \in {"lookup", "clear"}
  BY <1>1 DEF Call, Pc
<1>3. calls' = calls \cup {x}
  BY DEF StartUpload
<1> HIDE DEF x
<1>4. StateSound
  BY StateFacts
<1> USE FilesAssumption DEF StateSound, Untouched, Fresh, NoRow, NoJob, Early, Whole, Stored,
    Closing, MySha, Size, Lapsed, Straight, Uncut, Apart, CallOK, InMap, NotInMap, Unready,
    Mine, TmpOf, Holds, BlobsOf, ChunkOf, tabVars, stored, Lapse
<1> USE <1>1, <1>2, <1>3, <1>4 DEF IInv, StartUpload
<1>5. TypesInv' /\ UploadInv' /\ WireInv' /\ CallInv'
  BY DEF TypesInv, UploadInv, WireInv, CallInv
<1>6. MapInv' /\ EarlyInv' /\ HashedInv' /\ OneInv'
  BY DEF MapInv, EarlyInv, HashedInv, OneInv
<1>7. OutInv' /\ ProgressInv' /\ UnreadyInv' /\ ReadyInv'
  BY DEF OutInv, ProgressInv, UnreadyInv, ReadyInv, TypesInv, CallInv, WireInv, UploadInv,
      MapInv, EarlyInv
<1>8. GoneInv' /\ AloneInv' /\ TmpFits' /\ BlobsInv'
  BY DEF GoneInv, AloneInv, TmpFits, BlobsInv, TypesInv, CallInv, WireInv, UploadInv, MapInv,
      EarlyInv
<1>9. RowsInv' /\ MineInv' /\ FailedInv' /\ LeftInv'
  BY DEF RowsInv, MineInv, FailedInv, LeftInv
<1>10. WaitInv'  BY DEF WaitInv
<1> QED
  BY <1>5, <1>6, <1>7, <1>8, <1>9, <1>10

\* startUpload refuses.
LEMMA RefuseKeeps ==
    ASSUME IInv, NEW m \in wire, Refuse(m)
    PROVE  IInv'
<1>1. MessageSound(m)
  BY MessageFacts
<1> USE DEF MessageSound
<1> DEFINE n == Msg("error", m.u, 0)
<1>2. n \in Message /\ n.type = "error" /\ n.u = m.u /\ n.client = m.client /\ n.at = 0
  BY <1>1 DEF Msg, Message
<1>3. wire' = (wire \ {m}) \cup {n}
  BY DEF Refuse
<1> HIDE DEF n
<1>4. StateSound
  BY StateFacts
<1> USE FilesAssumption DEF StateSound, Untouched, Fresh, NoRow, NoJob, Early, Whole, Stored,
    Closing, MySha, Size, Lapsed, Straight, Uncut, Apart, CallOK, InMap, NotInMap, Unready,
    Mine, TmpOf, Holds, BlobsOf, ChunkOf, tabVars, stored, Lapse
<1> USE <1>1, <1>2, <1>3, <1>4 DEF IInv, Refuse
<1>5. TypesInv' /\ UploadInv' /\ WireInv' /\ CallInv'
  BY DEF TypesInv, UploadInv, WireInv, CallInv
<1>6. MapInv' /\ EarlyInv' /\ HashedInv' /\ OneInv'
  BY DEF MapInv, EarlyInv, HashedInv, OneInv
<1>7. OutInv' /\ ProgressInv' /\ UnreadyInv' /\ ReadyInv'
  BY DEF OutInv, ProgressInv, UnreadyInv, ReadyInv
<1>8. GoneInv' /\ AloneInv' /\ TmpFits' /\ BlobsInv'
  BY DEF GoneInv, AloneInv, TmpFits, BlobsInv
<1>9. RowsInv' /\ MineInv' /\ FailedInv' /\ LeftInv'
  BY DEF RowsInv, MineInv, FailedInv, LeftInv
<1>10. WaitInv'  BY DEF WaitInv
<1> QED
  BY <1>5, <1>6, <1>7, <1>8, <1>9, <1>10

\* A frame arrives and the client has no upload.
LEMMA TakeNoneKeeps ==
    ASSUME IInv, NEW m \in wire, TakeChunk(m), active[m.client] = None
    PROVE  IInv'
<1>1. MessageSound(m)
  BY MessageFacts
<1> USE DEF MessageSound
<1>2. StateSound
  BY StateFacts
<1> USE FilesAssumption DEF StateSound, Untouched, Fresh, NoRow, NoJob, Early, Whole, Stored,
    Closing, MySha, Size, Lapsed, Straight, Uncut, Apart, CallOK, InMap, NotInMap, Unready,
    Mine, TmpOf, Holds, BlobsOf, ChunkOf, tabVars, stored, Lapse
<1> USE <1>1, <1>2 DEF IInv, TakeChunk, Belongs
<1>3. TypesInv' /\ UploadInv' /\ WireInv' /\ CallInv'
  BY DEF TypesInv, UploadInv, WireInv, CallInv
<1>4. MapInv' /\ EarlyInv' /\ HashedInv' /\ OneInv'
  BY DEF MapInv, EarlyInv, HashedInv, OneInv
<1>5. OutInv' /\ ProgressInv' /\ UnreadyInv' /\ ReadyInv'
  BY DEF OutInv, ProgressInv, UnreadyInv, ReadyInv
<1>6. GoneInv' /\ AloneInv' /\ TmpFits' /\ BlobsInv'
  BY DEF GoneInv, AloneInv, TmpFits, BlobsInv
<1>7. RowsInv' /\ MineInv' /\ FailedInv' /\ LeftInv'
  BY DEF RowsInv, MineInv, FailedInv, LeftInv
<1>8. WaitInv'  BY DEF WaitInv, MineInv, CallInv, OneInv
<1> QED
  BY <1>3, <1>4, <1>5, <1>6, <1>7, <1>8

\* A frame arrives that makes the upload larger than announced: failUpload.
LEMMA TakeOverKeeps ==
    ASSUME IInv, NEW m \in wire, TakeChunk(m), active[m.client] # None,
           progress[active[m.client]].offset + 1 > Size(active[m.client])
    PROVE  IInv'
<1>1. MessageSound(m)
  BY MessageFacts
<1> USE DEF MessageSound
<1> DEFINE u == active[m.client]
           x == [by |-> m, pc |-> "abort", u |-> u, key |-> u, size |-> 0]
<1>2. /\ u \in Uploads /\ job[u].client = m.client /\ tab[u] # "new"
      /\ Size(u) \in Nat /\ progress[u].offset \in Nat
  <2>1. u \in Uploads /\ job[u].client = m.client /\ tab[u] # "new"
    BY <1>1 DEF IInv, TypesInv, MapInv
  <2>2. job[u].file \in Files /\ progress[u].offset \in Nat
    BY <2>1 DEF IInv, TypesInv, UploadInv, Progress, Row
  <2> QED
    BY <2>1, <2>2, ContentType DEF Size
<1>3. x \in Call /\ x.by = m /\ x.u = u /\ x.key = u /\ x.pc = "abort"
  BY <1>1, <1>2 DEF Call, Pc
<1>4. calls' = calls \cup {x} /\ lapses' = lapses \cup Lapsed(m.u # u, "stray")
  BY <1>1, <1>2 DEF TakeChunk, Belongs
<1>5. active' = [active EXCEPT ![m.client] = None]
  BY <1>1, <1>2 DEF TakeChunk, Belongs
<1> HIDE DEF x
<1>6. StateSound
  BY StateFacts
<1> USE FilesAssumption DEF StateSound, Untouched, Fresh, NoRow, NoJob, Early, Whole, Stored,
    Closing, MySha, Size, Lapsed, Straight, Uncut, Apart, CallOK, InMap, NotInMap, Unready,
    Mine, TmpOf, Holds, BlobsOf, ChunkOf, tabVars, stored, Lapse
<1> USE <1>1, <1>2, <1>3, <1>4, <1>5, <1>6 DEF IInv, TakeChunk
<1>7. TypesInv' /\ UploadInv' /\ WireInv' /\ CallInv'
  BY DEF TypesInv, UploadInv, WireInv, CallInv
<1>8. MapInv' /\ EarlyInv'  BY DEF MapInv, EarlyInv
<1>9. HashedInv' /\ OneInv'  BY DEF HashedInv, OneInv
<1>10. OutInv' /\ ProgressInv'
  BY DEF OutInv, ProgressInv, OneInv, EarlyInv, MapInv, Row, Progress, TypesInv, CallInv,
      WireInv, UploadInv
<1>11. UnreadyInv' /\ ReadyInv'  BY DEF UnreadyInv, ReadyInv, OneInv, OutInv, CallInv
<1>12. GoneInv' /\ AloneInv'  BY DEF GoneInv, AloneInv, CallInv, WireInv, OneInv
<1>13. TmpFits'  BY DEF TmpFits
<1>14. BlobsInv'  BY DEF BlobsInv
<1>15. RowsInv' /\ MineInv' /\ FailedInv' /\ LeftInv'
  BY DEF RowsInv, MineInv, FailedInv, LeftInv, OneInv, CallInv
<1>16. WaitInv'  BY DEF WaitInv, MineInv, CallInv, OneInv
<1> QED
  BY <1>7, <1>8, <1>9, <1>10, <1>11, <1>12, <1>13, <1>14, <1>15, <1>16

\* A frame arrives and is counted to the client's upload.
LEMMA TakeNextKeeps ==
    ASSUME IInv, NEW m \in wire, TakeChunk(m), active[m.client] # None,
           ~(progress[active[m.client]].offset + 1 > Size(active[m.client]))
    PROVE  IInv'
<1>1. MessageSound(m)
  BY MessageFacts
<1> USE DEF MessageSound
<1> DEFINE u == active[m.client]
           x == [by |-> m, pc |-> "write", u |-> u, key |-> u, size |-> 0]
<1>2. /\ u \in Uploads /\ job[u].client = m.client /\ tab[u] # "new"
      /\ Size(u) \in Nat /\ progress[u].offset \in Nat
  <2>1. u \in Uploads /\ job[u].client = m.client /\ tab[u] # "new"
    BY <1>1 DEF IInv, TypesInv, MapInv
  <2>2. job[u].file \in Files /\ progress[u].offset \in Nat
    BY <2>1 DEF IInv, TypesInv, UploadInv, Progress, Row
  <2> QED
    BY <2>1, <2>2, ContentType DEF Size
<1>3. x \in Call /\ x.by = m /\ x.u = u /\ x.key = u /\ x.pc = "write"
  BY <1>1, <1>2 DEF Call, Pc
<1>4. calls' = calls \cup {x} /\ lapses' = lapses \cup Lapsed(m.u # u, "stray")
  BY <1>1, <1>2 DEF TakeChunk, Belongs
<1>5. UNCHANGED active
  BY <1>1, <1>2 DEF TakeChunk, Belongs
<1> HIDE DEF x
<1>6. StateSound
  BY StateFacts
<1> USE FilesAssumption DEF StateSound, Untouched, Fresh, NoRow, NoJob, Early, Whole, Stored,
    Closing, MySha, Size, Lapsed, Straight, Uncut, Apart, CallOK, InMap, NotInMap, Unready,
    Mine, TmpOf, Holds, BlobsOf, ChunkOf, tabVars, stored, Lapse
<1> USE <1>1, <1>2, <1>3, <1>4, <1>5, <1>6 DEF IInv, TakeChunk
<1>7. TypesInv' /\ UploadInv' /\ WireInv' /\ CallInv'
  BY DEF TypesInv, UploadInv, WireInv, CallInv
<1>8. MapInv' /\ EarlyInv' /\ HashedInv' /\ OneInv'
  BY DEF MapInv, EarlyInv, HashedInv, OneInv
<1>9. OutInv' /\ ProgressInv'  BY DEF OutInv, ProgressInv
<1>10. UnreadyInv' /\ ReadyInv'  BY DEF UnreadyInv, ReadyInv, OneInv, OutInv, CallInv
<1>11. GoneInv' /\ AloneInv'  BY DEF GoneInv, AloneInv, CallInv, WireInv, OneInv
<1>12. TmpFits' /\ BlobsInv'  BY DEF TmpFits, BlobsInv
<1>13. RowsInv' /\ MineInv' /\ FailedInv' /\ LeftInv'
  BY DEF RowsInv, MineInv, FailedInv, LeftInv
<1>14. WaitInv'  BY DEF WaitInv, MineInv, CallInv, OneInv
<1> QED
  BY <1>7, <1>8, <1>9, <1>10, <1>11, <1>12, <1>13, <1>14

\* handleClose of a connection that uploads nothing.
LEMMA CloseIdleKeeps ==
    ASSUME IInv, NEW c \in Clients, Close(c), active[c] = None
    PROVE  IInv'
<1>1. calls' = calls
  BY DEF Close, Orphaned
<1>2. StateSound
  BY StateFacts
<1> USE FilesAssumption DEF StateSound, Untouched, Fresh, NoRow, NoJob, Early, Whole, Stored,
    Closing, MySha, Size, Lapsed, Straight, Uncut, Apart, CallOK, InMap, NotInMap, Unready,
    Mine, TmpOf, Holds, BlobsOf, ChunkOf, tabVars, stored, Lapse
<1> USE <1>1, <1>2 DEF IInv, Close
<1>3. TypesInv' /\ UploadInv' /\ WireInv' /\ CallInv'
  BY DEF TypesInv, UploadInv, WireInv, CallInv
<1>4. MapInv' /\ EarlyInv' /\ HashedInv' /\ OneInv'
  BY DEF MapInv, EarlyInv, HashedInv, OneInv
<1>5. OutInv' /\ ProgressInv' /\ UnreadyInv' /\ ReadyInv'
  BY DEF OutInv, ProgressInv, UnreadyInv, ReadyInv
<1>6. GoneInv' /\ AloneInv' /\ TmpFits' /\ BlobsInv'
  BY DEF GoneInv, AloneInv, TmpFits, BlobsInv
<1>7. RowsInv' /\ MineInv' /\ FailedInv' /\ LeftInv'
  BY DEF RowsInv, MineInv, FailedInv, LeftInv, TypesInv, CallInv, WireInv
<1>8. WaitInv'  BY DEF WaitInv, MineInv, CallInv, OneInv
<1> QED
  BY <1>3, <1>4, <1>5, <1>6, <1>7, <1>8

\* handleClose fails the upload of the connection.
LEMMA CloseBusyKeeps ==
    ASSUME IInv, NEW c \in Clients, Close(c), active[c] # None
    PROVE  IInv'
<1> DEFINE u == active[c]
           m == [type |-> "close", u |-> None, client |-> c, at |-> 0]
           x == [by |-> m, pc |-> "abort", u |-> u, key |-> u, size |-> 0]
<1>1. u \in Uploads /\ job[u].client = c /\ tab[u] # "new"
  BY DEF IInv, TypesInv, MapInv
<1>2. x \in Call /\ x.by = m /\ m \in Message /\ m.type = "close" /\ m.client = c /\ x.u = u
      /\ x.pc = "abort"
  BY <1>1 DEF Call, Pc, Message
<1>3. calls' = calls \cup {x}
  BY DEF Close, Orphaned
<1> HIDE DEF x, m
<1>4. StateSound
  BY StateFacts
<1> USE FilesAssumption DEF StateSound, Untouched, Fresh, NoRow, NoJob, Early, Whole, Stored,
    Closing, MySha, Size, Lapsed, Straight, Uncut, Apart, CallOK, InMap, NotInMap, Unready,
    Mine, TmpOf, Holds, BlobsOf, ChunkOf, tabVars, stored, Lapse
<1> USE <1>1, <1>2, <1>3, <1>4 DEF IInv, Close
<1>5. TypesInv' /\ UploadInv' /\ WireInv' /\ CallInv'
  BY DEF TypesInv, UploadInv, WireInv, CallInv
<1>6. MapInv' /\ EarlyInv' /\ HashedInv' /\ OneInv'
  BY DEF MapInv, EarlyInv, HashedInv, OneInv
<1>7. OutInv' /\ ProgressInv' /\ UnreadyInv' /\ ReadyInv'
  BY DEF OutInv, ProgressInv, UnreadyInv, ReadyInv, OneInv, EarlyInv, MapInv, CallInv
<1>8. GoneInv' /\ AloneInv' /\ TmpFits' /\ BlobsInv'
  BY DEF GoneInv, AloneInv, TmpFits, BlobsInv
<1>9. RowsInv' /\ MineInv' /\ FailedInv' /\ LeftInv'
  BY DEF RowsInv, MineInv, FailedInv, LeftInv
<1>10. WaitInv'  BY DEF WaitInv, MineInv, CallInv, OneInv
<1> QED
  BY <1>5, <1>6, <1>7, <1>8, <1>9, <1>10

\* The row with the announced hash is looked for.
LEMMA LookUpKeeps ==
    ASSUME IInv, NEW k \in calls, LookUp(k)
    PROVE  IInv'
<1>1. CallSound(k)
  BY CallFacts
<1> USE DEF CallSound
<1>2. PICK x \in Call :
        /\ x.by = k.by /\ x.u = k.u /\ x.size = k.size
        /\ \/ x.pc = "clear" /\ x.key = k.key
           \/ x.pc = "link" /\ \E t \in Uploads :
                rows[t].status = "ready" /\ rows[t].sha = job[k.u].file /\ x.key = rows[t].key
        /\ calls' = (calls \ {k}) \cup {x}
  <2>1. CASE Goto(k, "clear")
    <3> DEFINE y == [k EXCEPT !.pc = "clear"]
    <3>1. y \in Call /\ y.by = k.by /\ y.u = k.u /\ y.size = k.size /\ y.pc = "clear"
          /\ y.key = k.key
      BY <1>1 DEF Call, Pc
    <3> QED
      BY <2>1, <3>1 DEF Goto
  <2>2. ASSUME NEW t \in Twins(job[k.u].file, Size(k.u)),
               calls' = (calls \ {k}) \cup {[k EXCEPT !.pc = "link", !.key = rows[t].key]}
        PROVE  \E x \in Call :
                /\ x.by = k.by /\ x.u = k.u /\ x.size = k.size /\ x.pc = "link"
                /\ \E y \in Uploads :
                    rows[y].status = "ready" /\ rows[y].sha = job[k.u].file /\ x.key = rows[y].key
                /\ calls' = (calls \ {k}) \cup {x}
    <3> DEFINE y == [k EXCEPT !.pc = "link", !.key = rows[t].key]
    <3>1. t \in Uploads /\ rows[t].status = "ready" /\ rows[t].sha = job[k.u].file
      BY DEF Twins
    <3>2. rows[t].key \in Uploads
      BY <3>1 DEF IInv, TypesInv, UploadInv, Row
    <3>3. y \in Call /\ y.by = k.by /\ y.u = k.u /\ y.size = k.size /\ y.pc = "link"
          /\ y.key = rows[t].key
      BY <1>1, <3>2 DEF Call, Pc
    <3> QED
      BY <2>2, <3>1, <3>3
  <2> QED
    BY <2>1, <2>2 DEF LookUp
<1>3. /\ k.pc = "lookup"
      /\ UNCHANGED <<tab, job, held, wire, open, active, progress, tmp, blobs, rows, faults, lapses>>
  BY DEF LookUp, tabVars, stored
<1>4. StateSound
  BY StateFacts
<1> USE FilesAssumption DEF StateSound, Untouched, Fresh, NoRow, NoJob, Early, Whole, Stored,
    Closing, MySha, Size, Lapsed, Straight, Uncut, Apart, CallOK, InMap, NotInMap, Unready,
    Mine, TmpOf, Holds, BlobsOf, ChunkOf, tabVars, stored, Lapse
<1> USE <1>1, <1>2, <1>3, <1>4 DEF IInv
<1>5. TypesInv' /\ UploadInv'  BY DEF TypesInv, UploadInv, CallInv, WireInv
<1>6. WireInv' /\ CallInv'  BY DEF WireInv, CallInv
<1>7. MapInv' /\ EarlyInv' /\ HashedInv' /\ OneInv'
  BY DEF MapInv, EarlyInv, HashedInv, OneInv
<1>8. OutInv' /\ ProgressInv' /\ UnreadyInv' /\ ReadyInv'
  BY DEF OutInv, ProgressInv, UnreadyInv, ReadyInv
<1>9. GoneInv' /\ AloneInv' /\ TmpFits' /\ BlobsInv'
  BY DEF GoneInv, AloneInv, TmpFits, BlobsInv, TypesInv, UploadInv, WireInv, CallInv, MapInv,
      EarlyInv, HashedInv, OneInv, OutInv, ProgressInv, UnreadyInv, ReadyInv, RowsInv, MineInv,
      FailedInv, LeftInv, WaitInv
<1>10. RowsInv' /\ MineInv' /\ FailedInv' /\ LeftInv'
  BY DEF RowsInv, MineInv, FailedInv, LeftInv
<1>11. WaitInv'  BY DEF WaitInv
<1> QED
  BY <1>5, <1>6, <1>7, <1>8, <1>9, <1>10, <1>11

\* linkExisting writes the row.
LEMMA LinkKeeps ==
    ASSUME IInv, NEW k \in calls, Link(k)
    PROVE  IInv'
<1>1. CallSound(k)
  BY CallFacts
<1> USE DEF CallSound
<1> DEFINE x == [k EXCEPT !.pc = "linked"]
<1>2. x \in Call /\ x.by = k.by /\ x.u = k.u /\ x.key = k.key /\ x.size = k.size
      /\ x.pc = "linked"
  BY <1>1 DEF Call, Pc
<1>3. calls' = (calls \ {k}) \cup {x}
  BY DEF Link, Goto
<1> HIDE DEF x
<1>4. StateSound
  BY StateFacts
<1> USE FilesAssumption DEF StateSound, Untouched, Fresh, NoRow, NoJob, Early, Whole, Stored,
    Closing, MySha, Size, Lapsed, Straight, Uncut, Apart, CallOK, InMap, NotInMap, Unready,
    Mine, TmpOf, Holds, BlobsOf, ChunkOf, tabVars, stored, Lapse
<1>5. TypesInv'
  <2>1. rows' = [rows EXCEPT ![k.u] = [status |-> "ready", key |-> k.key, size |-> Size(k.u),
                                       sha |-> job[k.u].file]]
    BY DEF Link, LinkedRow
  <2>2. [status |-> "ready", key |-> k.key, size |-> Size(k.u), sha |-> job[k.u].file] \in Row
    BY <1>1 DEF Row
  <2>3. rows' \in [Uploads -> Row]
    BY <2>1, <2>2 DEF IInv, TypesInv
  <2> QED
    BY <2>3 DEF IInv, TypesInv, Link
<1> USE <1>1, <1>2, <1>3, <1>4 DEF IInv, Link, LinkedRow
<1>6. UploadInv' /\ WireInv'  BY DEF UploadInv, WireInv, TypesInv, CallInv
<1>7. CallInv' /\ MapInv'  BY DEF CallInv, MapInv
<1>8. EarlyInv' /\ HashedInv' /\ OneInv' /\ OutInv'
  BY DEF EarlyInv, HashedInv, OneInv, OutInv, TypesInv, CallInv, WireInv
<1>9. ProgressInv' /\ UnreadyInv' /\ ReadyInv' /\ GoneInv'
  BY DEF ProgressInv, UnreadyInv, ReadyInv, GoneInv, TypesInv, CallInv, WireInv, UploadInv,
      MapInv, EarlyInv
<1>10. AloneInv' /\ TmpFits' /\ BlobsInv' /\ RowsInv'
  BY DEF AloneInv, TmpFits, BlobsInv, RowsInv, TypesInv, CallInv, WireInv, UploadInv, MapInv,
      EarlyInv, HashedInv, OneInv, OutInv, ProgressInv, UnreadyInv, ReadyInv, GoneInv, MineInv,
      FailedInv, LeftInv, WaitInv
<1>11. MineInv' /\ FailedInv' /\ LeftInv' /\ WaitInv'
  BY DEF MineInv, FailedInv, LeftInv, WaitInv
<1> QED
  BY <1>5, <1>6, <1>7, <1>8, <1>9, <1>10, <1>11

\* removeTmp, before the row is added.
LEMMA ClearKeeps ==
    ASSUME IInv, NEW k \in calls, Clear(k)
    PROVE  IInv'
<1>1. CallSound(k)
  BY CallFacts
<1> USE DEF CallSound
<1> DEFINE x == [k EXCEPT !.pc = "add"]
<1>2. x \in Call /\ x.by = k.by /\ x.u = k.u /\ x.key = k.key /\ x.size = k.size /\ x.pc = "add"
  BY <1>1 DEF Call, Pc
<1>3. calls' = (calls \ {k}) \cup {x}
  BY DEF Clear, Goto
<1> HIDE DEF x
<1>4. StateSound
  BY StateFacts
<1> USE FilesAssumption DEF StateSound, Untouched, Fresh, NoRow, NoJob, Early, Whole, Stored,
    Closing, MySha, Size, Lapsed, Straight, Uncut, Apart, CallOK, InMap, NotInMap, Unready,
    Mine, TmpOf, Holds, BlobsOf, ChunkOf, tabVars, stored, Lapse
<1> USE <1>1, <1>2, <1>3, <1>4 DEF IInv, Clear, Without, Restrict
<1>5. TypesInv' /\ UploadInv'  BY DEF TypesInv, UploadInv, CallInv, WireInv
<1>6. WireInv' /\ CallInv'  BY DEF WireInv, CallInv
<1>7. MapInv' /\ EarlyInv' /\ HashedInv' /\ OneInv'
  BY DEF MapInv, EarlyInv, HashedInv, OneInv
<1>8. OutInv' /\ ProgressInv' /\ UnreadyInv' /\ ReadyInv'
  BY DEF OutInv, ProgressInv, UnreadyInv, ReadyInv
<1>9. GoneInv' /\ AloneInv' /\ TmpFits' /\ BlobsInv'
  BY DEF GoneInv, AloneInv, TmpFits, BlobsInv, TypesInv, CallInv, WireInv, UploadInv, MapInv,
      EarlyInv
<1>10. RowsInv' /\ MineInv' /\ FailedInv' /\ LeftInv'
  BY DEF RowsInv, MineInv, FailedInv, LeftInv
<1>11. WaitInv'  BY DEF WaitInv
<1> QED
  BY <1>5, <1>6, <1>7, <1>8, <1>9, <1>10, <1>11

\* The row of an empty file is added; it is finished at once.
LEMMA AddEmptyKeeps ==
    ASSUME IInv, NEW k \in calls, Add(k), Size(k.u) = 0
    PROVE  IInv'
<1>1. CallSound(k)
  BY CallFacts
<1> USE DEF CallSound
<1> DEFINE x == [k EXCEPT !.pc = "finish"]
<1>2. x \in Call /\ x.by = k.by /\ x.u = k.u /\ x.key = k.key /\ x.size = k.size
      /\ x.pc = "finish"
  BY <1>1 DEF Call, Pc
<1>3. calls' = (calls \ {k}) \cup {x}
  BY DEF Add, Goto
<1> HIDE DEF x
<1>4. /\ k.pc = "add" /\ UNCHANGED <<tab, job, held, wire, open, tmp, blobs, faults>>
      /\ active' \in [Clients -> Uploads \cup {None}]
      /\ \A d \in Clients : active'[d] = IF d = job[k.u].client THEN k.u ELSE active[d]
      /\ lapses' \subseteq Lapse /\ (Straight' <=> Straight) /\ (Uncut' <=> Uncut)
      /\ Apart' => Apart /\ active[job[k.u].client] = None
      /\ "late" \notin lapses' => "late" \notin lapses /\ job[k.u].client \in open
      /\ \A l \in {"swallowed", "cut", "unlogged"} : l \in lapses' <=> l \in lapses
  <2>1. active' = [active EXCEPT ![job[k.u].client] = k.u]
    BY DEF Add
  <2>2. lapses' = lapses \cup Lapsed(active[job[k.u].client] # None, "overlap")
                         \cup Lapsed(job[k.u].client \notin open, "late")
    BY DEF Add
  <2>3. k.pc = "add" /\ UNCHANGED <<tab, job, held, wire, open, tmp, blobs, faults>>
    BY DEF Add, End, tabVars, stored
  <2> QED
    BY <1>1, <2>1, <2>2, <2>3 DEF Lapsed, Lapse, Straight, Uncut, Apart, IInv, TypesInv
<1>5. /\ rows' \in [Uploads -> Row] /\ rows'[k.u].status = "uploading" /\ rows'[k.u].key = None
      /\ \A u \in Uploads : u # k.u => rows'[u] = rows[u]
      /\ progress' \in [Uploads -> Progress] /\ progress'[k.u].digested
      /\ progress'[k.u].offset = 0 /\ progress'[k.u].hash = <<>>
      /\ \A u \in Uploads : u # k.u => progress'[u] = progress[u]
  <2>1. rows' = [rows EXCEPT ![k.u].status = "uploading"]
        /\ progress' = [progress EXCEPT ![k.u].digested = TRUE]
    BY DEF Add
  <2>2. progress[k.u] = Fresh /\ rows[k.u] = NoRow
    BY <1>4 DEF IInv, EarlyInv, Untouched, Early
  <2>3. rows \in [Uploads -> Row] /\ progress \in [Uploads -> Progress]
    BY DEF IInv, TypesInv
  <2>4. /\ rows' \in [Uploads -> Row] /\ rows'[k.u].status = "uploading"
        /\ rows'[k.u].key = rows[k.u].key
        /\ \A u \in Uploads : u # k.u => rows'[u] = rows[u]
    BY <1>1, <2>1, <2>3, Marked
  <2>5. /\ progress' \in [Uploads -> Progress] /\ progress'[k.u].digested
        /\ progress'[k.u].offset = progress[k.u].offset
        /\ progress'[k.u].hash = progress[k.u].hash
        /\ \A u \in Uploads : u # k.u => progress'[u] = progress[u]
    BY <1>1, <2>1, <2>3, Digest
  <2> QED
    BY <2>2, <2>4, <2>5 DEF NoRow, Fresh
<1>6. job[k.u].file = <<>>
  BY <1>1 DEF Size
<1>7. StateSound
  BY StateFacts
<1> USE FilesAssumption DEF StateSound, Untouched, Fresh, NoRow, Early, Whole, Stored, Closing,
    MySha, Size, Lapsed, CallOK, InMap, NotInMap, Unready, Mine, TmpOf, Holds, BlobsOf,
    ChunkOf, tabVars, stored, Lapse
<1>8. BlobsInv'
  <2> SUFFICES ASSUME Uncut', NEW z \in calls' PROVE BlobsOf(z)'
    BY DEF BlobsInv
  <2>0. Uncut
    BY <1>1, <1>2, <1>3, <1>4, <1>5, <1>6, <1>7
  <2>1. ASSUME NEW y \in Uploads, NEW s, Holds(y, s) PROVE Holds(y, s)'
    <3>1. rows[k.u].key = None
      BY <1>4 DEF IInv, EarlyInv
    <3> QED
      BY <1>1, <1>2, <1>3, <1>4, <1>5, <1>6, <1>7, <2>1, <3>1
  <2>2. CASE z = x
    BY <1>1, <1>2, <1>3, <1>4, <1>5, <1>6, <1>7, <2>2
  <2>3. CASE z \in calls /\ z # k
    <3>1. BlobsOf(z) /\ z.u # k.u
      BY <1>4, <2>0, <2>3 DEF IInv, BlobsInv, EarlyInv
    <3> QED
      BY <1>1, <1>2, <1>3, <1>4, <1>5, <1>6, <1>7, <2>1, <2>3, <3>1
  <2> QED
    BY <1>1, <1>2, <1>3, <1>4, <1>5, <1>6, <1>7, <2>2, <2>3
<1>9. MineInv'
  <2> SUFFICES ASSUME Apart' PROVE MineInv!2'
    BY DEF MineInv
  <2>1. Apart /\ active[job[k.u].client] = None /\ Straight
    BY <1>1, <1>2, <1>3, <1>4, <1>5, <1>6, <1>7 DEF IInv, MineInv
  <2>2. ASSUME NEW m \in wire', m.type \in {"next", "chunk"}
        PROVE  active'[m.client] = m.u
    BY <1>1, <1>2, <1>3, <1>4, <1>5, <1>6, <1>7, <2>1, <2>2 DEF IInv, MineInv
  <2>3. ASSUME NEW z \in calls', z.pc \in {"write", "written"}
        PROVE  InMap(z.u)' \/ ("cut" \in lapses' /\ job'[z.u].client \notin open')
    BY <1>1, <1>2, <1>3, <1>4, <1>5, <1>6, <1>7, <2>1, <2>3 DEF IInv, MineInv
  <2> QED
    BY <1>1, <1>2, <1>3, <1>4, <1>5, <1>6, <1>7, <2>1, <2>2, <2>3
<1>10. FailedInv'
  <2>1. ASSUME NEW z \in calls', z.pc = "updated" PROVE rows'[z.u].status # "uploading"
    <3>1. z \in calls /\ z.u # k.u
      BY <1>1, <1>2, <1>3, <1>4, <1>5, <1>6, <1>7, <2>1 DEF IInv, EarlyInv
    <3> QED
      BY <1>1, <1>2, <1>3, <1>4, <1>5, <1>6, <1>7, <2>1, <3>1 DEF IInv, FailedInv
  <2>2. ASSUME Apart', lapses' \cap {"late", "swallowed", "unlogged"} = {},
               NEW u \in Uploads, rows'[u].status = "uploading"
        PROVE  InMap(u)' \/ \E z \in calls' : z.u = u /\ z.pc \in {"abort", "mark"}
    <3>1. CASE u = k.u
      BY <1>1, <1>2, <1>3, <1>4, <1>5, <1>6, <1>7, <2>2, <3>1
    <3>2. CASE u # k.u
      <4>1. rows[u].status = "uploading" /\ "swallowed" \notin lapses
        BY <1>1, <1>2, <1>3, <1>4, <1>5, <1>6, <1>7, <2>2, <3>2
      <4>2. InMap(u) \/ \E z \in calls : z.u = u /\ z.pc \in {"abort", "mark"}
        BY <1>1, <1>2, <1>3, <1>4, <1>5, <1>6, <1>7, <2>2, <4>1 DEF IInv, FailedInv
      <4>3. CASE InMap(u)
        BY <1>1, <1>2, <1>3, <1>4, <1>5, <1>6, <1>7, <2>2, <4>3, <3>2,
            job[u].client \in Clients DEF IInv, TypesInv
      <4>4. CASE \E z \in calls : z.u = u /\ z.pc \in {"abort", "mark"}
        BY <1>1, <1>2, <1>3, <1>4, <1>5, <1>6, <1>7, <4>4
      <4> QED
        BY <4>2, <4>3, <4>4
    <3> QED
      BY <3>1, <3>2
  <2> QED
    BY <2>1, <2>2 DEF FailedInv
<1> USE <1>1, <1>2, <1>3, <1>4, <1>5, <1>6, <1>7 DEF IInv
<1>11. TypesInv' /\ UploadInv'  BY DEF TypesInv, UploadInv
<1>12. WireInv' /\ CallInv'  BY DEF WireInv, CallInv
<1>13. MapInv'
  <2> SUFFICES ASSUME NEW d \in Clients, active'[d] # None
               PROVE  job'[active'[d]].client = d /\ tab'[active'[d]] # "new"
    BY DEF MapInv
  <2> QED
    BY DEF MapInv
<1>14. EarlyInv'  BY DEF EarlyInv
<1>15. HashedInv' /\ OneInv'  BY DEF HashedInv, OneInv, EarlyInv
<1>16. OutInv' /\ ProgressInv'  BY DEF OutInv, ProgressInv, OneInv, EarlyInv, MapInv
<1>17. UnreadyInv' /\ ReadyInv'
  BY DEF UnreadyInv, ReadyInv, OneInv, EarlyInv, OutInv, CallInv
<1>18. GoneInv' /\ AloneInv' /\ TmpFits' /\ RowsInv'
  BY DEF GoneInv, AloneInv, TmpFits, RowsInv, OneInv, EarlyInv, CallInv, WireInv, ProgressInv,
      UnreadyInv, BlobsInv
<1>19. LeftInv'
  BY DEF LeftInv, MineInv, OneInv, GoneInv, CallInv, Row, Progress, TypesInv, WireInv,
      UploadInv, MapInv
<1>20. WaitInv'  BY DEF WaitInv, MineInv, CallInv, OneInv
<1> QED
  BY <1>8, <1>9, <1>10, <1>11, <1>12, <1>13, <1>14, <1>15, <1>16, <1>17, <1>18, <1>19, <1>20

\* The row is added and the first chunk asked for.
LEMMA AddFirstKeeps ==
    ASSUME IInv, NEW k \in calls, Add(k), Size(k.u) # 0
    PROVE  IInv'
<1>1. CallSound(k)
  BY CallFacts
<1> USE DEF CallSound
<1> DEFINE n == Msg("next", k.u, 0)
<1>2. n \in Message /\ n.type = "next" /\ n.u = k.u /\ n.client = job[k.u].client /\ n.at = 0
  BY <1>1 DEF Msg, Message
<1>3. wire' = IF n.client \in open THEN wire \cup {n} ELSE wire
  BY <1>1 DEF Add, FirstAsk, Sent
<1> HIDE DEF n
<1>4. /\ k.pc = "add" /\ calls' = calls \ {k}
      /\ UNCHANGED <<tab, job, held, open, progress, tmp, blobs, faults>>
      /\ active' \in [Clients -> Uploads \cup {None}]
      /\ \A d \in Clients : active'[d] = IF d = job[k.u].client THEN k.u ELSE active[d]
      /\ lapses' \subseteq Lapse /\ (Straight' <=> Straight) /\ (Uncut' <=> Uncut)
      /\ Apart' => Apart /\ active[job[k.u].client] = None
      /\ "late" \notin lapses' => "late" \notin lapses /\ job[k.u].client \in open
      /\ \A l \in {"swallowed", "cut", "unlogged"} : l \in lapses' <=> l \in lapses
  <2>1. active' = [active EXCEPT ![job[k.u].client] = k.u]
    BY DEF Add
  <2>2. lapses' = lapses \cup Lapsed(active[job[k.u].client] # None, "overlap")
                         \cup Lapsed(job[k.u].client \notin open, "late")
    BY DEF Add
  <2>3. k.pc = "add" /\ calls' = calls \ {k}
        /\ UNCHANGED <<tab, job, held, open, progress, tmp, blobs, faults>>
    BY DEF Add, End, tabVars, stored
  <2> QED
    BY <1>1, <2>1, <2>2, <2>3 DEF Lapsed, Lapse, Straight, Uncut, Apart, IInv, TypesInv
<1>5. /\ rows' \in [Uploads -> Row] /\ rows'[k.u].status = "uploading" /\ rows'[k.u].key = None
      /\ \A u \in Uploads : u # k.u => rows'[u] = rows[u]
      /\ progress[k.u] = Fresh
  <2>1. rows' = [rows EXCEPT ![k.u].status = "uploading"]
    BY DEF Add
  <2>2. progress[k.u] = Fresh /\ rows[k.u] = NoRow
    BY <1>4 DEF IInv, EarlyInv, Untouched, Early
  <2>3. rows \in [Uploads -> Row] /\ progress \in [Uploads -> Progress]
    BY DEF IInv, TypesInv
  <2>4. /\ rows' \in [Uploads -> Row] /\ rows'[k.u].status = "uploading"
        /\ rows'[k.u].key = rows[k.u].key
        /\ \A u \in Uploads : u # k.u => rows'[u] = rows[u]
    BY <1>1, <2>1, <2>3, Marked
  <2> QED
    BY <2>2, <2>4 DEF NoRow, Fresh
<1>6. StateSound
  BY StateFacts
<1> USE FilesAssumption DEF StateSound, Untouched, Fresh, NoRow, Early, Whole, Stored, Closing,
    MySha, Size, Lapsed, CallOK, InMap, NotInMap, Unready, Mine, TmpOf, Holds, BlobsOf,
    ChunkOf, tabVars, stored, Lapse
<1>7. MineInv'
  <2> SUFFICES ASSUME Apart' PROVE MineInv!2'
    BY DEF MineInv
  <2>1. Apart /\ active[job[k.u].client] = None /\ Straight
    BY <1>1, <1>2, <1>3, <1>4, <1>5, <1>6 DEF IInv, MineInv
  <2>2. ASSUME NEW m \in wire', m.type \in {"next", "chunk"}
        PROVE  active'[m.client] = m.u
    BY <1>1, <1>2, <1>3, <1>4, <1>5, <1>6, <2>1, <2>2 DEF IInv, MineInv
  <2>3. ASSUME NEW z \in calls', z.pc \in {"write", "written"}
        PROVE  InMap(z.u)' \/ ("cut" \in lapses' /\ job'[z.u].client \notin open')
    BY <1>1, <1>2, <1>3, <1>4, <1>5, <1>6, <2>1, <2>3 DEF IInv, MineInv
  <2> QED
    BY <1>1, <1>2, <1>3, <1>4, <1>5, <1>6, <2>1, <2>2, <2>3
<1>8. FailedInv'
  <2>1. ASSUME NEW z \in calls', z.pc = "updated" PROVE rows'[z.u].status # "uploading"
    <3>1. z \in calls /\ z.u # k.u
      BY <1>1, <1>2, <1>3, <1>4, <1>5, <1>6, <2>1 DEF IInv, EarlyInv
    <3> QED
      BY <1>1, <1>2, <1>3, <1>4, <1>5, <1>6, <2>1, <3>1 DEF IInv, FailedInv
  <2>2. ASSUME Apart', lapses' \cap {"late", "swallowed", "unlogged"} = {},
               NEW u \in Uploads, rows'[u].status = "uploading"
        PROVE  InMap(u)' \/ \E z \in calls' : z.u = u /\ z.pc \in {"abort", "mark"}
    <3>1. CASE u = k.u
      BY <1>1, <1>2, <1>3, <1>4, <1>5, <1>6, <2>2, <3>1
    <3>2. CASE u # k.u
      <4>1. rows[u].status = "uploading" /\ "swallowed" \notin lapses
        BY <1>1, <1>2, <1>3, <1>4, <1>5, <1>6, <2>2, <3>2
      <4>2. InMap(u) \/ \E z \in calls : z.u = u /\ z.pc \in {"abort", "mark"}
        BY <1>1, <1>2, <1>3, <1>4, <1>5, <1>6, <2>2, <4>1 DEF IInv, FailedInv
      <4>3. CASE InMap(u)
        BY <1>1, <1>2, <1>3, <1>4, <1>5, <1>6, <2>2, <4>3, <3>2,
            job[u].client \in Clients DEF IInv, TypesInv
      <4>4. CASE \E z \in calls : z.u = u /\ z.pc \in {"abort", "mark"}
        BY <1>1, <1>2, <1>3, <1>4, <1>5, <1>6, <4>4
      <4> QED
        BY <4>2, <4>3, <4>4
    <3> QED
      BY <3>1, <3>2
  <2> QED
    BY <2>1, <2>2 DEF FailedInv
<1>9. LeftInv'
  <2> SUFFICES ASSUME Apart', "cut" \notin lapses', "swallowed" \notin lapses', NEW u \in DOMAIN tmp
               PROVE  InMap(u)' \/ \E z \in calls' : z.u = u /\ z.pc \in {"abort", "finish"}
    BY <1>1, <1>2, <1>3, <1>4, <1>5, <1>6 DEF LeftInv
  <2>1. InMap(u) \/ \E z \in calls : z.u = u /\ z.pc \in {"abort", "finish"}
    BY <1>1, <1>2, <1>3, <1>4, <1>5, <1>6 DEF IInv, LeftInv
  <2>2. CASE InMap(u)
    BY <1>1, <1>2, <1>3, <1>4, <1>5, <1>6, <2>2, u \in Uploads,
        job[u].client \in Clients DEF IInv, TypesInv
  <2>3. CASE \E z \in calls : z.u = u /\ z.pc \in {"abort", "finish"}
    BY <1>1, <1>2, <1>3, <1>4, <1>5, <1>6, <2>3
  <2> QED
    BY <2>1, <2>2, <2>3
<1> USE <1>1, <1>2, <1>3, <1>4, <1>5, <1>6 DEF IInv
<1>10. UploadInv'  BY SMTT(30) DEF UploadInv, TypesInv
<1>11. MapInv'  BY SMTT(30) DEF MapInv, TypesInv
<1>12. TypesInv' /\ WireInv' /\ CallInv' /\ EarlyInv'
  BY DEF TypesInv, WireInv, CallInv, EarlyInv
<1>13. OutInv'  BY DEF OutInv, OneInv, EarlyInv, MapInv
<1>14. HashedInv' /\ OneInv'  BY DEF HashedInv, OneInv, EarlyInv
<1>15. ProgressInv' /\ UnreadyInv'  BY DEF ProgressInv, UnreadyInv, OneInv, EarlyInv
<1>16. ReadyInv' /\ GoneInv' /\ AloneInv' /\ TmpFits'
  BY DEF ReadyInv, GoneInv, AloneInv, TmpFits, OneInv, OutInv, CallInv, EarlyInv, WireInv,
      ProgressInv
<1>17. BlobsInv' /\ RowsInv' /\ WaitInv'
  BY DEF BlobsInv, RowsInv, WaitInv, OneInv, UnreadyInv, EarlyInv, TmpFits, MineInv, CallInv
<1> QED
  BY <1>7, <1>8, <1>9, <1>10, <1>11, <1>12, <1>13, <1>14, <1>15, <1>16, <1>17

\* writeChunk appends.
LEMMA WriteChunkKeeps ==
    ASSUME IInv, NEW k \in calls, WriteChunk(k)
    PROVE  IInv'
<1>1. CallSound(k)
  BY CallFacts
<1> USE DEF CallSound
<1> DEFINE x == [k EXCEPT !.pc = "written"]
<1>2. x \in Call /\ x.by = k.by /\ x.u = k.u /\ x.key = k.key /\ x.size = k.size
      /\ x.pc = "written"
  BY <1>1 DEF Call, Pc
<1>3. calls' = (calls \ {k}) \cup {x}
  BY DEF WriteChunk, Goto
<1> HIDE DEF x
<1>4. StateSound
  BY StateFacts
<1> USE FilesAssumption DEF StateSound, Untouched, Fresh, NoRow, NoJob, Early, Whole, Stored,
    Closing, MySha, Size, Lapsed, Straight, Uncut, Apart, CallOK, InMap, NotInMap, Unready,
    Mine, TmpOf, Holds, BlobsOf, ChunkOf, tabVars, stored, Lapse
<1>5. TypesInv'
  <2> DEFINE before == IF k.u \in DOMAIN tmp THEN tmp[k.u] ELSE <<>>
  <2>1. tmp' = With(tmp, k.u, Append(before, ChunkOf(k.by)))
    BY DEF WriteChunk
  <2>2. UNCHANGED <<tab, job, held, open, active, progress, blobs, rows, faults, lapses>>
    BY DEF WriteChunk
  <2>3. before \in Seq(Chunk)
    BY <1>1 DEF IInv, TypesInv
  <2>4. ChunkOf(k.by) \in Chunk
    <3>1. k.by.type = "chunk"
      BY <1>1 DEF WriteChunk, IInv, CallInv
    <3>2. k.by.u \in Uploads /\ tab[k.by.u] # "new" /\ k.by.at \in Nat /\ k.by.at < Size(k.by.u)
      BY <1>1, <3>1 DEF IInv, CallInv, Message
    <3>3. job[k.by.u].file \in Files
      BY <3>2 DEF IInv, UploadInv
    <3> QED
      BY <3>2, <3>3, ContentType
  <2> HIDE DEF before
  <2>5. Append(before, ChunkOf(k.by)) \in Seq(Chunk)
    BY <2>3, <2>4
  <2>6. DOMAIN tmp' \subseteq Uploads /\ tmp' \in [DOMAIN tmp' -> Seq(Chunk)]
    BY <1>1, <2>1, <2>5 DEF With, IInv, TypesInv
  <2> QED
    BY <2>2, <2>6 DEF IInv, TypesInv
<1>6. TmpFits'
  <2> SUFFICES ASSUME Uncut' PROVE TmpFits!2'
    BY DEF TmpFits
  <2>0. Straight /\ Uncut /\ ~Closing(k)
    BY <1>1, <1>2, <1>3, <1>4 DEF WriteChunk, IInv, CallInv
  <2>1. /\ \A z \in calls : z # k /\ ~Closing(z) => z.u # k.u
        /\ \A m \in wire : m.u # k.u
    BY <2>0 DEF IInv, OneInv
  <2>2. UNCHANGED <<wire, job, progress>> /\ k.pc = "write"
        /\ tmp' = With(tmp, k.u, Append(TmpOf(k.u), ChunkOf(k.by)))
    BY DEF WriteChunk
  <2>3. TmpOf(k.u) = progress[k.u].hash
    BY <2>0, <2>2 DEF IInv, TmpFits
  <2>4. TmpOf(k.u)' = Append(progress[k.u].hash, ChunkOf(k.by))
    BY <2>2, <2>3 DEF With
  <2>5. \A u \in Uploads : u # k.u => TmpOf(u)' = TmpOf(u)
    BY <2>2 DEF With
  <2> HIDE DEF TmpOf
  <2>6. ASSUME NEW m \in wire', m.type \in {"next", "chunk"}
        PROVE  TmpOf(m.u)' = progress'[m.u].hash
    BY <1>4, <2>0, <2>1, <2>2, <2>5, <2>6 DEF IInv, TmpFits
  <2>7. ASSUME NEW z \in calls', z.pc \in {"write", "finish"}
        PROVE  TmpOf(z.u)' = progress'[z.u].hash
    BY <1>1, <1>2, <1>3, <1>4, <2>0, <2>1, <2>2, <2>5, <2>7 DEF IInv, TmpFits
  <2>8. ASSUME NEW z \in calls', z.pc = "written"
        PROVE  TmpOf(z.u)' = Append(progress'[z.u].hash, ChunkOf(z.by)')
    <3>1. CASE z = x
      BY <1>1, <1>2, <1>3, <1>4, <2>2, <2>4, <3>1
    <3>2. CASE z \in calls /\ z # k
      BY <1>4, <2>0, <2>1, <2>2, <2>5, <2>8, <3>2 DEF IInv, TmpFits
    <3> QED
      BY <1>1, <1>2, <1>3, <1>4, <3>1, <3>2
  <2> QED
    BY <2>6, <2>7, <2>8
<1> USE <1>1, <1>2, <1>3, <1>4 DEF IInv, WriteChunk, With
<1>7. UploadInv' /\ WireInv'  BY DEF UploadInv, WireInv, TypesInv, CallInv
<1>8. CallInv' /\ MapInv'  BY DEF CallInv, MapInv
<1>9. EarlyInv' /\ HashedInv' /\ OneInv' /\ OutInv'
  BY DEF EarlyInv, HashedInv, OneInv, OutInv
<1>10. ProgressInv' /\ UnreadyInv'  BY DEF ProgressInv, UnreadyInv
<1>11. ReadyInv'  BY DEF ReadyInv
<1>12. GoneInv'
  BY SMTT(30) DEF GoneInv, CallInv, OneInv
<1>13. AloneInv' /\ BlobsInv' /\ RowsInv' /\ MineInv'
  BY DEF AloneInv, BlobsInv, RowsInv, MineInv
<1>14. FailedInv'  BY DEF FailedInv
<1>15. LeftInv'
  BY DEF LeftInv, TypesInv, UploadInv, WireInv, CallInv, MapInv, EarlyInv, HashedInv, OneInv,
      OutInv, ProgressInv, UnreadyInv, ReadyInv, GoneInv, AloneInv, TmpFits, BlobsInv, RowsInv,
      MineInv, FailedInv, WaitInv
<1>16. WaitInv'  BY DEF WaitInv
<1> QED
  BY <1>5, <1>6, <1>7, <1>8, <1>9, <1>10, <1>11, <1>12, <1>13, <1>14, <1>15, <1>16

\* A chunk after the hash was taken throws.
LEMMA CountTwiceKeeps ==
    ASSUME IInv, NEW k \in calls, CountChunk(k), progress[k.u].digested
    PROVE  IInv'
<1>1. CallSound(k)
  BY CallFacts
<1> USE DEF CallSound
<1> DEFINE x == [k EXCEPT !.pc = "abort"]
<1>2. x \in Call /\ x.by = k.by /\ x.u = k.u /\ x.key = k.key /\ x.size = k.size /\ x.pc = "abort"
  BY <1>1 DEF Call, Pc
<1>3. calls' = (calls \ {k}) \cup {x}
  BY DEF CountChunk, FailCall, Goto
<1> HIDE DEF x
<1>4. /\ active' \in [Clients -> Uploads \cup {None}]
      /\ \A d \in Clients : active'[d] = IF d = job[k.u].client THEN None ELSE active[d]
      /\ lapses' \subseteq Lapse /\ (Straight' <=> Straight) /\ (Uncut' <=> Uncut)
      /\ Apart' => Apart /\ active[job[k.u].client] \in {k.u, None}
      /\ \A l \in {"late", "swallowed", "cut", "unlogged"} : l \in lapses' <=> l \in lapses
  <2>1. /\ active' = [active EXCEPT ![job[k.u].client] = None]
        /\ lapses' = lapses \cup Lapsed(active[job[k.u].client] \notin {k.u, None}, "evicted")
    BY DEF CountChunk, FailCall, Forget
  <2> QED
    BY <1>1, <2>1 DEF Lapsed, Lapse, Straight, Uncut, Apart, IInv, TypesInv
<1>5. k.pc = "written" /\ UNCHANGED <<tab, job, held, wire, open, progress, tmp, blobs, rows, faults>>
  BY DEF CountChunk, tabVars, stored
<1>6. StateSound
  BY StateFacts
<1> USE FilesAssumption DEF StateSound, Untouched, Fresh, NoRow, Early, Whole, Stored, Closing,
    MySha, Size, Lapsed, CallOK, InMap, NotInMap, Unready, Mine, TmpOf, Holds, BlobsOf,
    ChunkOf, tabVars, stored, Lapse
<1>7. MineInv'
  <2> SUFFICES ASSUME Apart' PROVE MineInv!2'
    BY DEF MineInv
  <2>1. Apart /\ active[job[k.u].client] \in {k.u, None} /\ Straight /\ ~Closing(k)
    BY <1>1, <1>2, <1>3, <1>4, <1>5, <1>6 DEF IInv, MineInv
  <2>2. ASSUME NEW m \in wire', m.type \in {"next", "chunk"}
        PROVE  active'[m.client] = m.u
    BY <1>1, <1>2, <1>3, <1>4, <1>5, <1>6, <2>1, <2>2 DEF IInv, MineInv, OneInv
  <2>3. ASSUME NEW z \in calls', z.pc \in {"write", "written"}
        PROVE  InMap(z.u)' \/ ("cut" \in lapses' /\ job'[z.u].client \notin open')
    <3>1. z \in calls /\ z # k /\ ~Closing(z)
      BY <1>1, <1>2, <1>3, <1>4, <1>5, <1>6, <2>3
    <3>2. z.u # k.u
      BY <2>1, <3>1 DEF IInv, OneInv
    <3> QED
      BY <1>1, <1>2, <1>3, <1>4, <1>5, <1>6, <2>1, <2>3, <3>1, <3>2 DEF IInv, MineInv
  <2> QED
    BY <1>1, <1>2, <1>3, <1>4, <1>5, <1>6, <2>1, <2>2, <2>3
<1> USE <1>1, <1>2, <1>3, <1>4, <1>5, <1>6 DEF IInv
<1>8. TypesInv' /\ UploadInv' /\ WireInv' /\ CallInv'
  BY DEF TypesInv, UploadInv, WireInv, CallInv
<1>9. MapInv' /\ EarlyInv' /\ HashedInv' /\ OneInv'
  BY DEF MapInv, EarlyInv, HashedInv, OneInv
<1>10. OutInv' /\ ProgressInv' /\ UnreadyInv' /\ ReadyInv'
  BY DEF OutInv, ProgressInv, UnreadyInv, ReadyInv, OneInv, EarlyInv, MapInv
<1>11. GoneInv' /\ AloneInv' /\ TmpFits' /\ BlobsInv'
  BY DEF GoneInv, AloneInv, TmpFits, BlobsInv
<1>12. RowsInv' /\ FailedInv'  BY DEF RowsInv, FailedInv, TypesInv, CallInv, WireInv
<1>13. LeftInv'  BY DEF LeftInv, TypesInv, CallInv, WireInv
<1>20. WaitInv'  BY DEF WaitInv
<1> QED
  BY <1>7, <1>8, <1>9, <1>10, <1>11, <1>12, <1>13, <1>20

\* A chunk is counted and the next one asked for.
LEMMA CountMoreKeeps ==
    ASSUME IInv, NEW k \in calls, CountChunk(k), ~progress[k.u].digested,
           progress[k.u].offset + 1 < Size(k.u)
    PROVE  IInv'
<1>1. CallSound(k)
  BY CallFacts
<1> USE DEF CallSound
<1> DEFINE n == Msg("next", k.u, progress[k.u].offset + 1)
<1>2. n \in Message /\ n.type = "next" /\ n.u = k.u /\ n.client = job[k.u].client
      /\ n.at = progress[k.u].offset + 1
  BY <1>1 DEF Msg, Message, IInv, TypesInv, Progress
<1>3. wire' = IF n.client \in open THEN wire \cup {n} ELSE wire
  BY <1>1 DEF CountChunk, Sent
<1> HIDE DEF n
<1>4. k.pc = "written" /\ ~progress[k.u].digested
  BY DEF CountChunk
<1>5. progress[k.u].offset \in Nat /\ progress[k.u].hash \in Seq(Chunk) /\ ChunkOf(k.by) \in Chunk
  <2>1. k.by.type = "chunk"
    BY <1>1, <1>4 DEF IInv, CallInv, CallOK, Whole, Stored, Early, Closing
  <2>2. k.by.u \in Uploads /\ tab[k.by.u] # "new" /\ k.by.at \in Nat /\ k.by.at < Size(k.by.u)
    BY <1>1, <2>1 DEF IInv, CallInv, CallOK, Message
  <2>3. job[k.by.u].file \in Files
    BY <2>2 DEF IInv, UploadInv
  <2> QED
    BY <1>1, <2>2, <2>3, ContentType DEF IInv, TypesInv, Progress, ChunkOf, Size
<1> DEFINE h == Append(progress[k.u].hash, ChunkOf(k.by))
<1>6. h \in Seq(Chunk) /\ Len(h) = Len(progress[k.u].hash) + 1
  BY <1>5
<1>7. /\ progress' \in [Uploads -> Progress]
      /\ progress'[k.u].offset = progress[k.u].offset + 1 /\ progress'[k.u].hash = h
      /\ progress'[k.u].digested <=> ~(progress[k.u].offset + 1 < Size(k.u))
      /\ \A u \in Uploads : u # k.u => progress'[u] = progress[u]
  <2>1. progress' = [progress EXCEPT ![k.u] = [offset |-> progress[k.u].offset + 1,
            hash |-> h, digested |-> progress[k.u].offset + 1 >= Size(k.u)]]
    BY <1>4 DEF CountChunk
  <2> HIDE DEF h
  <2>2. progress \in [Uploads -> Progress]
    BY DEF IInv, TypesInv
  <2>3. progress[k.u].offset + 1 \in Nat /\ (progress[k.u].offset + 1 >= Size(k.u)) \in BOOLEAN
    BY <1>1, <1>5
  <2>4. /\ progress' \in [Uploads -> Progress]
        /\ progress'[k.u].offset = progress[k.u].offset + 1 /\ progress'[k.u].hash = h
        /\ progress'[k.u].digested = (progress[k.u].offset + 1 >= Size(k.u))
        /\ \A u \in Uploads : u # k.u => progress'[u] = progress[u]
    BY <1>1, <1>6, <2>1, <2>2, <2>3, Counted
  <2>5. progress[k.u].offset + 1 >= Size(k.u) <=> ~(progress[k.u].offset + 1 < Size(k.u))
    BY <1>1, <1>5
  <2> QED
    BY <2>4, <2>5
<1> HIDE DEF h
<1>8. calls' = calls \ {k}
      /\ UNCHANGED <<tab, job, held, open, active, tmp, blobs, rows, faults, lapses>>
  BY DEF CountChunk, End, tabVars, stored
<1>9. StateSound
  BY StateFacts
<1> USE FilesAssumption DEF StateSound, Untouched, Fresh, NoRow, NoJob, Early, Whole, Stored,
    Closing, MySha, Size, Lapsed, Straight, Uncut, Apart, CallOK, InMap, NotInMap, Unready,
    Mine, TmpOf, Holds, BlobsOf, ChunkOf, tabVars, stored, Lapse
<1>10. UploadInv'
  <2>1. ASSUME NEW u \in Uploads, u # k.u
        PROVE  progress'[u] = progress[u]
    BY <1>7, <2>1
  <2>2. progress'[k.u].offset <= Size(k.u)'
        /\ (~progress'[k.u].digested => progress'[k.u].offset < Size(k.u)')
    BY <1>1, <1>5, <1>7, <1>8
  <2>3. ASSUME NEW u \in Uploads
        PROVE  /\ progress'[u].offset <= Size(u)'
               /\ ~progress'[u].digested /\ Size(u)' > 0 => progress'[u].offset < Size(u)'
    BY <1>8, <2>1, <2>2 DEF IInv, UploadInv
  <2>4. ASSUME NEW u \in Uploads
        PROVE  /\ rows'[u].status = "ready" => rows'[u].key # None
               /\ tab'[u] = "new" => job'[u] = NoJob /\ progress'[u] = Fresh /\ rows'[u] = NoRow
                                    /\ u \notin DOMAIN tmp' /\ u \notin DOMAIN blobs'
               /\ tab'[u] # "new" => job'[u].client \in Clients /\ job'[u].file \in Files
    BY <1>1, <1>8, <2>1 DEF IInv, UploadInv
  <2> QED
    BY <2>3, <2>4 DEF UploadInv
<1>11. EarlyInv'
  <2>1. ASSUME NEW v \in Uploads, v # k.u, Untouched(v) PROVE Untouched(v)'
    BY <1>1, <1>2, <1>3, <1>4, <1>5, <1>6, <1>7, <1>8, <1>9, <2>1
  <2>2. ASSUME NEW m \in wire', m.type = "start"
        PROVE  /\ Untouched(m.u)'
               /\ \A p \in wire' : p.u = m.u => p = m
               /\ \A z \in calls' : z.u # m.u
    <3>1. /\ m \in wire /\ Untouched(m.u) /\ m.u # k.u
          /\ \A p \in wire : p.u = m.u => p = m
          /\ \A z \in calls : z.u # m.u
      BY <1>1, <1>2, <1>3, <1>4, <1>5, <1>6, <1>7, <1>8, <1>9, <2>2 DEF IInv, EarlyInv
    <3> QED
      BY <1>1, <1>2, <1>3, <1>4, <1>5, <1>6, <1>7, <1>8, <1>9, <2>1, <3>1
  <2>3. ASSUME NEW z \in calls', z.pc \in Early
        PROVE  /\ Untouched(z.u)'
               /\ \A p \in wire' : p.u # z.u
               /\ \A y \in calls' : y.u = z.u => y = z
    <3>1. z \in calls /\ z # k
      BY <1>1, <1>2, <1>3, <1>4, <1>5, <1>6, <1>7, <1>8, <1>9, <2>3
    <3>2. /\ Untouched(z.u) /\ z.u # k.u
          /\ \A p \in wire : p.u # z.u
          /\ \A y \in calls : y.u = z.u => y = z
      BY <1>4, <2>3, <3>1 DEF IInv, EarlyInv
    <3> QED
      BY <1>1, <1>2, <1>3, <1>4, <1>5, <1>6, <1>7, <1>8, <1>9, <2>1, <3>1, <3>2
  <2> QED
    BY <2>2, <2>3 DEF EarlyInv
<1>12. HashedInv'
  <2>1. \A z \in calls : z.pc \in Whole => z.u # k.u
    BY <1>4 DEF IInv, HashedInv
  <2>2. ASSUME NEW z \in calls', z.pc \in Whole
        PROVE  progress'[z.u].digested
               /\ (job'[z.u].hashed => progress'[z.u].hash = job'[z.u].file)
    <3>1. z \in calls /\ z.u # k.u /\ z.u \in Uploads
      BY <1>8, <1>9, <2>1, <2>2
    <3>2. progress'[z.u] = progress[z.u] /\ job' = job
      BY <1>7, <1>8, <3>1
    <3> QED
      BY <2>2, <3>1, <3>2 DEF IInv, HashedInv
  <2>3. \A z \in calls' : z.pc \in {"updated", "load", "linked"} => MySha(z.u)'
    BY <1>1, <1>2, <1>3, <1>4, <1>5, <1>6, <1>7, <1>8, <1>9 DEF IInv, HashedInv
  <2>4. \A m \in wire' : m.type = "done" => MySha(m.u)'
    BY <1>1, <1>2, <1>3, <1>4, <1>5, <1>6, <1>7, <1>8, <1>9 DEF IInv, HashedInv
  <2>5. \A u \in Uploads : tab'[u] = "done" => MySha(u)'
    BY <1>1, <1>2, <1>3, <1>4, <1>5, <1>6, <1>7, <1>8, <1>9 DEF IInv, HashedInv
  <2> QED
    BY <2>2, <2>3, <2>4, <2>5 DEF HashedInv
<1>13. OneInv'
  <2> SUFFICES ASSUME Straight' PROVE OneInv!2'
    BY DEF OneInv
  <2>1. Straight /\ ~Closing(k)
    BY <1>1, <1>2, <1>3, <1>4, <1>5, <1>6, <1>7, <1>8, <1>9 DEF IInv, CallInv
  <2>2. /\ \A m \in wire : m.u # k.u
        /\ \A z \in calls : ~Closing(z) /\ z.u = k.u => z = k
        /\ tab[k.u] \notin {"done", "error"}
    BY <1>1, <1>2, <1>3, <1>4, <1>5, <1>6, <1>7, <1>8, <1>9, <2>1 DEF IInv, OneInv
  <2>3. \A m, p \in wire' : m.u = p.u => m = p
    BY <1>1, <1>2, <1>3, <1>4, <1>5, <1>6, <1>7, <1>8, <1>9, <2>1, <2>2 DEF IInv, OneInv
  <2>4. \A z, y \in calls' : ~Closing(z) /\ ~Closing(y) /\ z.u = y.u => z = y
    BY <1>1, <1>2, <1>3, <1>4, <1>5, <1>6, <1>7, <1>8, <1>9, <2>1 DEF IInv, OneInv
  <2>5. \A m \in wire', z \in calls' : ~Closing(z) => m.u # z.u
    BY <1>1, <1>2, <1>3, <1>4, <1>5, <1>6, <1>7, <1>8, <1>9, <2>1, <2>2 DEF IInv, OneInv
  <2>6. \A u \in Uploads : tab'[u] \in {"done", "error"} =>
            (\A m \in wire' : m.u # u) /\ (\A z \in calls' : ~Closing(z) => z.u # u)
    BY <1>1, <1>2, <1>3, <1>4, <1>5, <1>6, <1>7, <1>8, <1>9, <2>1, <2>2 DEF IInv, OneInv
  <2> QED
    BY <2>3, <2>4, <2>5, <2>6
<1>14. ProgressInv'
  <2> SUFFICES ASSUME Straight' PROVE ProgressInv!2'
    BY DEF ProgressInv
  <2>0. Straight
    BY <1>1, <1>2, <1>3, <1>4, <1>5, <1>6, <1>7, <1>8, <1>9
  <2>1. /\ \A z \in calls : z # k /\ ~Closing(z) => z.u # k.u
        /\ \A m \in wire : m.u # k.u
        /\ tab[k.u] \notin {"done", "error"}
        /\ progress[k.u].offset < Size(k.u)
        /\ h = SubSeq(job[k.u].file, 1, progress[k.u].offset + 1)
    BY <1>1, <1>2, <1>3, <1>4, <1>5, <1>6, <1>7, <1>8, <1>9, <2>0, CountFacts DEF h
  <2>2. ASSUME NEW m \in wire', m.type \in {"next", "chunk"}
        PROVE  m.at = progress'[m.u].offset /\ ~progress'[m.u].digested
    <3>1. CASE m = n
      BY <1>1, <1>2, <1>3, <1>4, <1>5, <1>6, <1>7, <1>8, <1>9, <3>1
    <3>2. CASE m \in wire
      BY <1>1, <1>2, <1>3, <1>4, <1>5, <1>6, <1>7, <1>8, <1>9, <2>0, <2>1, <2>2, <3>2 DEF IInv,
          ProgressInv
    <3> QED
      BY <1>1, <1>2, <1>3, <1>4, <1>5, <1>6, <1>7, <1>8, <1>9, <3>1, <3>2
  <2>3. ASSUME NEW z \in calls', z.pc \in {"write", "written"}
        PROVE  z.by.u = z.u /\ z.by.at = progress'[z.u].offset /\ ~progress'[z.u].digested
    BY <1>1, <1>2, <1>3, <1>4, <1>5, <1>6, <1>7, <1>8, <1>9, <2>0, <2>1, <2>3 DEF IInv,
        ProgressInv
  <2>4. ASSUME NEW z \in calls', z.pc \in Whole PROVE progress'[z.u].offset = Size(z.u)'
    BY <1>1, <1>2, <1>3, <1>4, <1>5, <1>6, <1>7, <1>8, <1>9, <2>0, <2>1, <2>4 DEF IInv,
        ProgressInv
  <2>5. ASSUME NEW u \in Uploads
        PROVE  progress'[u].hash = SubSeq(job'[u].file, 1, progress'[u].offset)
    <3>1. job' = job /\ progress[u].hash = SubSeq(job[u].file, 1, progress[u].offset)
      BY <1>1, <1>2, <1>3, <1>4, <1>5, <1>6, <1>7, <1>8, <1>9, <2>0 DEF IInv, ProgressInv
    <3>2. CASE u = k.u
      BY <1>7, <2>1, <3>1, <3>2
    <3>3. CASE u # k.u
      BY <1>7, <3>1, <3>3
    <3> QED
      BY <3>2, <3>3
  <2> QED
    BY <2>2, <2>3, <2>4, <2>5
<1>15. TmpFits'
  <2> SUFFICES ASSUME Uncut' PROVE TmpFits!2'
    BY DEF TmpFits
  <2>0. Straight /\ Uncut
    BY <1>1, <1>2, <1>3, <1>4, <1>5, <1>6, <1>7, <1>8, <1>9 DEF Straight, Uncut
  <2>1. /\ \A z \in calls : z # k /\ ~Closing(z) => z.u # k.u
        /\ \A m \in wire : m.u # k.u
        /\ tab[k.u] \notin {"done", "error"}
        /\ progress[k.u].offset < Size(k.u)
        /\ h = SubSeq(job[k.u].file, 1, progress[k.u].offset + 1)
    BY <1>1, <1>2, <1>3, <1>4, <1>5, <1>6, <1>7, <1>8, <1>9, <2>0, CountFacts DEF h
  <2>2. TmpOf(k.u) = h
    BY <1>1, <1>2, <1>3, <1>4, <1>5, <1>6, <1>7, <1>8, <1>9, <2>0 DEF IInv, TmpFits, h
  <2>3. ASSUME NEW m \in wire', m.type \in {"next", "chunk"}
        PROVE  TmpOf(m.u)' = progress'[m.u].hash
    <3>1. CASE m.u = k.u
      BY <1>7, <1>8, <2>2, <3>1
    <3>2. CASE m.u # k.u
      <4>1. m \in wire /\ TmpOf(m.u)' = TmpOf(m.u)
        BY <1>1, <1>2, <1>3, <1>8, <2>3, <3>2
      <4> QED
        BY <1>7, <1>9, <2>0, <2>3, <3>2, <4>1 DEF IInv, TmpFits
    <3> QED
      BY <3>1, <3>2
  <2>4. ASSUME NEW z \in calls', z.pc \in {"write", "finish"}
        PROVE  TmpOf(z.u)' = progress'[z.u].hash
    BY <1>1, <1>2, <1>3, <1>4, <1>5, <1>6, <1>7, <1>8, <1>9, <2>0, <2>1, <2>2, <2>4 DEF IInv,
        TmpFits
  <2>5. ASSUME NEW z \in calls', z.pc = "written"
        PROVE  TmpOf(z.u)' = Append(progress'[z.u].hash, ChunkOf(z.by)')
    BY <1>1, <1>2, <1>3, <1>4, <1>5, <1>6, <1>7, <1>8, <1>9, <2>0, <2>1, <2>5 DEF IInv, TmpFits
  <2> QED
    BY <2>3, <2>4, <2>5
<1>16. BlobsInv'
  <2> SUFFICES ASSUME Uncut', NEW z \in calls' PROVE BlobsOf(z)'
    BY DEF BlobsInv
  <2>0. Straight /\ Uncut
    BY <1>1, <1>2, <1>3, <1>4, <1>5, <1>6, <1>7, <1>8, <1>9 DEF Straight, Uncut
  <2>1. /\ \A y \in calls : y # k /\ ~Closing(y) => y.u # k.u
        /\ \A m \in wire : m.u # k.u
        /\ tab[k.u] \notin {"done", "error"}
        /\ progress[k.u].offset < Size(k.u)
        /\ h = SubSeq(job[k.u].file, 1, progress[k.u].offset + 1)
    BY <1>1, <1>2, <1>3, <1>4, <1>5, <1>6, <1>7, <1>8, <1>9, <2>0, CountFacts DEF h
  <2>3. CASE z \in calls /\ z # k
    <3>1. BlobsOf(z)
      BY <2>0, <2>3 DEF IInv, BlobsInv
    <3>2. CASE ~Closing(z)
      BY <1>1, <1>2, <1>3, <1>4, <1>5, <1>6, <1>7, <1>8, <1>9, <2>1, <2>3, <3>1, <3>2
    <3>3. CASE Closing(z)
      <4>1. z.pc \in {"abort", "mark"}
        BY <2>3, <3>3 DEF IInv, CallInv
      <4> QED
        BY <4>1
    <3> QED
      BY <3>2, <3>3
  <2> QED
    BY <1>1, <1>2, <1>3, <1>4, <1>5, <1>6, <1>7, <1>8, <1>9, <2>3
<1> USE <1>1, <1>2, <1>3, <1>4, <1>5, <1>6, <1>7, <1>8, <1>9 DEF IInv
<1>17. TypesInv' /\ WireInv' /\ CallInv' /\ MapInv'
  BY DEF TypesInv, WireInv, CallInv, MapInv
<1>18. OutInv' /\ UnreadyInv' /\ ReadyInv' /\ GoneInv'
  BY DEF OutInv, UnreadyInv, ReadyInv, GoneInv, OneInv, EarlyInv, MapInv, CallInv
<1>19. AloneInv' /\ RowsInv' /\ MineInv' /\ FailedInv'
  BY DEF AloneInv, RowsInv, MineInv, FailedInv, CallInv, WireInv, OneInv, UnreadyInv, EarlyInv,
      BlobsInv
<1>20. LeftInv'  BY DEF LeftInv, MineInv, OneInv, GoneInv, CallInv
<1>21. WaitInv'  BY DEF WaitInv, MineInv, CallInv, OneInv
<1> QED
  BY <1>10, <1>11, <1>12, <1>13, <1>14, <1>15, <1>16, <1>17, <1>18, <1>19, <1>20, <1>21

\* The last chunk is counted, and the hash is not the announced one.
LEMMA CountWrongKeeps ==
    ASSUME IInv, NEW k \in calls, CountChunk(k), ~progress[k.u].digested,
           ~(progress[k.u].offset + 1 < Size(k.u)), WrongHash(k.u, Append(progress[k.u].hash, ChunkOf(k.by)))
    PROVE  IInv'
<1>1. CallSound(k)
  BY CallFacts
<1> USE DEF CallSound
<1> DEFINE x == [k EXCEPT !.pc = "abort"]
<1>2. x \in Call /\ x.by = k.by /\ x.u = k.u /\ x.key = k.key /\ x.size = k.size /\ x.pc = "abort"
  BY <1>1 DEF Call, Pc
<1>3. calls' = (calls \ {k}) \cup {x}
  BY DEF CountChunk, FailCall, Goto
<1> HIDE DEF x
<1>4. k.pc = "written" /\ ~progress[k.u].digested
  BY DEF CountChunk
<1>5. progress[k.u].offset \in Nat /\ progress[k.u].hash \in Seq(Chunk) /\ ChunkOf(k.by) \in Chunk
  <2>1. k.by.type = "chunk"
    BY <1>1, <1>4 DEF IInv, CallInv, CallOK, Whole, Stored, Early, Closing
  <2>2. k.by.u \in Uploads /\ tab[k.by.u] # "new" /\ k.by.at \in Nat /\ k.by.at < Size(k.by.u)
    BY <1>1, <2>1 DEF IInv, CallInv, CallOK, Message
  <2>3. job[k.by.u].file \in Files
    BY <2>2 DEF IInv, UploadInv
  <2> QED
    BY <1>1, <2>2, <2>3, ContentType DEF IInv, TypesInv, Progress, ChunkOf, Size
<1> DEFINE h == Append(progress[k.u].hash, ChunkOf(k.by))
<1>6. h \in Seq(Chunk) /\ Len(h) = Len(progress[k.u].hash) + 1
  BY <1>5
<1>7. /\ progress' \in [Uploads -> Progress]
      /\ progress'[k.u].offset = progress[k.u].offset + 1 /\ progress'[k.u].hash = h
      /\ progress'[k.u].digested <=> ~(progress[k.u].offset + 1 < Size(k.u))
      /\ \A u \in Uploads : u # k.u => progress'[u] = progress[u]
  <2>1. progress' = [progress EXCEPT ![k.u] = [offset |-> progress[k.u].offset + 1,
            hash |-> h, digested |-> progress[k.u].offset + 1 >= Size(k.u)]]
    BY <1>4 DEF CountChunk
  <2> HIDE DEF h
  <2>2. progress \in [Uploads -> Progress]
    BY DEF IInv, TypesInv
  <2>3. progress[k.u].offset + 1 \in Nat /\ (progress[k.u].offset + 1 >= Size(k.u)) \in BOOLEAN
    BY <1>1, <1>5
  <2>4. /\ progress' \in [Uploads -> Progress]
        /\ progress'[k.u].offset = progress[k.u].offset + 1 /\ progress'[k.u].hash = h
        /\ progress'[k.u].digested = (progress[k.u].offset + 1 >= Size(k.u))
        /\ \A u \in Uploads : u # k.u => progress'[u] = progress[u]
    BY <1>1, <1>6, <2>1, <2>2, <2>3, Counted
  <2>5. progress[k.u].offset + 1 >= Size(k.u) <=> ~(progress[k.u].offset + 1 < Size(k.u))
    BY <1>1, <1>5
  <2> QED
    BY <2>4, <2>5
<1> HIDE DEF h
<1>8. /\ active' \in [Clients -> Uploads \cup {None}]
      /\ \A d \in Clients : active'[d] = IF d = job[k.u].client THEN None ELSE active[d]
      /\ lapses' \subseteq Lapse /\ (Straight' <=> Straight) /\ (Uncut' <=> Uncut)
      /\ Apart' => Apart /\ active[job[k.u].client] \in {k.u, None}
      /\ \A l \in {"late", "swallowed", "cut", "unlogged"} : l \in lapses' <=> l \in lapses
  BY <1>1 DEF CountChunk, FailCall, Forget, Lapsed, Lapse, Straight, Uncut, Apart, IInv, TypesInv
<1>9. UNCHANGED <<tab, job, held, wire, open, tmp, blobs, rows, faults>>
  BY DEF CountChunk, tabVars, stored
<1>10. StateSound
  BY StateFacts
<1> USE FilesAssumption DEF StateSound, Untouched, Fresh, NoRow, Early, Whole, Stored, Closing,
    MySha, Size, Lapsed, CallOK, InMap, NotInMap, Unready, Mine, TmpOf, Holds, BlobsOf,
    ChunkOf, tabVars, stored, Lapse
<1>11. UploadInv'
  <2>1. progress[k.u].offset < Size(k.u)
    BY <1>1, <1>2, <1>3, <1>4, <1>5, <1>6, <1>7, <1>8, <1>9, <1>10 DEF IInv, CallInv, UploadInv
  <2>2. ASSUME NEW u \in Uploads
        PROVE  /\ progress'[u].offset <= Size(u)'
               /\ ~progress'[u].digested /\ Size(u)' > 0 => progress'[u].offset < Size(u)'
    <3>1. CASE u = k.u
      <4>1. progress'[k.u].digested /\ progress'[k.u].offset <= Size(k.u)
            /\ Size(k.u)' = Size(k.u)
        BY <1>1, <1>5, <1>7, <1>8, <1>9, <2>1
      <4> QED
        BY <3>1, <4>1
    <3>2. CASE u # k.u
      BY <1>1, <1>2, <1>3, <1>4, <1>5, <1>6, <1>7, <1>8, <1>9, <1>10, <3>2 DEF IInv, UploadInv
    <3> QED
      BY <3>1, <3>2
  <2>3. ASSUME NEW u \in Uploads
        PROVE  /\ rows'[u].status = "ready" => rows'[u].key # None
               /\ tab'[u] = "new" => job'[u] = NoJob /\ progress'[u] = Fresh /\ rows'[u] = NoRow
                                    /\ u \notin DOMAIN tmp' /\ u \notin DOMAIN blobs'
               /\ tab'[u] # "new" => job'[u].client \in Clients /\ job'[u].file \in Files
    BY <1>1, <1>2, <1>3, <1>4, <1>5, <1>6, <1>7, <1>8, <1>9, <1>10 DEF IInv, UploadInv
  <2> QED
    BY <2>2, <2>3 DEF UploadInv
<1>12. EarlyInv'
  <2>1. ASSUME NEW v \in Uploads, v # k.u, Untouched(v) PROVE Untouched(v)'
    BY <1>1, <1>2, <1>3, <1>4, <1>5, <1>6, <1>7, <1>8, <1>9, <1>10, <2>1
  <2>2. ASSUME NEW m \in wire', m.type = "start"
        PROVE  /\ Untouched(m.u)'
               /\ \A p \in wire' : p.u = m.u => p = m
               /\ \A z \in calls' : z.u # m.u
    <3>1. /\ m \in wire /\ Untouched(m.u) /\ m.u # k.u
          /\ \A p \in wire : p.u = m.u => p = m
          /\ \A z \in calls : z.u # m.u
      BY <1>1, <1>2, <1>3, <1>4, <1>5, <1>6, <1>7, <1>8, <1>9, <1>10, <2>2 DEF IInv, EarlyInv
    <3> QED
      BY <1>1, <1>2, <1>3, <1>4, <1>5, <1>6, <1>7, <1>8, <1>9, <1>10, <2>1, <3>1
  <2>3. ASSUME NEW z \in calls', z.pc \in Early
        PROVE  /\ Untouched(z.u)'
               /\ \A p \in wire' : p.u # z.u
               /\ \A y \in calls' : y.u = z.u => y = z
    <3>1. z \in calls /\ z # k
      BY <1>1, <1>2, <1>3, <1>4, <1>5, <1>6, <1>7, <1>8, <1>9, <1>10, <2>3
    <3>2. /\ Untouched(z.u) /\ z.u # k.u
          /\ \A p \in wire : p.u # z.u
          /\ \A y \in calls : y.u = z.u => y = z
      BY <1>4, <2>3, <3>1 DEF IInv, EarlyInv
    <3> QED
      BY <1>1, <1>2, <1>3, <1>4, <1>5, <1>6, <1>7, <1>8, <1>9, <1>10, <2>1, <3>1, <3>2
  <2> QED
    BY <2>2, <2>3 DEF EarlyInv
<1>13. HashedInv'
  <2>1. \A z \in calls : z.pc \in Whole => z.u # k.u
    BY <1>4 DEF IInv, HashedInv
  <2>2. ASSUME NEW z \in calls', z.pc \in Whole
        PROVE  progress'[z.u].digested
               /\ (job'[z.u].hashed => progress'[z.u].hash = job'[z.u].file)
    <3>1. CASE z = x
      BY <1>1, <1>2, <1>3, <1>4, <1>5, <1>6, <1>7, <1>8, <1>9, <1>10, <2>2, <3>1
    <3>2. CASE z \in calls
      <4>1. z.u # k.u /\ z.u \in Uploads
        BY <1>1, <1>2, <1>3, <1>4, <1>5, <1>6, <1>7, <1>8, <1>9, <1>10, <2>1, <2>2, <3>2
      <4> QED
        BY <1>1, <1>2, <1>3, <1>4, <1>5, <1>6, <1>7, <1>8, <1>9, <1>10, <2>2, <3>2,
            <4>1 DEF IInv, HashedInv
    <3> QED
      BY <1>1, <1>2, <1>3, <1>4, <1>5, <1>6, <1>7, <1>8, <1>9, <1>10, <3>1, <3>2
  <2>3. \A z \in calls' : z.pc \in {"updated", "load", "linked"} => MySha(z.u)'
    BY <1>1, <1>2, <1>3, <1>4, <1>5, <1>6, <1>7, <1>8, <1>9, <1>10 DEF IInv, HashedInv
  <2>4. \A m \in wire' : m.type = "done" => MySha(m.u)'
    BY <1>1, <1>2, <1>3, <1>4, <1>5, <1>6, <1>7, <1>8, <1>9, <1>10 DEF IInv, HashedInv
  <2>5. \A u \in Uploads : tab'[u] = "done" => MySha(u)'
    BY <1>1, <1>2, <1>3, <1>4, <1>5, <1>6, <1>7, <1>8, <1>9, <1>10 DEF IInv, HashedInv
  <2> QED
    BY <2>2, <2>3, <2>4, <2>5 DEF HashedInv
<1>14. OutInv'
  <2> SUFFICES ASSUME Straight' PROVE OutInv!2'
    BY DEF OutInv
  <2>1. Straight
    BY <1>1, <1>2, <1>3, <1>4, <1>5, <1>6, <1>7, <1>8, <1>9, <1>10
  <2>2. ASSUME NEW u \in Uploads, job[u].client \in Clients, NotInMap(u) PROVE NotInMap(u)'
    BY <1>1, <1>2, <1>3, <1>4, <1>5, <1>6, <1>7, <1>8, <1>9, <1>10, <2>2
  <2>3. NotInMap(k.u)'
    BY <1>1, <1>2, <1>3, <1>4, <1>5, <1>6, <1>7, <1>8, <1>9, <1>10
  <2>4. \A m \in wire' : m.type \notin {"next", "chunk"} => NotInMap(m.u)'
    BY <1>1, <1>2, <1>3, <1>4, <1>5, <1>6, <1>7, <1>8, <1>9, <1>10, <2>1, <2>2 DEF IInv, OutInv
  <2>5. ASSUME NEW z \in calls', ~Closing(z), z.pc \in Early \cup {"linked", "load", "abort", "mark"}
        PROVE  NotInMap(z.u)'
    <3>1. CASE z = x
      BY <1>1, <1>2, <1>3, <1>4, <1>5, <1>6, <1>7, <1>8, <1>9, <1>10, <2>3, <3>1
    <3>2. CASE z \in calls
      BY <1>1, <1>2, <1>3, <1>4, <1>5, <1>6, <1>7, <1>8, <1>9, <1>10, <2>1, <2>2, <2>5,
          <3>2 DEF IInv, OutInv
    <3> QED
      BY <1>1, <1>2, <1>3, <1>4, <1>5, <1>6, <1>7, <1>8, <1>9, <1>10, <3>1, <3>2
  <2>6. \A u \in Uploads : tab'[u] \in {"done", "error"} => NotInMap(u)'
    BY <1>1, <1>2, <1>3, <1>4, <1>5, <1>6, <1>7, <1>8, <1>9, <1>10, <2>1, <2>2 DEF IInv, OutInv
  <2> QED
    BY <2>4, <2>5, <2>6
<1>15. ProgressInv'
  <2> SUFFICES ASSUME Straight' PROVE ProgressInv!2'
    BY DEF ProgressInv
  <2>0. Straight
    BY <1>1, <1>2, <1>3, <1>4, <1>5, <1>6, <1>7, <1>8, <1>9, <1>10
  <2>1. /\ \A z \in calls : z # k /\ ~Closing(z) => z.u # k.u
        /\ \A m \in wire : m.u # k.u
        /\ tab[k.u] \notin {"done", "error"}
        /\ progress[k.u].offset < Size(k.u)
        /\ h = SubSeq(job[k.u].file, 1, progress[k.u].offset + 1)
    BY <1>1, <1>2, <1>3, <1>4, <1>5, <1>6, <1>7, <1>8, <1>9, <1>10, <2>0, CountFacts DEF h
  <2>2. ASSUME NEW m \in wire', m.type \in {"next", "chunk"}
        PROVE  m.at = progress'[m.u].offset /\ ~progress'[m.u].digested
    BY <1>1, <1>2, <1>3, <1>4, <1>5, <1>6, <1>7, <1>8, <1>9, <1>10, <2>0, <2>1, <2>2 DEF IInv,
        ProgressInv
  <2>3. ASSUME NEW z \in calls', z.pc \in {"write", "written"}
        PROVE  z.by.u = z.u /\ z.by.at = progress'[z.u].offset /\ ~progress'[z.u].digested
    BY <1>1, <1>2, <1>3, <1>4, <1>5, <1>6, <1>7, <1>8, <1>9, <1>10, <2>0, <2>1, <2>3 DEF IInv,
        ProgressInv
  <2>4. ASSUME NEW z \in calls', z.pc \in Whole PROVE progress'[z.u].offset = Size(z.u)'
    BY <1>1, <1>2, <1>3, <1>4, <1>5, <1>6, <1>7, <1>8, <1>9, <1>10, <2>0, <2>1, <2>4 DEF IInv,
        ProgressInv
  <2>5. ASSUME NEW u \in Uploads
        PROVE  progress'[u].hash = SubSeq(job'[u].file, 1, progress'[u].offset)
    <3>1. job' = job /\ progress[u].hash = SubSeq(job[u].file, 1, progress[u].offset)
      BY <1>1, <1>2, <1>3, <1>4, <1>5, <1>6, <1>7, <1>8, <1>9, <1>10, <2>0 DEF IInv, ProgressInv
    <3>2. CASE u = k.u
      BY <1>7, <2>1, <3>1, <3>2
    <3>3. CASE u # k.u
      BY <1>7, <3>1, <3>3
    <3> QED
      BY <3>2, <3>3
  <2> QED
    BY <2>2, <2>3, <2>4, <2>5
<1>16. TmpFits'
  <2> SUFFICES ASSUME Uncut' PROVE TmpFits!2'
    BY DEF TmpFits
  <2>0. Straight /\ Uncut
    BY <1>1, <1>2, <1>3, <1>4, <1>5, <1>6, <1>7, <1>8, <1>9, <1>10 DEF Straight, Uncut
  <2>1. /\ \A z \in calls : z # k /\ ~Closing(z) => z.u # k.u
        /\ \A m \in wire : m.u # k.u
        /\ tab[k.u] \notin {"done", "error"}
        /\ progress[k.u].offset < Size(k.u)
        /\ h = SubSeq(job[k.u].file, 1, progress[k.u].offset + 1)
    BY <1>1, <1>2, <1>3, <1>4, <1>5, <1>6, <1>7, <1>8, <1>9, <1>10, <2>0, CountFacts DEF h
  <2>2. TmpOf(k.u) = h
    BY <1>1, <1>2, <1>3, <1>4, <1>5, <1>6, <1>7, <1>8, <1>9, <1>10, <2>0 DEF IInv, TmpFits, h
  <2>3. ASSUME NEW m \in wire', m.type \in {"next", "chunk"}
        PROVE  TmpOf(m.u)' = progress'[m.u].hash
    <3>1. m \in wire /\ m.u # k.u /\ TmpOf(m.u)' = TmpOf(m.u)
      BY <1>8, <1>9, <2>1, <2>3
    <3>2. TmpOf(m.u) = progress[m.u].hash
      BY <2>0, <2>3, <3>1 DEF IInv, TmpFits
    <3>3. progress'[m.u] = progress[m.u]
      BY <1>7, <1>10, <3>1
    <3> QED
      BY <3>1, <3>2, <3>3
  <2>4. ASSUME NEW z \in calls', z.pc \in {"write", "finish"}
        PROVE  TmpOf(z.u)' = progress'[z.u].hash
    <3>1. CASE z = x
      BY <1>1, <1>2, <1>3, <1>4, <1>5, <1>6, <1>7, <1>8, <1>9, <1>10, <2>2, <2>4, <3>1
    <3>2. CASE z \in calls /\ z # k
      <4>1. z.u # k.u /\ z.u \in Uploads
        BY <1>1, <1>2, <1>3, <1>4, <1>5, <1>6, <1>7, <1>8, <1>9, <1>10, <2>1, <2>4, <3>2
      <4> QED
        BY <1>1, <1>2, <1>3, <1>4, <1>5, <1>6, <1>7, <1>8, <1>9, <1>10, <2>0, <2>4, <3>2,
            <4>1 DEF IInv, TmpFits
    <3> QED
      BY <1>1, <1>2, <1>3, <1>4, <1>5, <1>6, <1>7, <1>8, <1>9, <1>10, <3>1, <3>2
  <2>5. ASSUME NEW z \in calls', z.pc = "written"
        PROVE  TmpOf(z.u)' = Append(progress'[z.u].hash, ChunkOf(z.by)')
    <3>1. CASE z = x
      BY <1>1, <1>2, <1>3, <1>4, <1>5, <1>6, <1>7, <1>8, <1>9, <1>10, <2>2, <2>5, <3>1
    <3>2. CASE z \in calls /\ z # k
      <4>1. z.u # k.u /\ z.u \in Uploads
        BY <1>1, <1>2, <1>3, <1>4, <1>5, <1>6, <1>7, <1>8, <1>9, <1>10, <2>1, <2>5, <3>2
      <4> QED
        BY <1>1, <1>2, <1>3, <1>4, <1>5, <1>6, <1>7, <1>8, <1>9, <1>10, <2>0, <2>5, <3>2,
            <4>1 DEF IInv, TmpFits
    <3> QED
      BY <1>1, <1>2, <1>3, <1>4, <1>5, <1>6, <1>7, <1>8, <1>9, <1>10, <3>1, <3>2
  <2> QED
    BY <2>3, <2>4, <2>5
<1>17. BlobsInv'
  <2> SUFFICES ASSUME Uncut', NEW z \in calls' PROVE BlobsOf(z)'
    BY DEF BlobsInv
  <2>0. Straight /\ Uncut
    BY <1>1, <1>2, <1>3, <1>4, <1>5, <1>6, <1>7, <1>8, <1>9, <1>10 DEF Straight, Uncut
  <2>1. /\ \A y \in calls : y # k /\ ~Closing(y) => y.u # k.u
        /\ \A m \in wire : m.u # k.u
        /\ tab[k.u] \notin {"done", "error"}
        /\ progress[k.u].offset < Size(k.u)
        /\ h = SubSeq(job[k.u].file, 1, progress[k.u].offset + 1)
    BY <1>1, <1>2, <1>3, <1>4, <1>5, <1>6, <1>7, <1>8, <1>9, <1>10, <2>0, CountFacts DEF h
  <2>2. CASE z = x
    BY <1>1, <1>2, <1>3, <1>4, <1>5, <1>6, <1>7, <1>8, <1>9, <1>10, <2>2
  <2>3. CASE z \in calls /\ z # k
    <3>1. BlobsOf(z)
      BY <2>0, <2>3 DEF IInv, BlobsInv
    <3>2. CASE ~Closing(z)
      BY <1>1, <1>2, <1>3, <1>4, <1>5, <1>6, <1>7, <1>8, <1>9, <1>10, <2>1, <2>3, <3>1, <3>2
    <3>3. CASE Closing(z)
      <4>1. z.pc \in {"abort", "mark"}
        BY <2>3, <3>3 DEF IInv, CallInv
      <4> QED
        BY <4>1
    <3> QED
      BY <3>2, <3>3
  <2> QED
    BY <1>1, <1>2, <1>3, <1>4, <1>5, <1>6, <1>7, <1>8, <1>9, <1>10, <2>2, <2>3
<1>18. MineInv'
  <2> SUFFICES ASSUME Apart' PROVE MineInv!2'
    BY DEF MineInv
  <2>1. Apart /\ active[job[k.u].client] \in {k.u, None} /\ Straight /\ ~Closing(k)
    BY <1>1, <1>2, <1>3, <1>4, <1>5, <1>6, <1>7, <1>8, <1>9, <1>10 DEF IInv, MineInv
  <2>2. ASSUME NEW m \in wire', m.type \in {"next", "chunk"}
        PROVE  active'[m.client] = m.u
    BY <1>1, <1>2, <1>3, <1>4, <1>5, <1>6, <1>7, <1>8, <1>9, <1>10, <2>1, <2>2 DEF IInv,
        MineInv, OneInv
  <2>3. ASSUME NEW z \in calls', z.pc \in {"write", "written"}
        PROVE  InMap(z.u)' \/ ("cut" \in lapses' /\ job'[z.u].client \notin open')
    <3>1. z \in calls /\ z # k /\ ~Closing(z)
      BY <1>1, <1>2, <1>3, <1>4, <1>5, <1>6, <1>7, <1>8, <1>9, <1>10, <2>3
    <3>2. z.u # k.u
      BY <2>1, <3>1 DEF IInv, OneInv
    <3> QED
      BY <1>1, <1>2, <1>3, <1>4, <1>5, <1>6, <1>7, <1>8, <1>9, <1>10, <2>1, <2>3, <3>1,
          <3>2 DEF IInv, MineInv
  <2> QED
    BY <1>1, <1>2, <1>3, <1>4, <1>5, <1>6, <1>7, <1>8, <1>9, <1>10, <2>1, <2>2, <2>3
<1>19. FailedInv'
  <2>1. ASSUME NEW z \in calls', z.pc = "updated" PROVE rows'[z.u].status # "uploading"
    BY <1>1, <1>2, <1>3, <1>4, <1>5, <1>6, <1>7, <1>8, <1>9, <1>10, <2>1 DEF IInv, FailedInv
  <2>2. ASSUME Apart', lapses' \cap {"late", "swallowed", "unlogged"} = {},
               NEW u \in Uploads, rows'[u].status = "uploading"
        PROVE  InMap(u)' \/ \E z \in calls' : z.u = u /\ z.pc \in {"abort", "mark"}
    <3>1. InMap(u) \/ \E z \in calls : z.u = u /\ z.pc \in {"abort", "mark"}
      BY <1>1, <1>2, <1>3, <1>4, <1>5, <1>6, <1>7, <1>8, <1>9, <1>10, <2>2 DEF IInv, FailedInv
    <3>2. CASE u = k.u
      BY <1>1, <1>2, <1>3, <1>4, <1>5, <1>6, <1>7, <1>8, <1>9, <1>10, <3>2
    <3>3. CASE u # k.u /\ InMap(u)
      BY <1>1, <1>2, <1>3, <1>4, <1>5, <1>6, <1>7, <1>8, <1>9, <1>10, <2>2, <3>3,
          job[u].client \in Clients DEF IInv, TypesInv
    <3>4. CASE \E z \in calls : z.u = u /\ z.pc \in {"abort", "mark"}
      BY <1>1, <1>2, <1>3, <1>4, <1>5, <1>6, <1>7, <1>8, <1>9, <1>10, <3>4
    <3> QED
      BY <3>1, <3>2, <3>3, <3>4
  <2> QED
    BY <2>1, <2>2 DEF FailedInv
<1> USE <1>1, <1>2, <1>3, <1>4, <1>5, <1>6, <1>7, <1>8, <1>9, <1>10 DEF IInv
<1>20. TypesInv' /\ WireInv' /\ CallInv' /\ MapInv'
  BY DEF TypesInv, WireInv, CallInv, MapInv
<1>21. OneInv' /\ UnreadyInv' /\ ReadyInv' /\ GoneInv'
  BY DEF OneInv, UnreadyInv, ReadyInv, GoneInv, EarlyInv, OutInv, CallInv
<1>22. LeftInv'
  BY SMTT(30) DEF LeftInv, MineInv, OneInv, GoneInv, CallInv, Row, Progress, TypesInv, WireInv,
      UploadInv, MapInv
<1>23. AloneInv' /\ RowsInv' /\ WaitInv'
  BY DEF AloneInv, RowsInv, WaitInv, CallInv, WireInv, OneInv, UnreadyInv, EarlyInv, BlobsInv,
      MineInv
<1> QED
  BY <1>11, <1>12, <1>13, <1>14, <1>15, <1>16, <1>17, <1>18, <1>19, <1>20, <1>21, <1>22, <1>23

\* The last chunk is counted, and the hash is right.
LEMMA CountLastKeeps ==
    ASSUME IInv, NEW k \in calls, CountChunk(k), ~progress[k.u].digested,
           ~(progress[k.u].offset + 1 < Size(k.u)), ~WrongHash(k.u, Append(progress[k.u].hash, ChunkOf(k.by)))
    PROVE  IInv'
<1>1. CallSound(k)
  BY CallFacts
<1> USE DEF CallSound
<1> DEFINE x == [k EXCEPT !.pc = "finish"]
<1>2. x \in Call /\ x.by = k.by /\ x.u = k.u /\ x.key = k.key /\ x.size = k.size
      /\ x.pc = "finish"
  BY <1>1 DEF Call, Pc
<1>3. calls' = (calls \ {k}) \cup {x}
  BY DEF CountChunk, Goto
<1> HIDE DEF x
<1>4. k.pc = "written" /\ ~progress[k.u].digested
  BY DEF CountChunk
<1>5. progress[k.u].offset \in Nat /\ progress[k.u].hash \in Seq(Chunk) /\ ChunkOf(k.by) \in Chunk
  <2>1. k.by.type = "chunk"
    BY <1>1, <1>4 DEF IInv, CallInv, CallOK, Whole, Stored, Early, Closing
  <2>2. k.by.u \in Uploads /\ tab[k.by.u] # "new" /\ k.by.at \in Nat /\ k.by.at < Size(k.by.u)
    BY <1>1, <2>1 DEF IInv, CallInv, CallOK, Message
  <2>3. job[k.by.u].file \in Files
    BY <2>2 DEF IInv, UploadInv
  <2> QED
    BY <1>1, <2>2, <2>3, ContentType DEF IInv, TypesInv, Progress, ChunkOf, Size
<1> DEFINE h == Append(progress[k.u].hash, ChunkOf(k.by))
<1>6. h \in Seq(Chunk) /\ Len(h) = Len(progress[k.u].hash) + 1
  BY <1>5
<1>7. /\ progress' \in [Uploads -> Progress]
      /\ progress'[k.u].offset = progress[k.u].offset + 1 /\ progress'[k.u].hash = h
      /\ progress'[k.u].digested <=> ~(progress[k.u].offset + 1 < Size(k.u))
      /\ \A u \in Uploads : u # k.u => progress'[u] = progress[u]
  <2>1. progress' = [progress EXCEPT ![k.u] = [offset |-> progress[k.u].offset + 1,
            hash |-> h, digested |-> progress[k.u].offset + 1 >= Size(k.u)]]
    BY <1>4 DEF CountChunk
  <2> HIDE DEF h
  <2>2. progress \in [Uploads -> Progress]
    BY DEF IInv, TypesInv
  <2>3. progress[k.u].offset + 1 \in Nat /\ (progress[k.u].offset + 1 >= Size(k.u)) \in BOOLEAN
    BY <1>1, <1>5
  <2>4. /\ progress' \in [Uploads -> Progress]
        /\ progress'[k.u].offset = progress[k.u].offset + 1 /\ progress'[k.u].hash = h
        /\ progress'[k.u].digested = (progress[k.u].offset + 1 >= Size(k.u))
        /\ \A u \in Uploads : u # k.u => progress'[u] = progress[u]
    BY <1>1, <1>6, <2>1, <2>2, <2>3, Counted
  <2>5. progress[k.u].offset + 1 >= Size(k.u) <=> ~(progress[k.u].offset + 1 < Size(k.u))
    BY <1>1, <1>5
  <2> QED
    BY <2>4, <2>5
<1> HIDE DEF h
<1>8. UNCHANGED <<tab, job, held, wire, open, active, tmp, blobs, rows, faults, lapses>>
  BY DEF CountChunk, tabVars, stored
<1>9. job[k.u].hashed => h = job[k.u].file
  BY DEF WrongHash, h
<1>10. StateSound
  BY StateFacts
<1> USE FilesAssumption DEF StateSound, Untouched, Fresh, NoRow, NoJob, Early, Whole, Stored,
    Closing, MySha, Size, Lapsed, Straight, Uncut, Apart, CallOK, InMap, NotInMap, Unready,
    Mine, TmpOf, Holds, BlobsOf, ChunkOf, tabVars, stored, Lapse
<1>11. UploadInv'
  <2>1. progress[k.u].offset < Size(k.u)
    BY <1>1, <1>2, <1>3, <1>4, <1>5, <1>6, <1>7, <1>8, <1>9, <1>10 DEF IInv, CallInv, UploadInv
  <2>2. ASSUME NEW u \in Uploads
        PROVE  /\ progress'[u].offset <= Size(u)'
               /\ ~progress'[u].digested /\ Size(u)' > 0 => progress'[u].offset < Size(u)'
    <3>1. CASE u = k.u
      <4>1. progress'[k.u].digested /\ progress'[k.u].offset <= Size(k.u)
            /\ Size(k.u)' = Size(k.u)
        BY <1>1, <1>5, <1>7, <1>8, <1>9, <2>1
      <4> QED
        BY <3>1, <4>1
    <3>2. CASE u # k.u
      BY <1>1, <1>2, <1>3, <1>4, <1>5, <1>6, <1>7, <1>8, <1>9, <1>10, <3>2 DEF IInv, UploadInv
    <3> QED
      BY <3>1, <3>2
  <2>3. ASSUME NEW u \in Uploads
        PROVE  /\ rows'[u].status = "ready" => rows'[u].key # None
               /\ tab'[u] = "new" => job'[u] = NoJob /\ progress'[u] = Fresh /\ rows'[u] = NoRow
                                    /\ u \notin DOMAIN tmp' /\ u \notin DOMAIN blobs'
               /\ tab'[u] # "new" => job'[u].client \in Clients /\ job'[u].file \in Files
    BY <1>1, <1>2, <1>3, <1>4, <1>5, <1>6, <1>7, <1>8, <1>9, <1>10 DEF IInv, UploadInv
  <2> QED
    BY <2>2, <2>3 DEF UploadInv
<1>12. EarlyInv'
  <2>1. ASSUME NEW v \in Uploads, v # k.u, Untouched(v) PROVE Untouched(v)'
    BY <1>1, <1>2, <1>3, <1>4, <1>5, <1>6, <1>7, <1>8, <1>9, <1>10, <2>1
  <2>2. ASSUME NEW m \in wire', m.type = "start"
        PROVE  /\ Untouched(m.u)'
               /\ \A p \in wire' : p.u = m.u => p = m
               /\ \A z \in calls' : z.u # m.u
    <3>1. /\ m \in wire /\ Untouched(m.u) /\ m.u # k.u
          /\ \A p \in wire : p.u = m.u => p = m
          /\ \A z \in calls : z.u # m.u
      BY <1>1, <1>2, <1>3, <1>4, <1>5, <1>6, <1>7, <1>8, <1>9, <1>10, <2>2 DEF IInv, EarlyInv
    <3> QED
      BY <1>1, <1>2, <1>3, <1>4, <1>5, <1>6, <1>7, <1>8, <1>9, <1>10, <2>1, <3>1
  <2>3. ASSUME NEW z \in calls', z.pc \in Early
        PROVE  /\ Untouched(z.u)'
               /\ \A p \in wire' : p.u # z.u
               /\ \A y \in calls' : y.u = z.u => y = z
    <3>1. z \in calls /\ z # k
      BY <1>1, <1>2, <1>3, <1>4, <1>5, <1>6, <1>7, <1>8, <1>9, <1>10, <2>3
    <3>2. /\ Untouched(z.u) /\ z.u # k.u
          /\ \A p \in wire : p.u # z.u
          /\ \A y \in calls : y.u = z.u => y = z
      BY <1>4, <2>3, <3>1 DEF IInv, EarlyInv
    <3> QED
      BY <1>1, <1>2, <1>3, <1>4, <1>5, <1>6, <1>7, <1>8, <1>9, <1>10, <2>1, <3>1, <3>2
  <2> QED
    BY <2>2, <2>3 DEF EarlyInv
<1>13. HashedInv'
  <2>1. \A z \in calls : z.pc \in Whole => z.u # k.u
    BY <1>4 DEF IInv, HashedInv
  <2>2. ASSUME NEW z \in calls', z.pc \in Whole
        PROVE  progress'[z.u].digested
               /\ (job'[z.u].hashed => progress'[z.u].hash = job'[z.u].file)
    <3>1. CASE z = x
      BY <1>1, <1>2, <1>3, <1>4, <1>5, <1>6, <1>7, <1>8, <1>9, <1>10, <2>2, <3>1
    <3>2. CASE z \in calls
      <4>1. z.u # k.u /\ z.u \in Uploads
        BY <1>1, <1>2, <1>3, <1>4, <1>5, <1>6, <1>7, <1>8, <1>9, <1>10, <2>1, <2>2, <3>2
      <4> QED
        BY <1>1, <1>2, <1>3, <1>4, <1>5, <1>6, <1>7, <1>8, <1>9, <1>10, <2>2, <3>2,
            <4>1 DEF IInv, HashedInv
    <3> QED
      BY <1>1, <1>2, <1>3, <1>4, <1>5, <1>6, <1>7, <1>8, <1>9, <1>10, <3>1, <3>2
  <2>3. \A z \in calls' : z.pc \in {"updated", "load", "linked"} => MySha(z.u)'
    BY <1>1, <1>2, <1>3, <1>4, <1>5, <1>6, <1>7, <1>8, <1>9, <1>10 DEF IInv, HashedInv
  <2>4. \A m \in wire' : m.type = "done" => MySha(m.u)'
    BY <1>1, <1>2, <1>3, <1>4, <1>5, <1>6, <1>7, <1>8, <1>9, <1>10 DEF IInv, HashedInv
  <2>5. \A u \in Uploads : tab'[u] = "done" => MySha(u)'
    BY <1>1, <1>2, <1>3, <1>4, <1>5, <1>6, <1>7, <1>8, <1>9, <1>10 DEF IInv, HashedInv
  <2> QED
    BY <2>2, <2>3, <2>4, <2>5 DEF HashedInv
<1>14. ProgressInv'
  <2> SUFFICES ASSUME Straight' PROVE ProgressInv!2'
    BY DEF ProgressInv
  <2>0. Straight
    BY <1>1, <1>2, <1>3, <1>4, <1>5, <1>6, <1>7, <1>8, <1>9, <1>10
  <2>1. /\ \A z \in calls : z # k /\ ~Closing(z) => z.u # k.u
        /\ \A m \in wire : m.u # k.u
        /\ tab[k.u] \notin {"done", "error"}
        /\ progress[k.u].offset < Size(k.u)
        /\ h = SubSeq(job[k.u].file, 1, progress[k.u].offset + 1)
    BY <1>1, <1>2, <1>3, <1>4, <1>5, <1>6, <1>7, <1>8, <1>9, <1>10, <2>0, CountFacts DEF h
  <2>2. ASSUME NEW m \in wire', m.type \in {"next", "chunk"}
        PROVE  m.at = progress'[m.u].offset /\ ~progress'[m.u].digested
    BY <1>1, <1>2, <1>3, <1>4, <1>5, <1>6, <1>7, <1>8, <1>9, <1>10, <2>0, <2>1, <2>2 DEF IInv,
        ProgressInv
  <2>3. ASSUME NEW z \in calls', z.pc \in {"write", "written"}
        PROVE  z.by.u = z.u /\ z.by.at = progress'[z.u].offset /\ ~progress'[z.u].digested
    BY <1>1, <1>2, <1>3, <1>4, <1>5, <1>6, <1>7, <1>8, <1>9, <1>10, <2>0, <2>1, <2>3 DEF IInv,
        ProgressInv
  <2>4. ASSUME NEW z \in calls', z.pc \in Whole PROVE progress'[z.u].offset = Size(z.u)'
    <3>1. CASE z = x
      BY <1>1, <1>2, <1>3, <1>4, <1>5, <1>6, <1>7, <1>8, <1>9, <1>10, <2>1, <3>1
    <3>2. CASE z \in calls /\ z # k
      BY <1>1, <1>2, <1>3, <1>4, <1>5, <1>6, <1>7, <1>8, <1>9, <1>10, <2>0, <2>1, <2>4,
          <3>2 DEF IInv, ProgressInv
    <3> QED
      BY <1>1, <1>2, <1>3, <1>4, <1>5, <1>6, <1>7, <1>8, <1>9, <1>10, <3>1, <3>2
  <2>5. ASSUME NEW u \in Uploads
        PROVE  progress'[u].hash = SubSeq(job'[u].file, 1, progress'[u].offset)
    <3>1. job' = job /\ progress[u].hash = SubSeq(job[u].file, 1, progress[u].offset)
      BY <1>1, <1>2, <1>3, <1>4, <1>5, <1>6, <1>7, <1>8, <1>9, <1>10, <2>0 DEF IInv, ProgressInv
    <3>2. CASE u = k.u
      BY <1>7, <2>1, <3>1, <3>2
    <3>3. CASE u # k.u
      BY <1>7, <3>1, <3>3
    <3> QED
      BY <3>2, <3>3
  <2> QED
    BY <2>2, <2>3, <2>4, <2>5
<1>15. TmpFits'
  <2> SUFFICES ASSUME Uncut' PROVE TmpFits!2'
    BY DEF TmpFits
  <2>0. Straight /\ Uncut
    BY <1>1, <1>2, <1>3, <1>4, <1>5, <1>6, <1>7, <1>8, <1>9, <1>10 DEF Straight, Uncut
  <2>1. /\ \A z \in calls : z # k /\ ~Closing(z) => z.u # k.u
        /\ \A m \in wire : m.u # k.u
        /\ tab[k.u] \notin {"done", "error"}
        /\ progress[k.u].offset < Size(k.u)
        /\ h = SubSeq(job[k.u].file, 1, progress[k.u].offset + 1)
    BY <1>1, <1>2, <1>3, <1>4, <1>5, <1>6, <1>7, <1>8, <1>9, <1>10, <2>0, CountFacts DEF h
  <2>2. TmpOf(k.u) = h
    BY <1>1, <1>2, <1>3, <1>4, <1>5, <1>6, <1>7, <1>8, <1>9, <1>10, <2>0 DEF IInv, TmpFits, h
  <2>3. ASSUME NEW m \in wire', m.type \in {"next", "chunk"}
        PROVE  TmpOf(m.u)' = progress'[m.u].hash
    <3>1. m \in wire /\ m.u # k.u /\ TmpOf(m.u)' = TmpOf(m.u)
      BY <1>8, <1>9, <2>1, <2>3
    <3>2. TmpOf(m.u) = progress[m.u].hash
      BY <2>0, <2>3, <3>1 DEF IInv, TmpFits
    <3>3. progress'[m.u] = progress[m.u]
      BY <1>7, <1>10, <3>1
    <3> QED
      BY <3>1, <3>2, <3>3
  <2>4. ASSUME NEW z \in calls', z.pc \in {"write", "finish"}
        PROVE  TmpOf(z.u)' = progress'[z.u].hash
    <3>1. CASE z = x
      BY <1>1, <1>2, <1>3, <1>4, <1>5, <1>6, <1>7, <1>8, <1>9, <1>10, <2>2, <2>4, <3>1
    <3>2. CASE z \in calls /\ z # k
      <4>1. z.u # k.u /\ z.u \in Uploads
        BY <1>1, <1>2, <1>3, <1>4, <1>5, <1>6, <1>7, <1>8, <1>9, <1>10, <2>1, <2>4, <3>2
      <4> QED
        BY <1>1, <1>2, <1>3, <1>4, <1>5, <1>6, <1>7, <1>8, <1>9, <1>10, <2>0, <2>4, <3>2,
            <4>1 DEF IInv, TmpFits
    <3> QED
      BY <1>1, <1>2, <1>3, <1>4, <1>5, <1>6, <1>7, <1>8, <1>9, <1>10, <3>1, <3>2
  <2>5. ASSUME NEW z \in calls', z.pc = "written"
        PROVE  TmpOf(z.u)' = Append(progress'[z.u].hash, ChunkOf(z.by)')
    <3>1. CASE z = x
      BY <1>1, <1>2, <1>3, <1>4, <1>5, <1>6, <1>7, <1>8, <1>9, <1>10, <2>2, <2>5, <3>1
    <3>2. CASE z \in calls /\ z # k
      <4>1. z.u # k.u /\ z.u \in Uploads
        BY <1>1, <1>2, <1>3, <1>4, <1>5, <1>6, <1>7, <1>8, <1>9, <1>10, <2>1, <2>5, <3>2
      <4> QED
        BY <1>1, <1>2, <1>3, <1>4, <1>5, <1>6, <1>7, <1>8, <1>9, <1>10, <2>0, <2>5, <3>2,
            <4>1 DEF IInv, TmpFits
    <3> QED
      BY <1>1, <1>2, <1>3, <1>4, <1>5, <1>6, <1>7, <1>8, <1>9, <1>10, <3>1, <3>2
  <2> QED
    BY <2>3, <2>4, <2>5
<1>16. BlobsInv'
  <2> SUFFICES ASSUME Uncut', NEW z \in calls' PROVE BlobsOf(z)'
    BY DEF BlobsInv
  <2>0. Straight /\ Uncut
    BY <1>1, <1>2, <1>3, <1>4, <1>5, <1>6, <1>7, <1>8, <1>9, <1>10 DEF Straight, Uncut
  <2>1. /\ \A y \in calls : y # k /\ ~Closing(y) => y.u # k.u
        /\ \A m \in wire : m.u # k.u
        /\ tab[k.u] \notin {"done", "error"}
        /\ progress[k.u].offset < Size(k.u)
        /\ h = SubSeq(job[k.u].file, 1, progress[k.u].offset + 1)
    BY <1>1, <1>2, <1>3, <1>4, <1>5, <1>6, <1>7, <1>8, <1>9, <1>10, <2>0, CountFacts DEF h
  <2>2. CASE z = x
    <3>1. BlobsOf(k) /\ k.key = k.u
      BY <2>0, <1>4 DEF IInv, BlobsInv, CallInv
    <3> QED
      BY <1>1, <1>2, <1>3, <1>4, <1>5, <1>6, <1>7, <1>8, <1>9, <1>10, <2>2, <3>1
  <2>3. CASE z \in calls /\ z # k
    <3>1. BlobsOf(z)
      BY <2>0, <2>3 DEF IInv, BlobsInv
    <3>2. CASE ~Closing(z)
      BY <1>1, <1>2, <1>3, <1>4, <1>5, <1>6, <1>7, <1>8, <1>9, <1>10, <2>1, <2>3, <3>1, <3>2
    <3>3. CASE Closing(z)
      <4>1. z.pc \in {"abort", "mark"}
        BY <2>3, <3>3 DEF IInv, CallInv
      <4> QED
        BY <4>1
    <3> QED
      BY <3>2, <3>3
  <2> QED
    BY <1>1, <1>2, <1>3, <1>4, <1>5, <1>6, <1>7, <1>8, <1>9, <1>10, <2>2, <2>3
<1> USE <1>1, <1>2, <1>3, <1>4, <1>5, <1>6, <1>7, <1>8, <1>9, <1>10 DEF IInv
<1>17. TypesInv' /\ WireInv'  BY DEF TypesInv, WireInv
<1>18. CallInv'  BY DEF CallInv, WireInv
<1>19. MapInv'  BY DEF MapInv, TypesInv
<1>20. OneInv' /\ OutInv' /\ UnreadyInv' /\ ReadyInv'
  BY DEF OneInv, OutInv, UnreadyInv, ReadyInv, EarlyInv, MapInv, CallInv
<1>21. GoneInv' /\ AloneInv' /\ RowsInv' /\ MineInv'
  BY DEF GoneInv, AloneInv, RowsInv, MineInv, OneInv, EarlyInv, CallInv, WireInv, UnreadyInv,
      BlobsInv
<1>22. FailedInv' /\ LeftInv'
  BY DEF FailedInv, LeftInv, EarlyInv, MineInv, OneInv, GoneInv, CallInv
<1>23. WaitInv'  BY DEF WaitInv, MineInv, CallInv, OneInv
<1> QED
  BY <1>11, <1>12, <1>13, <1>14, <1>15, <1>16, <1>17, <1>18, <1>19, <1>20, <1>21, <1>22, <1>23

\* storage.finish renames the temporary file.
LEMMA FinishKeeps ==
    ASSUME IInv, NEW k \in calls, Finish(k)
    PROVE  IInv'
<1>1. CallSound(k)
  BY CallFacts
<1> USE DEF CallSound
<1> DEFINE x == [k EXCEPT !.pc = "find", !.size = Len(TmpOf(k.u))]
<1>2. TmpOf(k.u) \in Seq(Chunk) /\ Len(TmpOf(k.u)) \in Nat
  BY <1>1 DEF IInv, TypesInv, TmpOf
<1>3. x \in Call /\ x.by = k.by /\ x.u = k.u /\ x.key = k.key /\ x.size = Len(TmpOf(k.u))
      /\ x.pc = "find"
  BY <1>1, <1>2 DEF Call, Pc
<1>4. calls' = (calls \ {k}) \cup {x} /\ blobs' = With(blobs, k.u, TmpOf(k.u))
  BY DEF Finish, TmpOf
<1> HIDE DEF x
<1>5. StateSound
  BY StateFacts
<1> USE FilesAssumption DEF StateSound, Untouched, Fresh, NoRow, NoJob, Early, Whole, Stored,
    Closing, MySha, Size, Lapsed, Straight, Uncut, Apart, CallOK, InMap, NotInMap, Unready,
    Mine, TmpOf, Holds, BlobsOf, ChunkOf, tabVars, stored, Lapse
<1>6. TmpFits'
  <2> SUFFICES ASSUME Uncut' PROVE TmpFits!2'
    BY DEF TmpFits
  <2>0. Straight /\ Uncut /\ ~Closing(k)
    BY <1>1, <1>2, <1>3, <1>4, <1>5 DEF Finish, IInv, CallInv
  <2>1. /\ \A z \in calls : z # k /\ ~Closing(z) => z.u # k.u
        /\ \A m \in wire : m.u # k.u
    BY <2>0 DEF IInv, OneInv
  <2>2. UNCHANGED <<wire, job, progress>> /\ tmp' = Without(tmp, k.u)
    BY DEF Finish
  <2>5. \A u \in Uploads : u # k.u => TmpOf(u)' = TmpOf(u)
    BY <2>2 DEF Without, Restrict
  <2> HIDE DEF TmpOf
  <2>6. ASSUME NEW m \in wire', m.type \in {"next", "chunk"}
        PROVE  TmpOf(m.u)' = progress'[m.u].hash
    BY <1>5, <2>0, <2>1, <2>2, <2>5, <2>6 DEF IInv, TmpFits
  <2>7. ASSUME NEW z \in calls', z.pc \in {"write", "finish", "written"}
        PROVE  /\ z.pc # "written" => TmpOf(z.u)' = progress'[z.u].hash
               /\ z.pc = "written" => TmpOf(z.u)' = Append(progress'[z.u].hash, ChunkOf(z.by)')
    <3>1. z \in calls /\ z # k
      BY <1>1, <1>2, <1>3, <1>4, <1>5, <2>7
    <3>2. z.u # k.u /\ z.u \in Uploads
      BY <1>5, <2>1, <2>7, <3>1
    <3> QED
      BY <2>0, <2>2, <2>5, <2>7, <3>1, <3>2 DEF IInv, TmpFits
  <2> QED
    BY <2>6, <2>7
<1> USE <1>1, <1>2, <1>3, <1>4, <1>5 DEF IInv, Finish, With, Without, Restrict
<1>7. TypesInv' /\ UploadInv'  BY DEF TypesInv, UploadInv, CallInv, WireInv
<1>8. WireInv' /\ CallInv'  BY DEF WireInv, CallInv
<1>9. MapInv' /\ EarlyInv' /\ HashedInv' /\ OneInv'
  BY DEF MapInv, EarlyInv, HashedInv, OneInv
<1>10. OutInv' /\ ProgressInv' /\ UnreadyInv' /\ ReadyInv'
  BY DEF OutInv, ProgressInv, UnreadyInv, ReadyInv
<1>11. GoneInv' /\ AloneInv' /\ BlobsInv' /\ RowsInv'
  BY DEF GoneInv, AloneInv, BlobsInv, RowsInv, OneInv, UnreadyInv, EarlyInv, TmpFits, TypesInv,
      CallInv, WireInv, OutInv
<1>12. MineInv' /\ FailedInv' /\ LeftInv' /\ WaitInv'
  BY DEF MineInv, FailedInv, LeftInv, WaitInv
<1> QED
  BY <1>6, <1>7, <1>8, <1>9, <1>10, <1>11, <1>12

\* The row with the computed hash is looked for.
LEMMA FindKeeps ==
    ASSUME IInv, NEW k \in calls, Find(k)
    PROVE  IInv'
<1>1. CallSound(k)
  BY CallFacts
<1> USE DEF CallSound
<1>2. PICK x \in Call :
        /\ x.by = k.by /\ x.u = k.u /\ x.size = k.size
        /\ \/ x.pc = "update" /\ x.key = k.key
           \/ x.pc = "remove" /\ \E t \in Uploads :
                rows[t].status = "ready" /\ rows[t].sha = progress[k.u].hash
                /\ x.key = rows[t].key
        /\ calls' = (calls \ {k}) \cup {x}
  <2>1. CASE Goto(k, "update")
    <3> DEFINE y == [k EXCEPT !.pc = "update"]
    <3>1. y \in Call /\ y.by = k.by /\ y.u = k.u /\ y.size = k.size /\ y.pc = "update"
          /\ y.key = k.key
      BY <1>1 DEF Call, Pc
    <3> QED
      BY <2>1, <3>1 DEF Goto
  <2>2. ASSUME NEW t \in Twins(progress[k.u].hash, k.size),
               calls' = (calls \ {k}) \cup {[k EXCEPT !.pc = "remove", !.key = rows[t].key]}
        PROVE  \E x \in Call :
                /\ x.by = k.by /\ x.u = k.u /\ x.size = k.size /\ x.pc = "remove"
                /\ \E y \in Uploads :
                    rows[y].status = "ready" /\ rows[y].sha = progress[k.u].hash
                    /\ x.key = rows[y].key
                /\ calls' = (calls \ {k}) \cup {x}
    <3> DEFINE y == [k EXCEPT !.pc = "remove", !.key = rows[t].key]
    <3>1. t \in Uploads /\ rows[t].status = "ready" /\ rows[t].sha = progress[k.u].hash
      BY DEF Twins
    <3>2. rows[t].key \in Uploads
      BY <3>1 DEF IInv, TypesInv, UploadInv, Row
    <3>3. y \in Call /\ y.by = k.by /\ y.u = k.u /\ y.size = k.size /\ y.pc = "remove"
          /\ y.key = rows[t].key
      BY <1>1, <3>2 DEF Call, Pc
    <3> QED
      BY <2>2, <3>1, <3>3
  <2> QED
    BY <2>1, <2>2 DEF Find
<1>3. /\ k.pc = "find"
      /\ UNCHANGED <<tab, job, held, wire, open, active, progress, tmp, blobs, rows, faults, lapses>>
  BY DEF Find, tabVars, stored
<1>4. StateSound
  BY StateFacts
<1> USE FilesAssumption DEF StateSound, Untouched, Fresh, NoRow, NoJob, Early, Whole, Stored,
    Closing, MySha, Size, Lapsed, Straight, Uncut, Apart, CallOK, InMap, NotInMap, Unready,
    Mine, TmpOf, Holds, BlobsOf, ChunkOf, tabVars, stored, Lapse
<1> USE <1>1, <1>2, <1>3, <1>4 DEF IInv
<1>5. TypesInv' /\ UploadInv' /\ WireInv' /\ CallInv'
  BY DEF TypesInv, UploadInv, WireInv, CallInv
<1>6. MapInv' /\ EarlyInv' /\ HashedInv' /\ OneInv'
  BY DEF MapInv, EarlyInv, HashedInv, OneInv
<1>7. OutInv' /\ ProgressInv' /\ UnreadyInv' /\ ReadyInv'
  BY DEF OutInv, ProgressInv, UnreadyInv, ReadyInv
<1>8. GoneInv' /\ AloneInv' /\ TmpFits' /\ BlobsInv'
  BY DEF GoneInv, AloneInv, TmpFits, BlobsInv, TypesInv, UploadInv, WireInv, CallInv, MapInv,
      EarlyInv, HashedInv, OneInv, OutInv, ProgressInv, UnreadyInv, ReadyInv, RowsInv, MineInv,
      FailedInv, LeftInv, WaitInv
<1>9. RowsInv' /\ MineInv' /\ FailedInv' /\ LeftInv'
  BY DEF RowsInv, MineInv, FailedInv, LeftInv
<1>10. WaitInv'  BY DEF WaitInv
<1> QED
  BY <1>5, <1>6, <1>7, <1>8, <1>9, <1>10

\* The second copy of the bytes is removed.
LEMMA RemoveCopyKeeps ==
    ASSUME IInv, NEW k \in calls, RemoveCopy(k)
    PROVE  IInv'
<1>1. CallSound(k)
  BY CallFacts
<1> USE DEF CallSound
<1> DEFINE x == [k EXCEPT !.pc = "update"]
<1>2. x \in Call /\ x.by = k.by /\ x.u = k.u /\ x.key = k.key /\ x.size = k.size
      /\ x.pc = "update"
  BY <1>1 DEF Call, Pc
<1>3. calls' = (calls \ {k}) \cup {x}
  BY DEF RemoveCopy, Goto
<1> HIDE DEF x
<1>4. StateSound
  BY StateFacts
<1> USE FilesAssumption DEF StateSound, Untouched, Fresh, NoRow, NoJob, Early, Whole, Stored,
    Closing, MySha, Size, Lapsed, Straight, Uncut, Apart, CallOK, InMap, NotInMap, Unready,
    Mine, TmpOf, Holds, BlobsOf, ChunkOf, tabVars, stored, Lapse
<1>5. BlobsInv'
  <2> SUFFICES ASSUME Uncut', NEW z \in calls' PROVE BlobsOf(z)'
    BY DEF BlobsInv
  <2>0. Straight /\ Uncut /\ ~Closing(k) /\ k.pc = "remove"
    BY <1>1, <1>2, <1>3, <1>4 DEF RemoveCopy, IInv, CallInv
  <2>1. UNCHANGED <<job, progress, rows>> /\ blobs' = Without(blobs, k.u)
    BY DEF RemoveCopy, Superfluous
  <2>2. rows[k.u].key = None
    BY <2>0 DEF IInv, UnreadyInv
  <2>3. ASSUME NEW y \in Uploads, NEW s, Holds(y, s) PROVE Holds(y, s)' /\ y # k.u
    BY <1>4, <1>1, <2>1, <2>2, <2>3 DEF Without, Restrict
  <2>4. CASE z = x
    <3>1. Holds(k.key, progress[k.u].hash) /\ k.size = Len(progress[k.u].hash)
      BY <2>0 DEF IInv, BlobsInv
    <3> QED
      BY <1>1, <1>2, <1>3, <1>4, <2>1, <2>3, <2>4, <3>1
  <2>5. CASE z \in calls /\ z # k
    <3>1. BlobsOf(z)
      BY <2>0, <2>5 DEF IInv, BlobsInv
    <3>2. CASE z.u = k.u
      <4>1. z.pc \in {"abort", "mark"}
        BY <1>4, <2>0, <2>5, <3>2 DEF IInv, OneInv
      <4> QED
        BY <4>1
    <3>3. CASE z.u # k.u
      BY <1>4, <2>1, <2>3, <2>5, <3>1, <3>3 DEF Without, Restrict
    <3> QED
      BY <3>2, <3>3
  <2> QED
    BY <1>1, <1>2, <1>3, <1>4, <2>4, <2>5
<1> USE <1>1, <1>2, <1>3, <1>4 DEF IInv, RemoveCopy, Superfluous, Without, Restrict
<1>6. TypesInv' /\ UploadInv'  BY DEF TypesInv, UploadInv, CallInv, WireInv
<1>7. WireInv' /\ CallInv'  BY DEF WireInv, CallInv
<1>8. MapInv' /\ EarlyInv' /\ HashedInv' /\ OneInv'
  BY DEF MapInv, EarlyInv, HashedInv, OneInv
<1>9. OutInv' /\ ProgressInv' /\ UnreadyInv' /\ ReadyInv'
  BY DEF OutInv, ProgressInv, UnreadyInv, ReadyInv
<1>10. GoneInv' /\ AloneInv' /\ TmpFits' /\ RowsInv'
  BY DEF GoneInv, AloneInv, TmpFits, RowsInv, OneInv, UnreadyInv, EarlyInv, BlobsInv
<1>11. MineInv' /\ FailedInv' /\ LeftInv' /\ WaitInv'
  BY DEF MineInv, FailedInv, LeftInv, WaitInv
<1> QED
  BY <1>5, <1>6, <1>7, <1>8, <1>9, <1>10, <1>11

\* The row becomes ready.
LEMMA UpdateRowKeeps ==
    ASSUME IInv, NEW k \in calls, UpdateRow(k)
    PROVE  IInv'
<1>1. CallSound(k)
  BY CallFacts
<1> USE DEF CallSound
<1> DEFINE x == [k EXCEPT !.pc = "updated"]
<1>2. x \in Call /\ x.by = k.by /\ x.u = k.u /\ x.key = k.key /\ x.size = k.size
      /\ x.pc = "updated"
  BY <1>1 DEF Call, Pc
<1>3. calls' = (calls \ {k}) \cup {x}
  BY DEF UpdateRow, Goto
<1> HIDE DEF x
<1>4. StateSound
  BY StateFacts
<1> USE FilesAssumption DEF StateSound, Untouched, Fresh, NoRow, NoJob, Early, Whole, Stored,
    Closing, MySha, Size, Lapsed, Straight, Uncut, Apart, CallOK, InMap, NotInMap, Unready,
    Mine, TmpOf, Holds, BlobsOf, ChunkOf, tabVars, stored, Lapse
<1>5. TypesInv'
  <2>1. progress[k.u].hash \in Seq(Chunk)
    BY <1>1 DEF IInv, TypesInv, Progress
  <2>2. ReadyRow(k) \in Row
    BY <1>1, <2>1 DEF Row, ReadyRow
  <2>3. rows' \in [Uploads -> Row]
    BY <2>2 DEF IInv, TypesInv, UpdateRow
  <2> QED
    BY <2>3 DEF IInv, TypesInv, UpdateRow
<1>6. UnreadyInv'
  <2> SUFFICES ASSUME Straight' PROVE UnreadyInv!2'
    BY DEF UnreadyInv
  <2>1. Straight /\ ~Closing(k) /\ UNCHANGED wire
    BY <1>1, <1>2, <1>3, <1>4 DEF UpdateRow, IInv, CallInv
  <2>2. ASSUME NEW u \in Uploads, u # k.u, Unready(u) PROVE Unready(u)'
    BY <1>1, <2>2 DEF UpdateRow, ReadyRow, IInv, TypesInv
  <2>3. ASSUME NEW m \in wire', m.type \in {"next", "chunk"} PROVE Unready(m.u)'
    <3>1. m.u # k.u /\ Unready(m.u)
      BY <2>1, <2>3 DEF IInv, OneInv, UnreadyInv
    <3> QED
      BY <1>4, <2>1, <2>2, <3>1
  <2>4. ASSUME NEW z \in calls',
               z.pc \in {"write", "written", "finish", "find", "remove", "update"}
        PROVE  Unready(z.u)'
    <3>1. z \in calls /\ z # k /\ ~Closing(z)
      BY <1>1, <1>2, <1>3, <1>4, <2>4
    <3>2. z.u # k.u /\ Unready(z.u)
      BY <2>1, <2>4, <3>1 DEF IInv, OneInv, UnreadyInv
    <3> QED
      BY <1>4, <2>2, <3>1, <3>2
  <2> QED
    BY <2>3, <2>4
<1>7. ReadyInv'
  <2> SUFFICES ASSUME Straight' PROVE ReadyInv!2'
    BY DEF ReadyInv
  <2>1. Straight /\ ~Closing(k) /\ UNCHANGED <<wire, tab, job, open>> /\ k.pc = "update"
    BY <1>1, <1>2, <1>3, <1>4 DEF UpdateRow, IInv, CallInv
  <2>2. /\ \A z \in calls : z # k /\ ~Closing(z) => z.u # k.u
        /\ \A m \in wire : m.u # k.u
        /\ tab[k.u] # "done"
    BY <1>1, <2>1 DEF IInv, OneInv
  <2>3. /\ \A u \in Uploads : u # k.u => rows'[u] = rows[u]
        /\ rows'[k.u].status = "ready" /\ rows'[k.u].sha = progress[k.u].hash
    BY <1>1 DEF UpdateRow, ReadyRow, IInv, TypesInv
  <2>4. progress[k.u].hash = job[k.u].file
    BY <1>1, <2>1, Entire DEF IInv, ProgressInv
  <2>5. ASSUME NEW z \in calls', z.pc \in {"updated", "load", "linked"}
        PROVE  rows'[z.u].sha = job'[z.u].file /\ (job'[z.u].client \in open' => Mine(z.u)')
    <3>1. CASE z = x
      BY <1>1, <1>2, <1>3, <1>4, <2>1, <2>3, <2>4, <3>1
    <3>2. CASE z \in calls /\ z # k
      BY <1>4, <2>1, <2>2, <2>3, <2>5, <3>2 DEF IInv, ReadyInv
    <3> QED
      BY <1>1, <1>2, <1>3, <1>4, <3>1, <3>2
  <2>6. \A m \in wire' : m.type = "done" => Mine(m.u)'
    BY <1>4, <2>1, <2>2, <2>3 DEF IInv, ReadyInv
  <2>7. \A u \in Uploads : tab'[u] = "done" => Mine(u)' /\ \A z \in calls' : z.u # u
    BY <1>1, <1>2, <1>3, <1>4, <2>1, <2>2, <2>3 DEF IInv, ReadyInv
  <2> QED
    BY <2>5, <2>6, <2>7
<1> USE <1>1, <1>2, <1>3, <1>4 DEF IInv, UpdateRow, ReadyRow
<1>8. UploadInv' /\ WireInv'  BY DEF UploadInv, WireInv, TypesInv, CallInv
<1>9. CallInv' /\ MapInv'  BY DEF CallInv, MapInv
<1>10. EarlyInv' /\ HashedInv' /\ OneInv' /\ OutInv'
  BY DEF EarlyInv, HashedInv, OneInv, OutInv, TypesInv, CallInv, WireInv
<1>11. ProgressInv' /\ GoneInv' /\ AloneInv' /\ TmpFits'
  BY DEF ProgressInv, GoneInv, AloneInv, TmpFits
<1>12. BlobsInv' /\ RowsInv' /\ MineInv' /\ FailedInv'
  BY DEF BlobsInv, RowsInv, MineInv, FailedInv, OneInv, UnreadyInv, EarlyInv, TmpFits,
      TypesInv, CallInv, WireInv
<1>13. LeftInv' /\ WaitInv'  BY DEF LeftInv, WaitInv
<1> QED
  BY <1>5, <1>6, <1>7, <1>8, <1>9, <1>10, <1>11, <1>12, <1>13

\* finishUpload deletes the client's entry.
LEMMA LeaveMapKeeps ==
    ASSUME IInv, NEW k \in calls, LeaveMap(k)
    PROVE  IInv'
<1>1. CallSound(k)
  BY CallFacts
<1> USE DEF CallSound
<1> DEFINE x == [k EXCEPT !.pc = "load"]
<1>2. x \in Call /\ x.by = k.by /\ x.u = k.u /\ x.key = k.key /\ x.size = k.size /\ x.pc = "load"
  BY <1>1 DEF Call, Pc
<1>3. calls' = (calls \ {k}) \cup {x}
  BY DEF LeaveMap, Goto
<1> HIDE DEF x
<1>4. /\ active' \in [Clients -> Uploads \cup {None}]
      /\ \A d \in Clients : active'[d] = IF d = job[k.u].client THEN None ELSE active[d]
      /\ lapses' \subseteq Lapse /\ (Straight' <=> Straight) /\ (Uncut' <=> Uncut)
      /\ Apart' => Apart /\ active[job[k.u].client] \in {k.u, None}
      /\ \A l \in {"late", "swallowed", "cut", "unlogged"} : l \in lapses' <=> l \in lapses
  BY <1>1 DEF LeaveMap, Forget, Lapsed, Lapse, Straight, Uncut, Apart, IInv, TypesInv
<1>5. k.pc = "updated" /\ UNCHANGED <<tab, job, held, wire, open, progress, tmp, blobs, rows, faults>>
  BY DEF LeaveMap, tabVars, stored
<1>6. StateSound
  BY StateFacts
<1> USE FilesAssumption DEF StateSound, Untouched, Fresh, NoRow, Early, Whole, Stored, Closing,
    MySha, Size, Lapsed, CallOK, InMap, NotInMap, Unready, Mine, TmpOf, Holds, BlobsOf,
    ChunkOf, tabVars, stored, Lapse
<1>7. MineInv'
  <2> SUFFICES ASSUME Apart' PROVE MineInv!2'
    BY DEF MineInv
  <2>1. Apart /\ active[job[k.u].client] \in {k.u, None} /\ Straight /\ ~Closing(k)
    BY <1>1, <1>2, <1>3, <1>4, <1>5, <1>6 DEF IInv, MineInv
  <2>2. ASSUME NEW m \in wire', m.type \in {"next", "chunk"}
        PROVE  active'[m.client] = m.u
    BY <1>1, <1>2, <1>3, <1>4, <1>5, <1>6, <2>1, <2>2 DEF IInv, MineInv, OneInv
  <2>3. ASSUME NEW z \in calls', z.pc \in {"write", "written"}
        PROVE  InMap(z.u)' \/ ("cut" \in lapses' /\ job'[z.u].client \notin open')
    <3>1. z \in calls /\ z # k /\ ~Closing(z)
      BY <1>1, <1>2, <1>3, <1>4, <1>5, <1>6, <2>3
    <3>2. z.u # k.u
      BY <2>1, <3>1 DEF IInv, OneInv
    <3> QED
      BY <1>1, <1>2, <1>3, <1>4, <1>5, <1>6, <2>1, <2>3, <3>1, <3>2 DEF IInv, MineInv
  <2> QED
    BY <1>1, <1>2, <1>3, <1>4, <1>5, <1>6, <2>1, <2>2, <2>3
<1> USE <1>1, <1>2, <1>3, <1>4, <1>5, <1>6 DEF IInv
<1>8. TypesInv' /\ UploadInv'  BY DEF TypesInv, UploadInv, CallInv, WireInv
<1>9. WireInv' /\ CallInv'  BY DEF WireInv, CallInv
<1>10. MapInv' /\ EarlyInv' /\ HashedInv' /\ OneInv'
  BY DEF MapInv, EarlyInv, HashedInv, OneInv
<1>11. OutInv'  BY DEF OutInv, OneInv, EarlyInv, MapInv
<1>12. ProgressInv'  BY DEF ProgressInv
<1>13. UnreadyInv' /\ ReadyInv'  BY DEF UnreadyInv, ReadyInv
<1>14. GoneInv' /\ AloneInv' /\ TmpFits' /\ BlobsInv'
  BY DEF GoneInv, AloneInv, TmpFits, BlobsInv
<1>15. RowsInv' /\ FailedInv'  BY DEF RowsInv, FailedInv, TypesInv, CallInv, WireInv
<1>16. LeftInv'
  BY DEF LeftInv, MineInv, OneInv, GoneInv, CallInv, TypesInv, WireInv, UploadInv, MapInv
<1>17. WaitInv'  BY DEF WaitInv
<1> QED
  BY <1>7, <1>8, <1>9, <1>10, <1>11, <1>12, <1>13, <1>14, <1>15, <1>16, <1>17

\* upload_done is sent.
LEMMA AnswerKeeps ==
    ASSUME IInv, NEW k \in calls, Answer(k)
    PROVE  IInv'
<1>1. CallSound(k)
  BY CallFacts
<1> USE DEF CallSound
<1> DEFINE n == Msg("done", k.u, 0)
<1>2. n \in Message /\ n.type = "done" /\ n.u = k.u /\ n.client = job[k.u].client /\ n.at = 0
  BY <1>1 DEF Msg, Message
<1>3. wire' = IF n.client \in open THEN wire \cup {n} ELSE wire
  BY <1>1 DEF Answer, Sent
<1> HIDE DEF n
<1>4. StateSound
  BY StateFacts
<1> USE FilesAssumption DEF StateSound, Untouched, Fresh, NoRow, NoJob, Early, Whole, Stored,
    Closing, MySha, Size, Lapsed, Straight, Uncut, Apart, CallOK, InMap, NotInMap, Unready,
    Mine, TmpOf, Holds, BlobsOf, ChunkOf, tabVars, stored, Lapse
<1>5. OneInv'
  <2> SUFFICES ASSUME Straight' PROVE OneInv!2'
    BY DEF OneInv
  <2>1. Straight /\ ~Closing(k)
    BY <1>1, <1>2, <1>3, <1>4 DEF Answer, End, IInv, CallInv
  <2>2. /\ \A m \in wire : m.u # k.u
        /\ \A z \in calls : ~Closing(z) /\ z.u = k.u => z = k
        /\ tab[k.u] \notin {"done", "error"}
    BY <1>1, <1>2, <1>3, <1>4, <2>1 DEF Answer, End, IInv, OneInv
  <2>3. \A m, p \in wire' : m.u = p.u => m = p
    BY <1>1, <1>2, <1>3, <1>4, <2>1, <2>2 DEF Answer, End, IInv, OneInv
  <2>4. \A z, y \in calls' : ~Closing(z) /\ ~Closing(y) /\ z.u = y.u => z = y
    BY <1>1, <1>2, <1>3, <1>4, <2>1 DEF Answer, End, IInv, OneInv
  <2>5. \A m \in wire', z \in calls' : ~Closing(z) => m.u # z.u
    BY <1>1, <1>2, <1>3, <1>4, <2>1, <2>2 DEF Answer, End, IInv, OneInv
  <2>6. \A u \in Uploads : tab'[u] \in {"done", "error"} =>
            (\A m \in wire' : m.u # u) /\ (\A z \in calls' : ~Closing(z) => z.u # u)
    BY <1>1, <1>2, <1>3, <1>4, <2>1, <2>2 DEF Answer, End, IInv, OneInv
  <2> QED
    BY <2>3, <2>4, <2>5, <2>6
<1>6. OutInv'
  <2> SUFFICES ASSUME Straight' PROVE OutInv!2'
    BY DEF OutInv
  <2>1. Straight /\ ~Closing(k)
    BY <1>1, <1>2, <1>3, <1>4 DEF Answer, End, IInv, CallInv
  <2>2. NotInMap(k.u)
    BY <1>1, <1>2, <1>3, <1>4, <2>1 DEF Answer, End, IInv, OutInv
  <2>3. ASSUME NEW m \in wire', m.type \notin {"next", "chunk"} PROVE NotInMap(m.u)'
    BY <1>1, <1>2, <1>3, <1>4, <2>1, <2>2, <2>3 DEF Answer, End, IInv, OutInv
  <2>4. ASSUME NEW z \in calls', ~Closing(z), z.pc \in Early \cup {"linked", "load", "abort", "mark"}
        PROVE  NotInMap(z.u)'
    BY <1>1, <1>2, <1>3, <1>4, <2>1, <2>4 DEF Answer, End, IInv, OutInv
  <2>5. ASSUME NEW u \in Uploads, tab'[u] \in {"done", "error"} PROVE NotInMap(u)'
    BY <1>1, <1>2, <1>3, <1>4, <2>1, <2>5 DEF Answer, End, IInv, OutInv
  <2> QED
    BY <2>3, <2>4, <2>5
<1> USE <1>1, <1>2, <1>3, <1>4 DEF IInv, Answer, End
<1>7. TypesInv' /\ UploadInv' /\ WireInv' /\ CallInv'
  BY DEF TypesInv, UploadInv, WireInv, CallInv
<1>8. MapInv' /\ EarlyInv' /\ HashedInv' /\ ProgressInv'
  BY DEF MapInv, EarlyInv, HashedInv, ProgressInv
<1>9. UnreadyInv' /\ ReadyInv' /\ GoneInv' /\ AloneInv'
  BY DEF UnreadyInv, ReadyInv, GoneInv, AloneInv
<1>10. TmpFits' /\ BlobsInv' /\ RowsInv' /\ MineInv'
  BY DEF TmpFits, BlobsInv, RowsInv, MineInv
<1>11. FailedInv' /\ LeftInv' /\ WaitInv'  BY DEF FailedInv, LeftInv, WaitInv
<1> QED
  BY <1>5, <1>6, <1>7, <1>8, <1>9, <1>10, <1>11

\* failUpload removes the temporary file.
LEMMA AbortKeeps ==
    ASSUME IInv, NEW k \in calls, Abort(k)
    PROVE  IInv'
<1>1. CallSound(k)
  BY CallFacts
<1> USE DEF CallSound
<1> DEFINE x == [k EXCEPT !.pc = "mark"]
<1>2. x \in Call /\ x.by = k.by /\ x.u = k.u /\ x.key = k.key /\ x.size = k.size /\ x.pc = "mark"
  BY <1>1 DEF Call, Pc
<1>3. calls' = (calls \ {k}) \cup {x}
  BY DEF Abort, Goto
<1> HIDE DEF x
<1>4. StateSound
  BY StateFacts
<1> USE FilesAssumption DEF StateSound, Untouched, Fresh, NoRow, NoJob, Early, Whole, Stored,
    Closing, MySha, Size, Lapsed, Straight, Uncut, Apart, CallOK, InMap, NotInMap, Unready,
    Mine, TmpOf, Holds, BlobsOf, ChunkOf, tabVars, stored, Lapse
<1>5. TmpFits'
  <2> SUFFICES ASSUME Uncut' PROVE TmpFits!2'
    BY DEF TmpFits
  <2>0. Straight /\ Uncut /\ k.pc = "abort"
    BY <1>1, <1>2, <1>3, <1>4 DEF Abort
  <2>1. /\ \A z \in calls : z.pc \in {"write", "finish", "written"} => z.u # k.u
        /\ \A m \in wire : m.u # k.u
    <3>1. CASE Closing(k)
      BY <1>4, <1>1, <2>0, <3>1 DEF IInv, AloneInv, CallInv, WireInv
    <3>2. CASE ~Closing(k)
      BY <1>4, <2>0, <3>2 DEF IInv, OneInv
    <3> QED
      BY <3>1, <3>2
  <2>2. UNCHANGED <<wire, job, progress>> /\ tmp' = Without(tmp, k.u)
    BY DEF Abort
  <2>5. \A u \in Uploads : u # k.u => TmpOf(u)' = TmpOf(u)
    BY <2>2 DEF Without, Restrict
  <2> HIDE DEF TmpOf
  <2>6. ASSUME NEW m \in wire', m.type \in {"next", "chunk"}
        PROVE  TmpOf(m.u)' = progress'[m.u].hash
    BY <1>4, <2>0, <2>1, <2>2, <2>5, <2>6 DEF IInv, TmpFits
  <2>7. ASSUME NEW z \in calls', z.pc \in {"write", "finish", "written"}
        PROVE  /\ z.pc # "written" => TmpOf(z.u)' = progress'[z.u].hash
               /\ z.pc = "written" => TmpOf(z.u)' = Append(progress'[z.u].hash, ChunkOf(z.by)')
    <3>1. z \in calls /\ z.u # k.u /\ z.u \in Uploads
      BY <1>1, <1>2, <1>3, <1>4, <2>1, <2>7
    <3> QED
      BY <2>0, <2>2, <2>5, <2>7, <3>1 DEF IInv, TmpFits
  <2> QED
    BY <2>6, <2>7
<1> USE <1>1, <1>2, <1>3, <1>4 DEF IInv, Abort, Without, Restrict
<1>6. TypesInv' /\ UploadInv' /\ WireInv' /\ CallInv'
  BY DEF TypesInv, UploadInv, WireInv, CallInv
<1>7. MapInv' /\ EarlyInv' /\ HashedInv' /\ OneInv'
  BY DEF MapInv, EarlyInv, HashedInv, OneInv
<1>8. OutInv' /\ ProgressInv' /\ UnreadyInv' /\ ReadyInv'
  BY DEF OutInv, ProgressInv, UnreadyInv, ReadyInv
<1>9. GoneInv' /\ AloneInv' /\ BlobsInv' /\ RowsInv'
  BY DEF GoneInv, AloneInv, BlobsInv, RowsInv
<1>10. MineInv' /\ FailedInv' /\ LeftInv' /\ WaitInv'
  BY DEF MineInv, FailedInv, LeftInv, WaitInv
<1> QED
  BY <1>5, <1>6, <1>7, <1>8, <1>9, <1>10

\* failUpload marks the row and answers.
LEMMA MarkFailedKeeps ==
    ASSUME IInv, NEW k \in calls, MarkFailed(k)
    PROVE  IInv'
<1>1. CallSound(k)
  BY CallFacts
<1> USE DEF CallSound
<1> DEFINE n == Msg("error", k.u, 0)
<1>2. n \in Message /\ n.type = "error" /\ n.u = k.u /\ n.client = job[k.u].client /\ n.at = 0
  BY <1>1 DEF Msg, Message
<1>3. wire' = IF ~Closing(k) /\ n.client \in open THEN wire \cup {n} ELSE wire
  BY <1>1 DEF MarkFailed, Regret, Sent, Closing
<1> HIDE DEF n
<1>4. /\ k.pc = "mark" /\ calls' = calls \ {k}
      /\ UNCHANGED <<tab, job, held, open, active, progress, tmp, blobs, faults, lapses>>
      /\ rows' \in [Uploads -> Row] /\ rows'[k.u].status = "failed"
      /\ rows'[k.u].key = rows[k.u].key
      /\ rows'[k.u].sha = rows[k.u].sha /\ rows'[k.u].size = rows[k.u].size
      /\ \A u \in Uploads : u # k.u => rows'[u] = rows[u]
  <2>1. /\ k.pc = "mark" /\ calls' = calls \ {k} /\ rows' = [rows EXCEPT ![k.u].status = "failed"]
        /\ UNCHANGED <<tab, job, held, open, active, progress, tmp, blobs, faults, lapses>>
    BY DEF MarkFailed, End, tabVars, stored
  <2>2. rows \in [Uploads -> Row]
    BY DEF IInv, TypesInv
  <2> QED
    BY <1>1, <2>1, <2>2, Marked
<1>5. StateSound
  BY StateFacts
<1> USE FilesAssumption DEF StateSound, Untouched, Fresh, NoRow, NoJob, Early, Whole, Stored,
    Closing, MySha, Size, Lapsed, Straight, Uncut, Apart, CallOK, InMap, NotInMap, Unready,
    Mine, TmpOf, Holds, BlobsOf, ChunkOf, tabVars, stored, Lapse
<1>6. ReadyInv'
  <2> SUFFICES ASSUME Straight' PROVE ReadyInv!2'
    BY DEF ReadyInv
  <2>1. Straight
    BY <1>1, <1>2, <1>3, <1>4, <1>5
  <2>2. ASSUME NEW u \in Uploads, Mine(u), u # k.u PROVE Mine(u)'
    BY <1>1, <1>2, <1>3, <1>4, <1>5, <2>2
  <2>3. ASSUME NEW z \in calls', z.pc \in {"updated", "load", "linked"}
        PROVE  rows'[z.u].sha = job'[z.u].file /\ (job'[z.u].client \in open' => Mine(z.u)')
    <3>1. z \in calls /\ z # k /\ ~Closing(z)
      BY <1>1, <1>2, <1>3, <1>4, <1>5, <2>3
    <3>2. rows[z.u].sha = job[z.u].file /\ (job[z.u].client \in open => Mine(z.u))
      BY <2>1, <2>3, <3>1 DEF IInv, ReadyInv
    <3>3. CASE z.u = k.u
      <4>1. Closing(k)
        BY <2>1, <3>1, <3>3 DEF IInv, OneInv
      <4>2. job[k.u].client \notin open
        BY <1>1, <4>1 DEF IInv, CallInv
      <4> QED
        BY <1>1, <1>2, <1>3, <1>4, <1>5, <3>2, <3>3, <4>2
    <3>4. CASE z.u # k.u
      BY <1>1, <1>2, <1>3, <1>4, <1>5, <2>2, <3>1, <3>2, <3>4
    <3> QED
      BY <3>3, <3>4
  <2>4. ASSUME NEW m \in wire', m.type = "done" PROVE Mine(m.u)'
    <3>1. m \in wire /\ Mine(m.u)
      BY <1>1, <1>2, <1>3, <1>4, <1>5, <2>1, <2>4 DEF IInv, ReadyInv
    <3>2. CASE m.u = k.u
      <4>1. Closing(k)
        BY <2>1, <3>1, <3>2 DEF IInv, OneInv
      <4>2. job[k.u].client \notin open /\ job[m.u].client \in open
        BY <1>1, <3>1, <4>1 DEF IInv, CallInv, WireInv
      <4> QED
        BY <3>2, <4>2
    <3> QED
      BY <1>5, <2>2, <3>1, <3>2
  <2>5. ASSUME NEW u \in Uploads, tab'[u] = "done" PROVE Mine(u)' /\ \A z \in calls' : z.u # u
    <3>1. Mine(u) /\ \A z \in calls : z.u # u
      BY <1>1, <1>2, <1>3, <1>4, <1>5, <2>1, <2>5 DEF IInv, ReadyInv
    <3> QED
      BY <1>1, <1>2, <1>3, <1>4, <1>5, <2>2, <3>1
  <2> QED
    BY <2>3, <2>4, <2>5
<1> USE <1>1, <1>2, <1>3, <1>4, <1>5 DEF IInv
<1>7. UploadInv'  BY SMTT(30) DEF UploadInv, TypesInv
<1>8. TypesInv' /\ WireInv' /\ CallInv' /\ MapInv'  BY DEF TypesInv, WireInv, CallInv, MapInv
<1>9. EarlyInv' /\ HashedInv' /\ OneInv' /\ OutInv'
  BY DEF EarlyInv, HashedInv, OneInv, OutInv, MapInv
<1>10. ProgressInv' /\ UnreadyInv' /\ GoneInv' /\ AloneInv'
  BY DEF ProgressInv, UnreadyInv, GoneInv, AloneInv, OneInv, EarlyInv, CallInv, WireInv
<1>11. TmpFits' /\ BlobsInv'
  BY DEF TmpFits, BlobsInv, OneInv, AloneInv, ProgressInv, EarlyInv, UnreadyInv, RowsInv
<1>12. RowsInv' /\ MineInv'  BY DEF RowsInv, MineInv, OneInv, UnreadyInv, EarlyInv, BlobsInv
<1>13. FailedInv' /\ LeftInv' /\ WaitInv'
  BY DEF FailedInv, LeftInv, WaitInv, EarlyInv, MineInv, OneInv, GoneInv, CallInv
<1> QED
  BY <1>6, <1>7, <1>8, <1>9, <1>10, <1>11, <1>12, <1>13

\* An await of startUpload throws.
LEMMA ThrowStartKeeps ==
    ASSUME IInv, NEW k \in calls, Throw(k), k.pc \in {"lookup", "link", "linked", "clear", "add"}
    PROVE  IInv'
<1>1. CallSound(k)
  BY CallFacts
<1> USE DEF CallSound
<1> DEFINE n == Msg("error", k.u, 0)
<1>2. n \in Message /\ n.type = "error" /\ n.u = k.u /\ n.client = job[k.u].client /\ n.at = 0
  BY <1>1 DEF Msg, Message
<1>3. wire' = IF n.client \in open THEN wire \cup {n} ELSE wire
  BY <1>1 DEF Throw, Sent
<1> HIDE DEF n
<1>4. calls' = calls \ {k} /\ UNCHANGED <<active, lapses>>
  BY DEF Throw, End
<1>5. StateSound
  BY StateFacts
<1> USE FilesAssumption DEF StateSound, Untouched, Fresh, NoRow, NoJob, Early, Whole, Stored,
    Closing, MySha, Size, Lapsed, Straight, Uncut, Apart, CallOK, InMap, NotInMap, Unready,
    Mine, TmpOf, Holds, BlobsOf, ChunkOf, tabVars, stored, Lapse
<1>6. OneInv'
  <2> SUFFICES ASSUME Straight' PROVE OneInv!2'
    BY DEF OneInv
  <2>1. Straight /\ ~Closing(k)
    BY <1>1, <1>2, <1>3, <1>4, <1>5 DEF Throw, End, IInv, CallInv
  <2>2. /\ \A m \in wire : m.u # k.u
        /\ \A z \in calls : ~Closing(z) /\ z.u = k.u => z = k
        /\ tab[k.u] \notin {"done", "error"}
    BY <1>1, <1>2, <1>3, <1>4, <1>5, <2>1 DEF Throw, End, IInv, OneInv
  <2>3. \A m, p \in wire' : m.u = p.u => m = p
    BY <1>1, <1>2, <1>3, <1>4, <1>5, <2>1, <2>2 DEF Throw, End, IInv, OneInv
  <2>4. \A z, y \in calls' : ~Closing(z) /\ ~Closing(y) /\ z.u = y.u => z = y
    BY <1>1, <1>2, <1>3, <1>4, <1>5, <2>1 DEF Throw, End, IInv, OneInv
  <2>5. \A m \in wire', z \in calls' : ~Closing(z) => m.u # z.u
    BY <1>1, <1>2, <1>3, <1>4, <1>5, <2>1, <2>2 DEF Throw, End, IInv, OneInv
  <2>6. \A u \in Uploads : tab'[u] \in {"done", "error"} =>
            (\A m \in wire' : m.u # u) /\ (\A z \in calls' : ~Closing(z) => z.u # u)
    BY <1>1, <1>2, <1>3, <1>4, <1>5, <2>1, <2>2 DEF Throw, End, IInv, OneInv
  <2> QED
    BY <2>3, <2>4, <2>5, <2>6
<1>7. OutInv'
  <2> SUFFICES ASSUME Straight' PROVE OutInv!2'
    BY DEF OutInv
  <2>1. Straight /\ ~Closing(k)
    BY <1>1, <1>2, <1>3, <1>4, <1>5 DEF Throw, End, IInv, CallInv
  <2>2. NotInMap(k.u)
    BY <1>1, <1>2, <1>3, <1>4, <1>5, <2>1 DEF Throw, End, IInv, OutInv
  <2>3. ASSUME NEW m \in wire', m.type \notin {"next", "chunk"} PROVE NotInMap(m.u)'
    BY <1>1, <1>2, <1>3, <1>4, <1>5, <2>1, <2>2, <2>3 DEF Throw, End, IInv, OutInv
  <2>4. ASSUME NEW z \in calls', ~Closing(z), z.pc \in Early \cup {"linked", "load", "abort", "mark"}
        PROVE  NotInMap(z.u)'
    BY <1>1, <1>2, <1>3, <1>4, <1>5, <2>1, <2>4 DEF Throw, End, IInv, OutInv
  <2>5. ASSUME NEW u \in Uploads, tab'[u] \in {"done", "error"} PROVE NotInMap(u)'
    BY <1>1, <1>2, <1>3, <1>4, <1>5, <2>1, <2>5 DEF Throw, End, IInv, OutInv
  <2> QED
    BY <2>3, <2>4, <2>5
<1> USE <1>1, <1>2, <1>3, <1>4, <1>5 DEF IInv, Throw, End
<1>8. TypesInv' /\ UploadInv' /\ WireInv' /\ CallInv'
  BY DEF TypesInv, UploadInv, WireInv, CallInv
<1>9. MapInv' /\ EarlyInv' /\ HashedInv' /\ ProgressInv'
  BY DEF MapInv, EarlyInv, HashedInv, ProgressInv
<1>10. UnreadyInv' /\ ReadyInv' /\ GoneInv' /\ AloneInv'
  BY DEF UnreadyInv, ReadyInv, GoneInv, AloneInv
<1>11. TmpFits' /\ BlobsInv' /\ RowsInv' /\ MineInv'
  BY DEF TmpFits, BlobsInv, RowsInv, MineInv
<1>12. FailedInv' /\ LeftInv' /\ WaitInv'  BY DEF FailedInv, LeftInv, WaitInv
<1> QED
  BY <1>6, <1>7, <1>8, <1>9, <1>10, <1>11, <1>12

\* The link is written, and then a hook afterWrite or the log throws.
LEMMA ThrowSavedLinkKeeps ==
    ASSUME IInv, NEW k \in calls, ThrowSaved(k), k.pc = "link"
    PROVE  IInv'
<1>1. CallSound(k)
  BY CallFacts
<1> USE DEF CallSound
<1> DEFINE n == Msg("error", k.u, 0)
<1>2. n \in Message /\ n.type = "error" /\ n.u = k.u /\ n.client = job[k.u].client /\ n.at = 0
  BY <1>1 DEF Msg, Message
<1>3. wire' = IF n.client \in open THEN wire \cup {n} ELSE wire
  BY <1>1 DEF ThrowSaved, Sent
<1> HIDE DEF n
<1>4. /\ calls' = calls \ {k} /\ faults' \in 0 .. MaxFaults /\ k.pc = "link"
      /\ UNCHANGED <<tab, job, held, open, active, progress, tmp, blobs>>
      /\ UNCHANGED lapses
  BY FilesAssumption DEF ThrowSaved, End, tabVars, stored, IInv, TypesInv
<1>5. /\ StateSound /\ rows' \in [Uploads -> Row]
      /\ rows'[k.u].status = "ready" /\ rows'[k.u].key = k.key
      /\ rows'[k.u].size = Len(job[k.u].file) /\ rows'[k.u].sha = job[k.u].file
      /\ \A u \in Uploads : u # k.u => rows'[u] = rows[u]
  <2>1. rows' = [rows EXCEPT ![k.u] = LinkedRow(k)] /\ rows \in [Uploads -> Row]
    BY <1>4 DEF ThrowSaved, IInv, TypesInv
  <2>2. LinkedRow(k) \in Row
    BY <1>1 DEF Row, LinkedRow
  <2> QED
    BY <1>1, <2>1, <2>2, StateFacts DEF LinkedRow, Size
<1> USE FilesAssumption DEF StateSound, Untouched, Fresh, NoRow, NoJob, Early, Whole, Stored,
    Closing, MySha, Size, Lapsed, Straight, Uncut, Apart, CallOK, InMap, NotInMap, Unready,
    Mine, TmpOf, Holds, BlobsOf, ChunkOf, tabVars, stored, Lapse
<1>6. OneInv'
  <2> SUFFICES ASSUME Straight' PROVE OneInv!2'
    BY DEF OneInv
  <2>1. Straight /\ ~Closing(k)
    BY <1>1, <1>2, <1>3, <1>4, <1>5 DEF IInv, CallInv
  <2>2. /\ \A m \in wire : m.u # k.u
        /\ \A z \in calls : ~Closing(z) /\ z.u = k.u => z = k
        /\ tab[k.u] \notin {"done", "error"}
    BY <1>1, <1>2, <1>3, <1>4, <1>5, <2>1 DEF IInv, OneInv
  <2>3. \A m, p \in wire' : m.u = p.u => m = p
    BY <1>1, <1>2, <1>3, <1>4, <1>5, <2>1, <2>2 DEF IInv, OneInv
  <2>4. \A z, y \in calls' : ~Closing(z) /\ ~Closing(y) /\ z.u = y.u => z = y
    BY <1>1, <1>2, <1>3, <1>4, <1>5, <2>1 DEF IInv, OneInv
  <2>5. \A m \in wire', z \in calls' : ~Closing(z) => m.u # z.u
    BY <1>1, <1>2, <1>3, <1>4, <1>5, <2>1, <2>2 DEF IInv, OneInv
  <2>6. \A u \in Uploads : tab'[u] \in {"done", "error"} =>
            (\A m \in wire' : m.u # u) /\ (\A z \in calls' : ~Closing(z) => z.u # u)
    BY <1>1, <1>2, <1>3, <1>4, <1>5, <2>1, <2>2 DEF IInv, OneInv
  <2> QED
    BY <2>3, <2>4, <2>5, <2>6
<1>7. OutInv'
  <2> SUFFICES ASSUME Straight' PROVE OutInv!2'
    BY DEF OutInv
  <2>1. Straight /\ ~Closing(k)
    BY <1>1, <1>2, <1>3, <1>4, <1>5 DEF IInv, CallInv
  <2>2. NotInMap(k.u)
    BY <1>1, <1>2, <1>3, <1>4, <1>5, <2>1 DEF IInv, OutInv
  <2>3. ASSUME NEW m \in wire', m.type \notin {"next", "chunk"} PROVE NotInMap(m.u)'
    BY <1>1, <1>2, <1>3, <1>4, <1>5, <2>1, <2>2, <2>3 DEF IInv, OutInv
  <2>4. ASSUME NEW z \in calls', ~Closing(z), z.pc \in Early \cup {"linked", "load", "abort", "mark"}
        PROVE  NotInMap(z.u)'
    BY <1>1, <1>2, <1>3, <1>4, <1>5, <2>1, <2>4 DEF IInv, OutInv
  <2>5. ASSUME NEW u \in Uploads, tab'[u] \in {"done", "error"} PROVE NotInMap(u)'
    BY <1>1, <1>2, <1>3, <1>4, <1>5, <2>1, <2>5 DEF IInv, OutInv
  <2> QED
    BY <2>3, <2>4, <2>5
<1> USE <1>1, <1>2, <1>3, <1>4, <1>5 DEF IInv
<1>8. TypesInv'  BY DEF TypesInv
<1>14. UploadInv'  BY DEF UploadInv, TypesInv
<1>15. WireInv'  BY DEF WireInv
<1>9. CallInv' /\ MapInv'  BY DEF CallInv, MapInv
<1>16. EarlyInv'
  <2>1. ASSUME NEW u \in Uploads, u # k.u, Untouched(u) PROVE Untouched(u)'
    BY <1>4, <1>5, <2>1
  <2> HIDE DEF Untouched
  <2>2. \A m \in wire : m.u # k.u
    BY <1>4 DEF IInv, EarlyInv
  <2>3. ASSUME NEW m \in wire', m.type = "start"
        PROVE  /\ Untouched(m.u)'
               /\ \A p \in wire' : p.u = m.u => p = m
               /\ \A z \in calls' : z.u # m.u
    BY <1>2, <1>3, <1>4, <1>5, <2>1, <2>2, <2>3 DEF IInv, EarlyInv, WireInv
  <2>4. ASSUME NEW z \in calls', z.pc \in Early
        PROVE  /\ Untouched(z.u)'
               /\ \A m \in wire' : m.u # z.u
               /\ \A y \in calls' : y.u = z.u => y = z
    <3>1. z \in calls /\ z # k /\ z.u # k.u
      BY <1>4, <2>4 DEF IInv, EarlyInv
    <3> QED
      BY <1>2, <1>3, <1>4, <1>5, <2>1, <2>4, <3>1 DEF IInv, EarlyInv
  <2> QED
    BY <2>3, <2>4 DEF EarlyInv
<1>17. HashedInv'  BY DEF HashedInv, EarlyInv
<1>10. ProgressInv' /\ UnreadyInv' /\ GoneInv' /\ AloneInv'
  BY DEF ProgressInv, UnreadyInv, GoneInv, AloneInv, EarlyInv, CallInv, WireInv
<1>11. ReadyInv'
  BY DEF ReadyInv, EarlyInv, CallInv, WireInv
<1>12. TmpFits'  BY DEF TmpFits
<1>18. BlobsInv'
  <2> SUFFICES ASSUME Uncut', NEW z \in calls' PROVE BlobsOf(z)'
    BY DEF BlobsInv
  <2>1. BlobsOf(z) /\ rows[k.u].key = None
    BY <1>4 DEF IInv, BlobsInv, EarlyInv
  <2> QED
    BY <1>4, <1>5, <2>1
<1>19. RowsInv'
  <2> SUFFICES ASSUME Uncut', NEW t \in Uploads, rows'[t].key # None
               PROVE  Holds(rows[t].key, rows[t].sha)' /\ rows'[t].size = Len(rows'[t].sha)
    BY DEF RowsInv
  <2>1. rows[k.u].key = None /\ Uncut
    BY <1>4 DEF IInv, EarlyInv
  <2>2. CASE t # k.u
    BY <1>4, <1>5, <2>1, <2>2 DEF IInv, RowsInv
  <2>3. CASE t = k.u
    BY <1>4, <1>5, <2>1, <2>3 DEF IInv, BlobsInv
  <2> QED
    BY <2>2, <2>3
<1>13. MineInv' /\ LeftInv'  BY DEF MineInv, LeftInv, EarlyInv
<1>20. FailedInv'  BY DEF FailedInv, EarlyInv
<1>21. WaitInv'  BY DEF WaitInv
<1> QED
  BY <1>6, <1>7, <1>8, <1>9, <1>10, <1>11, <1>12, <1>13, <1>14, <1>15, <1>16, <1>17, <1>18,
     <1>19, <1>20, <1>21

\* The row is added, and then the log or a hook throws: the upload never starts.
LEMMA ThrowSavedAddKeeps ==
    ASSUME IInv, NEW k \in calls, ThrowSaved(k), k.pc = "add"
    PROVE  IInv'
<1>1. CallSound(k)
  BY CallFacts
<1> USE DEF CallSound
<1> DEFINE n == Msg("error", k.u, 0)
<1>2. n \in Message /\ n.type = "error" /\ n.u = k.u /\ n.client = job[k.u].client /\ n.at = 0
  BY <1>1 DEF Msg, Message
<1>3. wire' = IF n.client \in open THEN wire \cup {n} ELSE wire
  BY <1>1 DEF ThrowSaved, Sent
<1> HIDE DEF n
<1>4. /\ calls' = calls \ {k} /\ faults' \in 0 .. MaxFaults /\ k.pc = "add"
      /\ UNCHANGED <<tab, job, held, open, active, progress, tmp, blobs>>
      /\ lapses' = lapses \cup {"unlogged"}
  BY FilesAssumption DEF ThrowSaved, End, tabVars, stored, IInv, TypesInv
<1>5. /\ StateSound /\ rows' \in [Uploads -> Row]
      /\ rows'[k.u].status = "uploading" /\ rows'[k.u].key = None
      /\ \A u \in Uploads : u # k.u => rows'[u] = rows[u]
  <2>1. rows' = [rows EXCEPT ![k.u].status = "uploading"] /\ rows \in [Uploads -> Row]
    BY <1>4 DEF ThrowSaved, IInv, TypesInv
  <2>2. rows[k.u] = NoRow
    BY <1>4 DEF IInv, EarlyInv, Untouched, Early
  <2>3. /\ rows' \in [Uploads -> Row] /\ rows'[k.u].status = "uploading"
        /\ rows'[k.u].key = rows[k.u].key
        /\ \A u \in Uploads : u # k.u => rows'[u] = rows[u]
    BY <1>1, <2>1, Marked
  <2> QED
    BY <2>2, <2>3, StateFacts DEF NoRow
<1> USE FilesAssumption DEF StateSound, Untouched, Fresh, NoRow, NoJob, Early, Whole, Stored,
    Closing, MySha, Size, Lapsed, Straight, Uncut, Apart, CallOK, InMap, NotInMap, Unready,
    Mine, TmpOf, Holds, BlobsOf, ChunkOf, tabVars, stored, Lapse
<1>6. OneInv'
  <2> SUFFICES ASSUME Straight' PROVE OneInv!2'
    BY DEF OneInv
  <2>1. Straight /\ ~Closing(k)
    BY <1>1, <1>2, <1>3, <1>4, <1>5 DEF IInv, CallInv
  <2>2. /\ \A m \in wire : m.u # k.u
        /\ \A z \in calls : ~Closing(z) /\ z.u = k.u => z = k
        /\ tab[k.u] \notin {"done", "error"}
    BY <1>1, <1>2, <1>3, <1>4, <1>5, <2>1 DEF IInv, OneInv
  <2>3. \A m, p \in wire' : m.u = p.u => m = p
    BY <1>1, <1>2, <1>3, <1>4, <1>5, <2>1, <2>2 DEF IInv, OneInv
  <2>4. \A z, y \in calls' : ~Closing(z) /\ ~Closing(y) /\ z.u = y.u => z = y
    BY <1>1, <1>2, <1>3, <1>4, <1>5, <2>1 DEF IInv, OneInv
  <2>5. \A m \in wire', z \in calls' : ~Closing(z) => m.u # z.u
    BY <1>1, <1>2, <1>3, <1>4, <1>5, <2>1, <2>2 DEF IInv, OneInv
  <2>6. \A u \in Uploads : tab'[u] \in {"done", "error"} =>
            (\A m \in wire' : m.u # u) /\ (\A z \in calls' : ~Closing(z) => z.u # u)
    BY <1>1, <1>2, <1>3, <1>4, <1>5, <2>1, <2>2 DEF IInv, OneInv
  <2> QED
    BY <2>3, <2>4, <2>5, <2>6
<1>7. OutInv'
  <2> SUFFICES ASSUME Straight' PROVE OutInv!2'
    BY DEF OutInv
  <2>1. Straight /\ ~Closing(k)
    BY <1>1, <1>2, <1>3, <1>4, <1>5 DEF IInv, CallInv
  <2>2. NotInMap(k.u)
    BY <1>1, <1>2, <1>3, <1>4, <1>5, <2>1 DEF IInv, OutInv
  <2>3. ASSUME NEW m \in wire', m.type \notin {"next", "chunk"} PROVE NotInMap(m.u)'
    BY <1>1, <1>2, <1>3, <1>4, <1>5, <2>1, <2>2, <2>3 DEF IInv, OutInv
  <2>4. ASSUME NEW z \in calls', ~Closing(z), z.pc \in Early \cup {"linked", "load", "abort", "mark"}
        PROVE  NotInMap(z.u)'
    BY <1>1, <1>2, <1>3, <1>4, <1>5, <2>1, <2>4 DEF IInv, OutInv
  <2>5. ASSUME NEW u \in Uploads, tab'[u] \in {"done", "error"} PROVE NotInMap(u)'
    BY <1>1, <1>2, <1>3, <1>4, <1>5, <2>1, <2>5 DEF IInv, OutInv
  <2> QED
    BY <2>3, <2>4, <2>5
<1> USE <1>1, <1>2, <1>3, <1>4, <1>5 DEF IInv
<1>8. TypesInv'  BY DEF TypesInv
<1>14. UploadInv'  BY DEF UploadInv, TypesInv
<1>15. WireInv'  BY DEF WireInv
<1>9. CallInv' /\ MapInv'  BY DEF CallInv, MapInv
<1>16. EarlyInv'
  <2>1. ASSUME NEW u \in Uploads, u # k.u, Untouched(u) PROVE Untouched(u)'
    BY <1>4, <1>5, <2>1
  <2> HIDE DEF Untouched
  <2>2. \A m \in wire : m.u # k.u
    BY <1>4 DEF IInv, EarlyInv
  <2>3. ASSUME NEW m \in wire', m.type = "start"
        PROVE  /\ Untouched(m.u)'
               /\ \A p \in wire' : p.u = m.u => p = m
               /\ \A z \in calls' : z.u # m.u
    BY <1>2, <1>3, <1>4, <1>5, <2>1, <2>2, <2>3 DEF IInv, EarlyInv, WireInv
  <2>4. ASSUME NEW z \in calls', z.pc \in Early
        PROVE  /\ Untouched(z.u)'
               /\ \A m \in wire' : m.u # z.u
               /\ \A y \in calls' : y.u = z.u => y = z
    <3>1. z \in calls /\ z # k /\ z.u # k.u
      BY <1>4, <2>4 DEF IInv, EarlyInv
    <3> QED
      BY <1>2, <1>3, <1>4, <1>5, <2>1, <2>4, <3>1 DEF IInv, EarlyInv
  <2> QED
    BY <2>3, <2>4 DEF EarlyInv
<1>17. HashedInv'  BY DEF HashedInv, EarlyInv
<1>10. ProgressInv' /\ UnreadyInv' /\ GoneInv' /\ AloneInv'
  BY DEF ProgressInv, UnreadyInv, GoneInv, AloneInv, EarlyInv, CallInv, WireInv
<1>11. ReadyInv'
  BY DEF ReadyInv, EarlyInv, CallInv, WireInv
<1>12. TmpFits'  BY DEF TmpFits
<1>18. BlobsInv'
  <2> SUFFICES ASSUME Uncut', NEW z \in calls' PROVE BlobsOf(z)'
    BY DEF BlobsInv
  <2>1. BlobsOf(z) /\ rows[k.u].key = None
    BY <1>4 DEF IInv, BlobsInv, EarlyInv
  <2> QED
    BY <1>4, <1>5, <2>1
<1>19. RowsInv'
  <2> SUFFICES ASSUME Uncut', NEW t \in Uploads, rows'[t].key # None
               PROVE  Holds(rows[t].key, rows[t].sha)' /\ rows'[t].size = Len(rows'[t].sha)
    BY DEF RowsInv
  <2>1. rows[k.u].key = None /\ Uncut
    BY <1>4 DEF IInv, EarlyInv
  <2>2. CASE t # k.u
    BY <1>4, <1>5, <2>1, <2>2 DEF IInv, RowsInv
  <2>3. CASE t = k.u
    BY <1>4, <1>5, <2>1, <2>3 DEF IInv, BlobsInv
  <2> QED
    BY <2>2, <2>3
<1>13. MineInv' /\ LeftInv'  BY DEF MineInv, LeftInv, EarlyInv
<1>20. FailedInv'
  <2>1. ASSUME NEW z \in calls', z.pc = "updated" PROVE rows'[z.u].status # "uploading"
    BY <2>1 DEF FailedInv, EarlyInv
  <2>2. "unlogged" \in lapses' \cap {"late", "swallowed", "unlogged"}
    OBVIOUS
  <2> QED
    BY <2>1, <2>2 DEF FailedInv
<1>21. WaitInv'  BY DEF WaitInv
<1> QED
  BY <1>6, <1>7, <1>8, <1>9, <1>10, <1>11, <1>12, <1>13, <1>14, <1>15, <1>16, <1>17, <1>18,
     <1>19, <1>20, <1>21

\* The row becomes ready, and then the log or a hook throws: the upload fails.
LEMMA ThrowSavedUpdateKeeps ==
    ASSUME IInv, NEW k \in calls, ThrowSaved(k), k.pc = "update"
    PROVE  IInv'
<1>1. CallSound(k)
  BY CallFacts
<1> USE DEF CallSound
<1> DEFINE x == [k EXCEPT !.pc = "abort"]
<1>2. x \in Call /\ x.by = k.by /\ x.u = k.u /\ x.key = k.key /\ x.size = k.size /\ x.pc = "abort"
  BY <1>1 DEF Call, Pc
<1>3. calls' = (calls \ {k}) \cup {x}
  BY DEF ThrowSaved, FailCall, Goto
<1> HIDE DEF x
<1>4. /\ active' \in [Clients -> Uploads \cup {None}]
      /\ \A d \in Clients : active'[d] = IF d = job[k.u].client THEN None ELSE active[d]
      /\ lapses' \subseteq Lapse /\ (Straight' <=> Straight) /\ (Uncut' <=> Uncut)
      /\ Apart' => Apart /\ active[job[k.u].client] \in {k.u, None}
      /\ \A l \in {"late", "swallowed", "cut", "unlogged"} : l \in lapses' <=> l \in lapses
  BY <1>1 DEF ThrowSaved, FailCall, Forget, Lapsed, Lapse, Straight, Uncut, Apart, IInv, TypesInv
<1>5. faults' \in 0 .. MaxFaults /\ UNCHANGED <<tab, job, held, wire, open, progress, tmp, blobs>>
  BY FilesAssumption DEF ThrowSaved, FailCall, tabVars, stored, IInv, TypesInv
<1>6. /\ StateSound /\ k.pc = "update" /\ rows' \in [Uploads -> Row]
      /\ rows'[k.u].status = "ready" /\ rows'[k.u].key = k.key
      /\ rows'[k.u].size = k.size /\ rows'[k.u].sha = progress[k.u].hash
      /\ \A u \in Uploads : u # k.u => rows'[u] = rows[u]
  <2>1. rows' = [rows EXCEPT ![k.u] = ReadyRow(k)] /\ rows \in [Uploads -> Row]
    BY DEF ThrowSaved, IInv, TypesInv
  <2>2. progress[k.u].hash \in Seq(Chunk)
    BY <1>1 DEF IInv, TypesInv, Progress
  <2>3. ReadyRow(k) \in Row
    BY <1>1, <2>2 DEF Row, ReadyRow
  <2> QED
    BY <1>1, <2>1, <2>3, StateFacts DEF ReadyRow
<1> USE FilesAssumption DEF StateSound, Untouched, Fresh, NoRow, Early, Whole, Stored, Closing,
    MySha, Size, Lapsed, CallOK, InMap, NotInMap, Unready, Mine, TmpOf, Holds, BlobsOf,
    ChunkOf, tabVars, stored, Lapse
<1>7. MineInv'
  <2> SUFFICES ASSUME Apart' PROVE MineInv!2'
    BY DEF MineInv
  <2>1. Apart /\ active[job[k.u].client] \in {k.u, None} /\ Straight /\ ~Closing(k)
    BY <1>1, <1>2, <1>3, <1>4, <1>5, <1>6 DEF IInv, MineInv
  <2>2. ASSUME NEW m \in wire', m.type \in {"next", "chunk"}
        PROVE  active'[m.client] = m.u
    BY <1>1, <1>2, <1>3, <1>4, <1>5, <1>6, <2>1, <2>2 DEF IInv, MineInv, OneInv
  <2>3. ASSUME NEW z \in calls', z.pc \in {"write", "written"}
        PROVE  InMap(z.u)' \/ ("cut" \in lapses' /\ job'[z.u].client \notin open')
    <3>1. z \in calls /\ z # k /\ ~Closing(z)
      BY <1>1, <1>2, <1>3, <1>4, <1>5, <1>6, <2>3
    <3>2. z.u # k.u
      BY <2>1, <3>1 DEF IInv, OneInv
    <3> QED
      BY <1>1, <1>2, <1>3, <1>4, <1>5, <1>6, <2>1, <2>3, <3>1, <3>2 DEF IInv, MineInv
  <2> QED
    BY <1>1, <1>2, <1>3, <1>4, <1>5, <1>6, <2>1, <2>2, <2>3
<1> USE <1>1, <1>2, <1>3, <1>4, <1>5, <1>6 DEF IInv
<1>8. TypesInv'  BY DEF TypesInv
<1>18. UploadInv'  BY DEF UploadInv, TypesInv
<1>9. WireInv' /\ CallInv'  BY DEF WireInv, CallInv
<1>10. MapInv' /\ EarlyInv' /\ HashedInv' /\ OneInv'
  BY DEF MapInv, EarlyInv, HashedInv, OneInv, Straight
<1>11. OutInv'  BY DEF OutInv, OneInv, EarlyInv, MapInv, Straight
<1>12. ProgressInv'  BY DEF ProgressInv
<1>19. UnreadyInv'  BY DEF UnreadyInv, OneInv, CallInv
<1>13. ReadyInv'  BY DEF ReadyInv, OneInv, CallInv, Straight
<1>14. GoneInv' /\ AloneInv' /\ TmpFits'
  BY DEF GoneInv, AloneInv, TmpFits
<1>15. BlobsInv'
  <2> SUFFICES ASSUME Uncut', NEW z \in calls' PROVE BlobsOf(z)'
    BY DEF BlobsInv
  <2>1. CASE z = x
    BY <1>2, <2>1
  <2>2. CASE z \in calls
    <3>1. BlobsOf(z) /\ rows[k.u].key = None
      BY <1>4, <1>6, <2>2 DEF IInv, BlobsInv, UnreadyInv, Uncut
    <3> QED
      BY <1>5, <1>6, <3>1
  <2> QED
    BY <1>3, <2>1, <2>2
<1>16. FailedInv'
  <2>1. ASSUME NEW z \in calls', z.pc = "updated" PROVE rows'[z.u].status # "uploading"
    BY <2>1 DEF FailedInv
  <2>2. ASSUME Apart', lapses' \cap {"late", "swallowed", "unlogged"} = {},
               NEW u \in Uploads, rows'[u].status = "uploading"
        PROVE  InMap(u)' \/ \E z \in calls' : z.u = u /\ z.pc \in {"abort", "mark"}
    <3>1. u # k.u /\ rows[u].status = "uploading" /\ Apart
          /\ lapses \cap {"late", "swallowed", "unlogged"} = {}
      BY <2>2
    <3>2. InMap(u) \/ \E z \in calls : z.u = u /\ z.pc \in {"abort", "mark"}
      BY <3>1 DEF FailedInv
    <3>3. active[job[k.u].client] \in {k.u, None}
      BY <2>2
    <3>4. CASE InMap(u)
      BY <3>1, <3>3, <3>4, job[u].client \in Clients DEF TypesInv
    <3>5. CASE \E z \in calls : z.u = u /\ z.pc \in {"abort", "mark"}
      BY <3>1, <3>5
    <3> QED
      BY <3>2, <3>4, <3>5
  <2> QED
    BY <2>1, <2>2 DEF FailedInv
<1>17. LeftInv'  BY DEF LeftInv, TypesInv, CallInv, WireInv
<1>20. WaitInv'  BY DEF WaitInv
<1>21. RowsInv'
  <2> SUFFICES ASSUME Uncut', NEW t \in Uploads, rows'[t].key # None
               PROVE  Holds(rows[t].key, rows[t].sha)' /\ rows'[t].size = Len(rows'[t].sha)
    BY DEF RowsInv
  <2>1. rows[k.u].key = None /\ Uncut
    BY DEF UnreadyInv, Uncut
  <2>2. CASE t # k.u
    BY <1>5, <1>6, <2>1, <2>2 DEF RowsInv
  <2>3. CASE t = k.u
    <3>1. BlobsOf(k)
      BY <2>1 DEF BlobsInv
    <3> QED
      BY <1>5, <1>6, <2>1, <2>3, <3>1
  <2> QED
    BY <2>2, <2>3
<1> QED
  BY <1>7, <1>8, <1>9, <1>10, <1>11, <1>12, <1>13, <1>14, <1>15, <1>16, <1>17, <1>18, <1>19,
     <1>20, <1>21

\* An await of receiveUploadChunk or finishUpload throws.
LEMMA ThrowWorkKeeps ==
    ASSUME IInv, NEW k \in calls, Throw(k), k.pc \in {"write", "finish", "find", "remove",
           "update", "load"}
    PROVE  IInv'
<1>1. CallSound(k)
  BY CallFacts
<1> USE DEF CallSound
<1> DEFINE x == [k EXCEPT !.pc = "abort"]
<1>2. x \in Call /\ x.by = k.by /\ x.u = k.u /\ x.key = k.key /\ x.size = k.size /\ x.pc = "abort"
  BY <1>1 DEF Call, Pc
<1>3. calls' = (calls \ {k}) \cup {x}
  BY DEF Throw, FailCall, Goto
<1> HIDE DEF x
<1>4. /\ active' \in [Clients -> Uploads \cup {None}]
      /\ \A d \in Clients : active'[d] = IF d = job[k.u].client THEN None ELSE active[d]
      /\ lapses' \subseteq Lapse /\ (Straight' <=> Straight) /\ (Uncut' <=> Uncut)
      /\ Apart' => Apart /\ active[job[k.u].client] \in {k.u, None}
      /\ \A l \in {"late", "swallowed", "cut", "unlogged"} : l \in lapses' <=> l \in lapses
  BY <1>1 DEF Throw, FailCall, Forget, Lapsed, Lapse, Straight, Uncut, Apart, IInv, TypesInv
<1>5. faults' \in 0 .. MaxFaults /\ UNCHANGED <<tab, job, held, wire, open, progress, tmp, blobs, rows>>
  BY FilesAssumption DEF Throw, FailCall, tabVars, stored, IInv, TypesInv
<1>6. StateSound
  BY StateFacts
<1> USE FilesAssumption DEF StateSound, Untouched, Fresh, NoRow, Early, Whole, Stored, Closing,
    MySha, Size, Lapsed, CallOK, InMap, NotInMap, Unready, Mine, TmpOf, Holds, BlobsOf,
    ChunkOf, tabVars, stored, Lapse
<1>7. MineInv'
  <2> SUFFICES ASSUME Apart' PROVE MineInv!2'
    BY DEF MineInv
  <2>1. Apart /\ active[job[k.u].client] \in {k.u, None} /\ Straight /\ ~Closing(k)
    BY <1>1, <1>2, <1>3, <1>4, <1>5, <1>6 DEF IInv, MineInv
  <2>2. ASSUME NEW m \in wire', m.type \in {"next", "chunk"}
        PROVE  active'[m.client] = m.u
    BY <1>1, <1>2, <1>3, <1>4, <1>5, <1>6, <2>1, <2>2 DEF IInv, MineInv, OneInv
  <2>3. ASSUME NEW z \in calls', z.pc \in {"write", "written"}
        PROVE  InMap(z.u)' \/ ("cut" \in lapses' /\ job'[z.u].client \notin open')
    <3>1. z \in calls /\ z # k /\ ~Closing(z)
      BY <1>1, <1>2, <1>3, <1>4, <1>5, <1>6, <2>3
    <3>2. z.u # k.u
      BY <2>1, <3>1 DEF IInv, OneInv
    <3> QED
      BY <1>1, <1>2, <1>3, <1>4, <1>5, <1>6, <2>1, <2>3, <3>1, <3>2 DEF IInv, MineInv
  <2> QED
    BY <1>1, <1>2, <1>3, <1>4, <1>5, <1>6, <2>1, <2>2, <2>3
<1> USE <1>1, <1>2, <1>3, <1>4, <1>5, <1>6 DEF IInv
<1>8. TypesInv' /\ UploadInv' /\ WireInv' /\ CallInv'
  BY DEF TypesInv, UploadInv, WireInv, CallInv
<1>9. MapInv' /\ EarlyInv' /\ HashedInv' /\ OneInv'
  BY DEF MapInv, EarlyInv, HashedInv, OneInv
<1>10. OutInv'  BY DEF OutInv, OneInv, EarlyInv, MapInv
<1>11. ProgressInv'  BY DEF ProgressInv
<1>12. UnreadyInv' /\ ReadyInv'  BY DEF UnreadyInv, ReadyInv
<1>13. GoneInv' /\ AloneInv' /\ TmpFits' /\ BlobsInv'
  BY DEF GoneInv, AloneInv, TmpFits, BlobsInv
<1>14. RowsInv' /\ FailedInv'  BY DEF RowsInv, FailedInv, TypesInv, CallInv, WireInv
<1>15. LeftInv'  BY DEF LeftInv, TypesInv, CallInv, WireInv
<1>20. WaitInv'  BY DEF WaitInv
<1> QED
  BY <1>7, <1>8, <1>9, <1>10, <1>11, <1>12, <1>13, <1>14, <1>15, <1>20

\* The storage fails in failUpload.
LEMMA ThrowAbortKeeps ==
    ASSUME IInv, NEW k \in calls, Throw(k), k.pc = "abort"
    PROVE  IInv'
<1>1. CallSound(k)
  BY CallFacts
<1> USE DEF CallSound
<1> DEFINE x == [k EXCEPT !.pc = "mark"]
<1>2. x \in Call /\ x.by = k.by /\ x.u = k.u /\ x.key = k.key /\ x.size = k.size /\ x.pc = "mark"
  BY <1>1 DEF Call, Pc
<1>3. calls' = (calls \ {k}) \cup {x}
  BY DEF Throw, Goto
<1> HIDE DEF x
<1>4. lapses' = lapses \cup {"swallowed"} /\ UNCHANGED <<active, wire>>
  BY DEF Throw
<1>5. StateSound
  BY StateFacts
<1> USE FilesAssumption DEF StateSound, Untouched, Fresh, NoRow, NoJob, Early, Whole, Stored,
    Closing, MySha, Size, Lapsed, Straight, Uncut, Apart, CallOK, InMap, NotInMap, Unready,
    Mine, TmpOf, Holds, BlobsOf, ChunkOf, tabVars, stored, Lapse
<1> USE <1>1, <1>2, <1>3, <1>4, <1>5 DEF IInv, Throw
<1>6. TypesInv' /\ UploadInv' /\ WireInv' /\ CallInv'
  BY DEF TypesInv, UploadInv, WireInv, CallInv
<1>7. MapInv' /\ EarlyInv' /\ HashedInv' /\ OneInv'
  BY DEF MapInv, EarlyInv, HashedInv, OneInv
<1>8. OutInv' /\ ProgressInv' /\ UnreadyInv' /\ ReadyInv'
  BY DEF OutInv, ProgressInv, UnreadyInv, ReadyInv
<1>9. GoneInv' /\ AloneInv' /\ TmpFits' /\ BlobsInv'
  BY DEF GoneInv, AloneInv, TmpFits, BlobsInv
<1>10. RowsInv' /\ MineInv' /\ FailedInv' /\ LeftInv'
  BY DEF RowsInv, MineInv, FailedInv, LeftInv
<1>11. WaitInv'  BY DEF WaitInv
<1> QED
  BY <1>6, <1>7, <1>8, <1>9, <1>10, <1>11

\* The table file fails in failUpload.
LEMMA ThrowMarkKeeps ==
    ASSUME IInv, NEW k \in calls, Throw(k), k.pc = "mark"
    PROVE  IInv'
<1>1. CallSound(k)
  BY CallFacts
<1> USE DEF CallSound
<1> DEFINE n == Msg("error", k.u, 0)
<1>2. n \in Message /\ n.type = "error" /\ n.u = k.u /\ n.client = job[k.u].client /\ n.at = 0
  BY <1>1 DEF Msg, Message
<1>3. wire' = IF ~Closing(k) /\ n.client \in open THEN wire \cup {n} ELSE wire
  BY <1>1 DEF Throw, Regret, Sent, Closing
<1> HIDE DEF n
<1>4. calls' = calls \ {k} /\ lapses' = lapses \cup {"swallowed"} /\ UNCHANGED active
  BY DEF Throw, End
<1>5. StateSound
  BY StateFacts
<1> USE FilesAssumption DEF StateSound, Untouched, Fresh, NoRow, NoJob, Early, Whole, Stored,
    Closing, MySha, Size, Lapsed, Straight, Uncut, Apart, CallOK, InMap, NotInMap, Unready,
    Mine, TmpOf, Holds, BlobsOf, ChunkOf, tabVars, stored, Lapse
<1> USE <1>1, <1>2, <1>3, <1>4, <1>5 DEF IInv, Throw
<1>6. TypesInv' /\ UploadInv' /\ WireInv' /\ CallInv'
  BY DEF TypesInv, UploadInv, WireInv, CallInv
<1>7. MapInv' /\ EarlyInv' /\ HashedInv' /\ OneInv'
  BY DEF MapInv, EarlyInv, HashedInv, OneInv
<1>8. OutInv' /\ ProgressInv' /\ UnreadyInv' /\ ReadyInv'
  BY DEF OutInv, ProgressInv, UnreadyInv, ReadyInv
<1>9. GoneInv' /\ AloneInv' /\ TmpFits' /\ BlobsInv'
  BY DEF GoneInv, AloneInv, TmpFits, BlobsInv
<1>10. RowsInv' /\ MineInv' /\ FailedInv' /\ LeftInv'
  BY DEF RowsInv, MineInv, FailedInv, LeftInv
<1>11. WaitInv'  BY DEF WaitInv, MineInv, CallInv, OneInv
<1> QED
  BY <1>6, <1>7, <1>8, <1>9, <1>10, <1>11

-----------------------------------------------------------------------------
(* The theorems.                                                           *)

\* No upload has begun.
LEMMA InitHolds == Init => IInv
<1> SUFFICES ASSUME Init PROVE IInv
  OBVIOUS
<1> USE FilesAssumption DEF Init, NoJob, NoRow, Fresh
<1>1. /\ rows \in [Uploads -> Row] /\ progress \in [Uploads -> Progress]
      /\ job \in [Uploads -> Job]
      /\ \A u \in Uploads :
            rows[u] = NoRow /\ progress[u] = Fresh /\ job[u] = NoJob /\ tab[u] = "new"
      /\ \A c \in Clients : active[c] = None
  BY DEF Row, Progress, Job
<1>2. DOMAIN tmp = {} /\ DOMAIN blobs = {} /\ wire = {} /\ calls = {} /\ lapses = {}
  OBVIOUS
<1>3. TypesInv
  <2>1. tmp \in [{} -> Seq(Chunk)] /\ blobs \in [{} -> Seq(Chunk)]
    OBVIOUS
  <2>2. /\ tab \in [Uploads -> {"new", "waiting", "done", "error"}]
        /\ open \subseteq Clients /\ faults \in 0 .. MaxFaults /\ lapses \subseteq Lapse
        /\ active \in [Clients -> Uploads \cup {None}] /\ held \in [Uploads -> Holdup]
    BY DEF Holdup
  <2> QED
    BY <1>1, <1>2, <2>1, <2>2 DEF TypesInv
<1>4. UploadInv
  BY <1>1, <1>2 DEF UploadInv, Size
<1>5. WireInv /\ CallInv /\ MapInv /\ EarlyInv
  BY <1>1, <1>2 DEF WireInv, CallInv, MapInv, EarlyInv
<1>6. HashedInv /\ OneInv /\ OutInv /\ UnreadyInv /\ ReadyInv /\ GoneInv
  BY <1>1, <1>2 DEF HashedInv, OneInv, OutInv, UnreadyInv, ReadyInv, GoneInv
<1>7. ProgressInv
  <2>1. \A u \in Uploads : progress[u].hash = SubSeq(job[u].file, 1, progress[u].offset)
    <3>1. SubSeq(<<>>, 1, 0) = <<>>
      OBVIOUS
    <3> QED
      BY <1>1, <3>1
  <2> QED
    BY <1>2, <2>1 DEF ProgressInv
<1>8. AloneInv /\ TmpFits /\ BlobsInv /\ RowsInv
  BY <1>1, <1>2 DEF AloneInv, TmpFits, BlobsInv, RowsInv
<1>9. MineInv /\ FailedInv /\ LeftInv /\ WaitInv
  BY <1>1, <1>2 DEF MineInv, FailedInv, LeftInv, WaitInv, Straight, Apart
<1> QED
  BY <1>3, <1>4, <1>5, <1>6, <1>7, <1>8, <1>9 DEF IInv

\* The call of a handler goes on by one step.
LEMMA CallKeeps ==
    ASSUME IInv, NEW k \in calls, CallStep(k)
    PROVE  IInv'
<1>1. CASE LookUp(k) \/ Link(k) \/ Clear(k)
  BY <1>1, LookUpKeeps, LinkKeeps, ClearKeeps
<1>2. CASE Add(k)
  BY <1>2, AddEmptyKeeps, AddFirstKeeps
<1>3. CASE WriteChunk(k)
  BY <1>3, WriteChunkKeeps
<1>4. CASE CountChunk(k)
  <2>1. CASE progress[k.u].digested
    BY <1>4, <2>1, CountTwiceKeeps
  <2>2. CASE ~progress[k.u].digested /\ progress[k.u].offset + 1 < Size(k.u)
    BY <1>4, <2>2, CountMoreKeeps
  <2>3. CASE ~progress[k.u].digested /\ ~(progress[k.u].offset + 1 < Size(k.u))
    <3> DEFINE wrong == WrongHash(k.u, Append(progress[k.u].hash, ChunkOf(k.by)))
    <3>1. CASE wrong
      BY <1>4, <2>3, <3>1, CountWrongKeeps
    <3>2. CASE ~wrong
      BY <1>4, <2>3, <3>2, CountLastKeeps
    <3> QED
      BY <3>1, <3>2
  <2> QED
    BY <2>1, <2>2, <2>3
<1>5. CASE Finish(k) \/ Find(k) \/ RemoveCopy(k)
  BY <1>5, FinishKeeps, FindKeeps, RemoveCopyKeeps
<1>6. CASE UpdateRow(k) \/ LeaveMap(k) \/ Answer(k)
  BY <1>6, UpdateRowKeeps, LeaveMapKeeps, AnswerKeeps
<1>7. CASE Abort(k) \/ MarkFailed(k)
  BY <1>7, AbortKeeps, MarkFailedKeeps
<1>8. CASE Throw(k)
  <2>1. \/ k.pc \in {"lookup", "link", "linked", "clear", "add"}
        \/ k.pc \in {"write", "finish", "find", "remove", "update", "load"}
        \/ k.pc = "abort" \/ k.pc = "mark"
    BY <1>8 DEF Throw
  <2> QED
    BY <1>8, <2>1, ThrowStartKeeps, ThrowWorkKeeps, ThrowAbortKeeps, ThrowMarkKeeps
<1>9. CASE ThrowSaved(k)
  <2>1. k.pc = "link" \/ k.pc = "add" \/ k.pc = "update"
    BY <1>9 DEF ThrowSaved
  <2> QED
    BY <1>9, <2>1, ThrowSavedLinkKeeps, ThrowSavedAddKeeps, ThrowSavedUpdateKeeps
<1> QED
  BY <1>1, <1>2, <1>3, <1>4, <1>5, <1>6, <1>7, <1>8, <1>9 DEF CallStep

\* A message arrives.
LEMMA MessageKeeps ==
    ASSUME IInv, NEW m \in wire,
           \/ StartUpload(m) \/ Refuse(m) \/ TakeChunk(m)
           \/ SendUploadChunk(m) \/ UnreadChunk(m) \/ UploadDone(m) \/ UploadError(m)
    PROVE  IInv'
<1>1. CASE TakeChunk(m)
  BY <1>1, TakeNoneKeeps, TakeOverKeeps, TakeNextKeeps
<1>2. CASE StartUpload(m) \/ Refuse(m)
  BY <1>2, StartUploadKeeps, RefuseKeeps
<1>3. CASE SendUploadChunk(m) \/ UnreadChunk(m) \/ UploadDone(m) \/ UploadError(m)
  BY <1>3, SendUploadChunkKeeps, UnreadChunkKeeps, UploadDoneKeeps, UploadErrorKeeps
<1> QED
  BY <1>1, <1>2, <1>3

\* Whatever happens, the invariant goes on to hold.
LEMMA NextKeeps == IInv /\ [Next]_vars => IInv'
<1> SUFFICES ASSUME IInv, [Next]_vars PROVE IInv'
  OBVIOUS
<1>1. ASSUME NEW k \in calls, CallStep(k) PROVE IInv'
  BY <1>1, CallKeeps
<1>2. ASSUME NEW m \in wire,
             \/ StartUpload(m) \/ Refuse(m) \/ TakeChunk(m)
             \/ SendUploadChunk(m) \/ UnreadChunk(m) \/ UploadDone(m) \/ UploadError(m)
      PROVE  IInv'
  BY <1>2, MessageKeeps
<1>3. ASSUME NEW u \in Uploads, Upload(u) \/ Resolve(u) \/ RowRefused(u) PROVE IInv'
  BY <1>3, UploadKeeps, HeldKeeps
<1>4. ASSUME NEW c \in Clients, Close(c) PROVE IInv'
  BY <1>4, CloseIdleKeeps, CloseBusyKeeps
<1>5. CASE UNCHANGED vars
  <2> USE <1>5 DEF vars, tabVars, stored, IInv
  <2>1. TypesInv' /\ UploadInv' /\ WireInv' /\ CallInv' /\ MapInv' /\ EarlyInv' /\ HashedInv'
    BY DEF TypesInv, UploadInv, Size, WireInv, CallInv, CallOK, Closing, MapInv, EarlyInv,
           Untouched, HashedInv, MySha
  <2>2. OneInv' /\ OutInv' /\ ProgressInv' /\ UnreadyInv' /\ ReadyInv' /\ GoneInv'
    BY DEF OneInv, Straight, OutInv, NotInMap, Closing, ProgressInv, Size, UnreadyInv, Unready,
           ReadyInv, Mine, GoneInv
  <2>3. AloneInv' /\ TmpFits' /\ BlobsInv' /\ RowsInv'
    BY DEF Uncut, Straight, AloneInv, Closing, TmpFits, TmpOf, ChunkOf, BlobsInv, BlobsOf, Holds,
           RowsInv
  <2>4. MineInv' /\ FailedInv' /\ LeftInv' /\ WaitInv'
    BY DEF MineInv, Apart, Straight, InMap, FailedInv, LeftInv, WaitInv
  <2> QED
    BY <2>1, <2>2, <2>3, <2>4
<1> QED
  BY <1>1, <1>2, <1>3, <1>4, <1>5 DEF Next

LEMMA AlwaysIInv == Spec => []IInv
BY InitHolds, NextKeeps, PTL DEF Spec

\* The state is always of the shape TypeOK says: of the server's objects and rows,
\* of the files it stores, of messages and of the handlers under way.
THEOREM UploadsTyped == Spec => []TypeOK
<1>1. IInv => TypeOK
  <2> SUFFICES ASSUME IInv PROVE TypeOK
    OBVIOUS
  <2>1. wire \subseteq Message /\ calls \subseteq Call
    BY DEF IInv, WireInv, CallInv, CallOK
  <2>2. ASSUME NEW u \in Uploads
        PROVE  /\ progress[u].offset \in 0 .. Len(job[u].file)
               /\ progress[u].hash \in Seq(Chunk) /\ progress[u].digested \in BOOLEAN
               /\ rows[u].status \in {"none", "uploading", "ready", "failed"}
               /\ rows[u].status = "ready" => rows[u].key \in Uploads
    <3>1. progress[u] \in Progress /\ rows[u] \in Row
      BY DEF IInv, TypesInv
    <3>2. progress[u].offset <= Len(job[u].file)
          /\ (rows[u].status = "ready" => rows[u].key # None)
      BY DEF IInv, UploadInv, Size
    <3>3. Len(job[u].file) \in Nat
      <4>1. job[u].file \in Files \/ job[u].file = <<>>
        BY DEF IInv, TypesInv, Job
      <4> QED
        BY <4>1, ContentType
    <3> QED
      BY <3>1, <3>2, <3>3 DEF Progress, Row
  <2>3. \A storage \in {tmp, blobs} :
          DOMAIN storage \subseteq Uploads /\ \A u \in DOMAIN storage : storage[u] \in Seq(Chunk)
    BY DEF IInv, TypesInv
  <2>4. /\ tab \in [Uploads -> {"new", "waiting", "done", "error"}]
        /\ job \in [Uploads -> Job] /\ held \in [Uploads -> Holdup] /\ open \subseteq Clients
        /\ active \in [Clients -> Uploads \cup {None}]
        /\ faults \in 0 .. MaxFaults /\ lapses \subseteq Lapse
    BY DEF IInv, TypesInv
  <2> QED
    BY <2>1, <2>2, <2>3, <2>4 DEF TypeOK
<1> QED
  BY <1>1, AlwaysIInv, PTL

\* The bytes a ready row names are stored, and are those its hash and size were
\* computed of, however many uploads share a blob: finishUpload removes the second
\* copy of a file, never the one a row names.
THEOREM ReadyRowsAreWhole == Spec => []ReadyIsWhole
<1>1. IInv => ReadyIsWhole
  BY DEF IInv, RowsInv, UploadInv, Uncut, Straight, Holds, ReadyIsWhole
<1> QED
  BY <1>1, AlwaysIInv, PTL

\* upload() resolves only when its own file is in the table, and never, if it sent a
\* hash, for another file.
THEOREM DoneUploadsAreMine == Spec => []DoneIsMine
<1>1. IInv => DoneIsMine
  BY DEF IInv, HashedInv, MySha, ReadyInv, Straight, Mine, DoneIsMine
<1> QED
  BY <1>1, AlwaysIInv, PTL

\* An upload whose connection closed is marked failed and leaves no temporary file.
THEOREM InterruptedUploadsFail == Spec => []InterruptedIsFailed
<1>1. IInv => InterruptedIsFailed
  <2> SUFFICES ASSUME IInv, NEW u \in Uploads, job[u].client \notin open \cup {None},
                      \A k \in calls : k.u # u
               PROVE  /\ rows[u].status = "uploading" =>
                          lapses \cap {"overlap", "evicted", "late", "swallowed", "unlogged"} # {}
                      /\ u \in DOMAIN tmp =>
                          lapses \cap {"overlap", "evicted", "cut", "swallowed"} # {}
    BY DEF InterruptedIsFailed
  <2>1. ASSUME rows[u].status = "uploading"
        PROVE  lapses \cap {"overlap", "evicted", "late", "swallowed", "unlogged"} # {}
    <3>1. ~(Apart /\ lapses \cap {"late", "swallowed", "unlogged"} = {})
      BY <2>1 DEF IInv, FailedInv, InMap
    <3>2. PICK l \in {"overlap", "evicted", "late", "swallowed", "unlogged"} : l \in lapses
      BY <3>1 DEF Apart
    <3>3. l \in lapses \cap {"overlap", "evicted", "late", "swallowed", "unlogged"}
      BY <3>2
    <3> QED
      BY <3>3
  <2>2. ASSUME u \in DOMAIN tmp
        PROVE  lapses \cap {"overlap", "evicted", "cut", "swallowed"} # {}
    <3>1. ~(Apart /\ "cut" \notin lapses /\ "swallowed" \notin lapses)
      BY <2>2 DEF IInv, LeftInv, InMap
    <3>2. PICK l \in {"overlap", "evicted", "cut", "swallowed"} : l \in lapses
      BY <3>1 DEF Apart
    <3>3. l \in lapses \cap {"overlap", "evicted", "cut", "swallowed"}
      BY <3>2
    <3> QED
      BY <3>3
  <2> QED
    BY <2>1, <2>2
<1> QED
  BY <1>1, AlwaysIInv, PTL

\* When nothing is under way, whoever called upload() and is connected has its
\* answer.
THEOREM NobodyIsLeftWaiting == Spec => []NobodyWaits
<1>1. IInv => NobodyWaits
  BY DEF IInv, WaitInv, Apart, Pending, NobodyWaits
<1> QED
  BY <1>1, AlwaysIInv, PTL

-----------------------------------------------------------------------------
(***************************************************************************)
(* Downloads: what holds for any number of them, any contents, lost        *)
(* connections and failing reads.                                          *)
(*                                                                         *)
(* The argument is about a download that nothing has spoiled (Pure).  It   *)
(* is alone on its connection (AloneDownload), and at one of seven stages  *)
(* (StageInv): one message, frame or handler carries it, and says how much *)
(* of the file the tab has.  What other downloads leave behind, requests   *)
(* the server ignores and a slot that is never freed, does not reach it.   *)
(***************************************************************************)

ServerMessage ==
    [type : {"start"}, id : Downloads] \cup [type : {"next"}, id : Downloads, offset : Nat]
ClientMessage == [type : {"raw"}, chunk : ContentChunk] \cup [type : {"done", "error"}, id : Downloads]

\* Types, as DownloadTypeOK says them and where it is silent.
DownloadTypes ==
    /\ file \in [Downloads -> Contents]
    /\ status \in [Downloads -> {"new", "waiting", "resolved", "rejected"}]
    /\ chunks \in [Downloads -> Seq(ContentChunk)]
    /\ activeDownload \in Downloads \cup {NoDownload} /\ slot \in Downloads \cup {NoDownload}
    /\ online \in BOOLEAN
    /\ toServer \in Seq(ServerMessage) /\ toClient \in Seq(ClientMessage)
    /\ handlers \subseteq Handler
    /\ offset \in [Downloads -> Nat]
    /\ losses \in 0 .. MaxLosses
    /\ hitches \in [Downloads -> SUBSET {"crossed", "closed", "unread"}]

\* No offset is past the end of its file, and a read is before it.
OffsetInv ==
    /\ \A d \in Downloads : offset[d] <= Len(file[d])
    /\ \A c \in handlers : c.at < Len(file[c.id])

\* While the socket is closed only requests to start wait for it to open.
OfflineInv ==
    ~online => /\ toClient = <<>> /\ handlers = {} /\ slot = NoDownload
               /\ \A i \in DOMAIN toServer : toServer[i].type = "start"

\* No message of s is about d; the message m is the only one of s about d.
Silent(s, d) == \A i \in DOMAIN s : s[i].id # d
Only(s, d, m) == \E i \in DOMAIN s : s[i] = m /\ \A j \in DOMAIN s : s[j].id = d => j = i

\* Nothing is known of d but, perhaps, that it is asked for.
Unknown(d) ==
    /\ slot # d
    /\ \A c \in handlers : c.id # d
    /\ \A i \in DOMAIN toClient : toClient[i].type # "raw" => toClient[i].id # d
\* Nobody has heard of a download that is not begun.
NewInv ==
    \A d \in Downloads : status[d] = "new" =>
        /\ Unknown(d) /\ Silent(toServer, d) /\ activeDownload # d /\ chunks[d] = <<>>
        /\ hitches[d] = {}
\* A request to start is the first anybody hears of its download, and comes once.
StartInv ==
    \A i \in DOMAIN toServer : toServer[i].type = "start" =>
        /\ Alive(toServer[i].id) /\ Unknown(toServer[i].id)
        /\ \A j \in DOMAIN toServer : toServer[j] = toServer[i] => j = i

\* A frame is never counted to a download that has resolved.
ActiveInv ==
    \A d \in Downloads : activeDownload = d => status[d] # "resolved"

\* Nothing that spoils a download has happened to d; how much of it the tab has.
Pure(d) == Waiting(d) /\ hitches[d] = {}
Got(d) == Len(chunks[d])
Part(d) == Got(d) < Len(file[d]) /\ chunks[d] = SubSeq(file[d], 1, Got(d))

\* Frames are counted to d, and no other download can send any.
Alone(d) ==
    /\ activeDownload = d
    /\ \A x \in Downloads : x # d => ~Alive(x) /\ (slot = x => Silent(toServer, x))
    /\ \A c \in handlers : c.id = d

\* The stages of a download that is alone.
Starting(d) == /\ handlers = {} /\ toClient = <<>> /\ chunks[d] = <<>> /\ slot # d
               /\ Only(toServer, d, Start(d))
Sought(d) == /\ handlers = {[id |-> d, at |-> Finding]} /\ toClient = <<>> /\ chunks[d] = <<>>
             /\ slot = NoDownload /\ Silent(toServer, d)
Reading(d) == /\ handlers = {[id |-> d, at |-> Got(d)]} /\ toClient = <<>> /\ slot = d
              /\ Part(d) /\ Silent(toServer, d)
Framed(d) == /\ handlers = {} /\ Part(d) /\ Silent(toServer, d)
             /\ \/ /\ toClient = <<Frame(file[d][Got(d) + 1])>> /\ slot = d
                   /\ Got(d) + 1 < Len(file[d])
                \/ /\ toClient = <<Frame(file[d][Got(d) + 1]), Done(d)>> /\ slot = NoDownload
                   /\ Got(d) + 1 = Len(file[d])
Asking(d) == /\ handlers = {} /\ toClient = <<>> /\ slot = d /\ Part(d)
             /\ Only(toServer, d, ContinueAt(d, Got(d)))
Ending(d) == /\ handlers = {} /\ toClient = <<Done(d)>> /\ slot = NoDownload
             /\ chunks[d] = file[d]
Refused(d) == /\ handlers = {} /\ toClient = <<Failed(d)>> /\ slot # d /\ Silent(toServer, d)

Stage(d) == Starting(d) \/ Sought(d) \/ Reading(d) \/ Framed(d) \/ Asking(d) \/ Ending(d)
            \/ Refused(d)
AloneDownload == \A d \in Downloads : Pure(d) => Alone(d)
StageInv == \A d \in Downloads : Pure(d) => Stage(d)

\* The download the server remembers goes on, or is one of the named hitches.
SlotInv == slot # NoDownload => Pure(slot) \/ hitches[slot] \cap {"crossed", "unread"} # {}
\* So is one that is being looked for or read.
HandlerInv ==
    \A c \in handlers : Pure(c.id) \/ hitches[c.id] \cap {"crossed", "unread"} # {}

DownloadInv == /\ DownloadTypes /\ OffsetInv /\ OfflineInv /\ NewInv /\ StartInv /\ ActiveInv
        /\ AloneDownload /\ StageInv /\ SlotInv /\ HandlerInv /\ ResolvedIsTheFile

LEMMA DownloadContentType ==
    ASSUME NEW f \in Contents
    PROVE  f \in Seq(ContentChunk) /\ Len(f) \in Nat /\ \A i \in 1 .. Len(f) : f[i] \in ContentChunk
<1>1. PICK S : f \in Seq(S)
  BY DownloadsAssumption
<1>2. \A i \in 1 .. Len(f) : f[i] \in ContentChunk
  BY <1>1 DEF ContentChunk
<1> QED
  BY <1>1, <1>2

\* What taking the first message of a queue does, and adding one at its end.
LEMMA Popped ==
    ASSUME NEW T, NEW s \in Seq(T), s # <<>>
    PROVE  /\ Head(s) = s[1] /\ s[1] \in T /\ 1 \in DOMAIN s /\ Tail(s) \in Seq(T)
           /\ \A i \in DOMAIN Tail(s) :
                i \in Nat /\ i + 1 \in DOMAIN s /\ i + 1 # 1 /\ Tail(s)[i] = s[i + 1]
           /\ \A i \in DOMAIN s : i \in Nat /\ (i # 1 => i - 1 \in DOMAIN Tail(s) /\ Tail(s)[i - 1] = s[i])
OBVIOUS

LEMMA Pushed ==
    ASSUME NEW T, NEW s \in Seq(T), NEW m \in T
    PROVE  /\ Append(s, m) \in Seq(T) /\ Append(s, m) # <<>>
           /\ Len(s) + 1 \in DOMAIN Append(s, m) /\ Append(s, m)[Len(s) + 1] = m
           /\ \A i \in DOMAIN s :
                i \in DOMAIN Append(s, m) /\ Append(s, m)[i] = s[i] /\ i # Len(s) + 1
           /\ \A i \in DOMAIN Append(s, m) : i \in DOMAIN s \/ i = Len(s) + 1
OBVIOUS

LEMMA Concatenated ==
    ASSUME NEW T, NEW s \in Seq(T), NEW f \in T, NEW m \in T
    PROVE  /\ s \o <<>> \o <<m>> = Append(s, m)
           /\ s \o <<f>> \o <<m>> = Append(Append(s, f), m)
OBVIOUS

LEMMA FilePrefix ==
    ASSUME NEW T, NEW s \in Seq(T), NEW n \in Nat, n < Len(s)
    PROVE  SubSeq(s, 1, n + 1) = Append(SubSeq(s, 1, n), s[n + 1])
OBVIOUS

LEMMA EntireFile ==
    ASSUME NEW T, NEW s \in Seq(T)
    PROVE  SubSeq(s, 1, Len(s)) = s
OBVIOUS

\* Queues of one message or two.
LEMMA Short ==
    ASSUME NEW T, NEW f \in T, NEW m \in T
    PROVE  /\ Append(<<>>, m) = <<m>> /\ Append(Append(<<>>, f), m) = <<f, m>>
           /\ Tail(<<m>>) = <<>> /\ Tail(<<f, m>>) = <<m>>
           /\ <<m>>[1] = m /\ <<f, m>>[1] = f /\ <<m>> # <<>> /\ <<f, m>> # <<>>
<1>1. Append(<<>>, m) = <<m>>
  OBVIOUS
<1>2. Append(<<f>>, m) = <<f, m>>
  <2>1. <<f>> \in Seq(T) /\ <<f, m>> \in Seq(T) /\ Append(<<f>>, m) \in Seq(T)
    OBVIOUS
  <2>2. Len(Append(<<f>>, m)) = 2 /\ Len(<<f, m>>) = 2
    BY <2>1
  <2>3. \A i \in 1 .. 2 : Append(<<f>>, m)[i] = <<f, m>>[i]
    BY <2>1
  <2> QED
    BY <2>1, <2>2, <2>3, SeqEqual
<1>3. Append(<<>>, f) = <<f>>
  OBVIOUS
<1>4. Tail(<<m>>) = <<>>
  OBVIOUS
<1>5. Tail(<<f, m>>) = <<m>>
  OBVIOUS
<1>6. <<m>>[1] = m /\ <<f, m>>[1] = f
  OBVIOUS
<1>7. <<m>> # <<>> /\ <<f, m>> # <<>>
  OBVIOUS
<1> QED
  BY <1>1, <1>2, <1>3, <1>4, <1>5, <1>6, <1>7

-----------------------------------------------------------------------------
(* The tab.                                                                *)

LEMMA DownloadKeeps ==
    ASSUME DownloadInv, NEW d \in Downloads, Download(d)
    PROVE  DownloadInv'
<1>1. /\ toServer' \in Seq(ServerMessage) /\ toServer' # <<>>
      /\ Len(toServer) + 1 \in DOMAIN toServer' /\ toServer'[Len(toServer) + 1] = Start(d)
      /\ \A i \in DOMAIN toServer : i \in DOMAIN toServer' /\ toServer'[i] = toServer[i] /\ i # Len(toServer) + 1
      /\ \A i \in DOMAIN toServer' : i \in DOMAIN toServer \/ i = Len(toServer) + 1
      /\ toServer' = Append(toServer, Start(d))
  <2>1. Start(d) \in ServerMessage
    BY DEF ServerMessage, Start
  <2>2. toServer \in Seq(ServerMessage) /\ toServer' = Append(toServer, Start(d))
    BY DEF Download, DownloadInv, DownloadTypes
  <2> QED
    BY <2>1, <2>2, Pushed
<1>2. /\ status[d] = "new" /\ status' \in [Downloads -> {"new", "waiting", "resolved", "rejected"}]
      /\ status'[d] = "waiting" /\ \A x \in Downloads : x # d => status'[x] = status[x]
      /\ hitches' \in [Downloads -> SUBSET {"crossed", "closed", "unread"}]
      /\ \A x \in Downloads :
            hitches'[x] = IF Busy /\ (x = d \/ Alive(x)) THEN hitches[x] \cup {"crossed"} ELSE hitches[x]
      /\ activeDownload' = d
      /\ UNCHANGED <<file, chunks, online, toClient, slot, offset, handlers, losses>>
  BY DEF Download, DownloadInv, DownloadTypes, server
<1> USE DEF Alive, Waiting, Pure, Got, Part, Start, ContinueAt, Frame, Done, Failed, Finding,
           Unknown, Silent, Only
<1>3. DownloadTypes'
  BY <1>1, <1>2 DEF DownloadInv, DownloadTypes
<1>4. OffsetInv' /\ OfflineInv'
  BY <1>1, <1>2 DEF DownloadInv, OffsetInv, OfflineInv
<1>5. NewInv'
  BY <1>1, <1>2 DEF DownloadInv, NewInv
<1>6. ResolvedIsTheFile'
  BY <1>1, <1>2 DEF DownloadInv, ResolvedIsTheFile
<1>7. ActiveInv'
  BY <1>1, <1>2 DEF DownloadInv, ActiveInv
<1>8. SlotInv'
  BY <1>1, <1>2, DownloadsAssumption DEF DownloadInv, SlotInv, AloneDownload, Alone, DownloadTypes,
     OfflineInv, NewInv, StartInv
<1>9. StartInv'
  <2> SUFFICES ASSUME NEW i \in DOMAIN toServer', toServer'[i].type = "start"
               PROVE  /\ Alive(toServer[i].id)' /\ Unknown(toServer[i].id)'
                      /\ \A j \in DOMAIN toServer' : toServer'[j] = toServer'[i] => j = i
    BY DEF StartInv
  <2>1. PICK e : e = toServer'[i].id
    OBVIOUS
  <2>2. hitches[d] = {} /\ Unknown(d) /\ Silent(toServer, d)
    BY <1>1, <1>2 DEF DownloadInv, NewInv
  <2>3. CASE i = Len(toServer) + 1
    <3>1. e = d /\ toServer'[i] = Start(d)
      BY <1>1, <1>2, <2>1, <2>3
    <3>2. Alive(d)' /\ Unknown(d)'
      BY <1>1, <1>2, <2>2 DEF Unknown
    <3>3. \A j \in DOMAIN toServer' : toServer'[j] = toServer'[i] => j = i
      BY <1>1, <1>2, <2>2, <2>3, <3>1
    <3> QED
      BY <2>1, <3>1, <3>2, <3>3 DEF Unknown
  <2>4. CASE i \in DOMAIN toServer
    <3>1. toServer'[i] = toServer[i] /\ toServer[i].type = "start" /\ e = toServer[i].id
      BY <1>1, <1>2, <2>1, <2>4
    <3>2. Alive(e) /\ Unknown(e) /\ e \in Downloads /\ e # d
      BY <2>2, <2>4, <3>1 DEF DownloadInv, DownloadTypes, StartInv, ServerMessage
    <3>3. Alive(e)' /\ Unknown(e)'
      BY <1>1, <1>2, <3>2 DEF Unknown
    <3>4. \A j \in DOMAIN toServer' : toServer'[j] = toServer'[i] => j = i
      BY <1>1, <1>2, <2>2, <2>4, <3>1, <3>2 DEF DownloadInv, StartInv
    <3> QED
      BY <2>1, <3>1, <3>3, <3>4 DEF Unknown
  <2> QED
    BY <1>1, <1>2, <2>3, <2>4
<1>10. AloneDownload'
  <2> SUFFICES ASSUME NEW x \in Downloads, Pure(x)'
               PROVE  Alone(x)'
    BY DEF AloneDownload
  <2>1. x = d /\ ~Busy
    <3>1. ~(Busy /\ (x = d \/ Alive(x)))
      BY <1>1, <1>2
    <3>2. x # d => Alive(x)
      BY <1>1, <1>2, <3>1
    <3>3. Alive(x) => Busy
      BY DEF Busy
    <3> QED
      BY <3>1, <3>2, <3>3
  <2>2. ASSUME NEW y \in Downloads, y # x
        PROVE  ~Alive(y)' /\ (slot' = y => Silent(toServer', y))
    <3>1. ~Alive(y) /\ \A i \in DOMAIN toServer : toServer[i].id # slot
      BY <2>1 DEF Busy
    <3>2. ~Alive(y)'
      BY <1>1, <1>2, <2>1, <2>2, <3>1
    <3>3. slot' = y => Silent(toServer', y)
      BY <1>1, <1>2, <2>1, <2>2, <3>1
    <3> QED
      BY <3>2, <3>3
  <2>3. handlers' = {}
    BY <1>1, <1>2, <2>1 DEF Busy
  <2> QED
    BY <1>1, <1>2, <2>1, <2>2, <2>3 DEF Alone
<1>11. StageInv'
  <2> SUFFICES ASSUME NEW x \in Downloads, Pure(x)'
               PROVE  Stage(x)'
    BY DEF StageInv
  <2>1. x = d /\ ~Busy
    <3>1. ~(Busy /\ (x = d \/ Alive(x)))
      BY <1>1, <1>2
    <3>2. x # d => Alive(x)
      BY <1>1, <1>2, <3>1
    <3>3. Alive(x) => Busy
      BY DEF Busy
    <3> QED
      BY <3>1, <3>2, <3>3
  <2>2. Unknown(d) /\ Silent(toServer, d) /\ chunks[d] = <<>>
    BY <1>1, <1>2 DEF DownloadInv, NewInv
  <2>3. handlers = {} /\ toClient = <<>>
    BY <2>1 DEF Busy
  <2>4. Only(toServer', d, Start(d))
    BY <1>1, <1>2, <2>2
  <2> QED
    BY <1>1, <1>2, <2>1, <2>2, <2>3, <2>4 DEF Unknown, Stage, Starting
<1>12. HandlerInv'
  <2> SUFFICES ASSUME NEW k \in handlers'
               PROVE  Pure(k.id)' \/ hitches'[k.id] \cap {"crossed", "unread"} # {}
    BY DEF HandlerInv
  <2>1. k \in handlers /\ k.id \in Downloads /\ k.id # d
    BY <1>1, <1>2 DEF DownloadInv, DownloadTypes, Handler, NewInv, Unknown
  <2>2. CASE Pure(k.id)
    BY <1>1, <1>2, <2>1, <2>2
  <2>3. CASE hitches[k.id] \cap {"crossed", "unread"} # {}
    BY <1>1, <1>2, <2>1, <2>3
  <2> QED
    BY <2>1, <2>2, <2>3 DEF DownloadInv, HandlerInv
<1> QED
  BY <1>3, <1>4, <1>5, <1>6, <1>7, <1>8, <1>9, <1>10, <1>11, <1>12 DEF DownloadInv

LEMMA FrameDroppedKeeps ==
    ASSUME DownloadInv, ReceiveFrame, activeDownload = NoDownload
    PROVE  DownloadInv'
<1>1. /\ toClient \in Seq(ClientMessage) /\ toClient # <<>> /\ toClient' = Tail(toClient)
      /\ Head(toClient) = toClient[1] /\ toClient[1] \in ClientMessage /\ 1 \in DOMAIN toClient
      /\ toClient' \in Seq(ClientMessage)
      /\ \A i \in DOMAIN toClient' : i \in Nat /\ i + 1 \in DOMAIN toClient /\ i + 1 # 1 /\ toClient'[i] = toClient[i + 1]
      /\ \A i \in DOMAIN toClient : i \in Nat /\ (i # 1 => i - 1 \in DOMAIN toClient' /\ toClient'[i - 1] = toClient[i])
  <2>1. toClient \in Seq(ClientMessage) /\ toClient # <<>> /\ toClient' = Tail(toClient)
    BY DEF ReceiveFrame, Receives, DownloadInv, DownloadTypes
  <2> QED
    BY <2>1, Popped
<1>2. /\ toClient[1].type = "raw" /\ online
      /\ UNCHANGED <<file, online, slot, offset, handlers, losses, hitches>>
  BY <1>1 DEF ReceiveFrame, Receives, server, DownloadInv, OfflineInv
<1>3. UNCHANGED <<status, activeDownload, chunks, toServer>>
  BY DEF ReceiveFrame
<1> USE DEF Alive, Waiting, Pure, Got, Part, Start, ContinueAt, Frame, Done, Failed, Finding,
           Unknown, Silent, Only
<1>4. DownloadTypes' /\ OffsetInv' /\ OfflineInv' /\ NewInv' /\ StartInv'
  BY <1>1, <1>2, <1>3 DEF DownloadInv, DownloadTypes, OffsetInv, OfflineInv, NewInv, StartInv
<1>5. /\ ActiveInv' /\ AloneDownload' /\ SlotInv' /\ HandlerInv'
      /\ ResolvedIsTheFile'
  BY <1>1, <1>2, <1>3 DEF DownloadInv, ActiveInv, AloneDownload, Alone, SlotInv, HandlerInv,
     ResolvedIsTheFile
<1>6. StageInv'
  <2> SUFFICES ASSUME NEW x \in Downloads, Pure(x)'
               PROVE  Stage(x)'
    BY DEF StageInv
  <2>1. Pure(x) /\ Alone(x) /\ Stage(x)
    BY <1>1, <1>2, <1>3 DEF DownloadInv, AloneDownload, StageInv
  <2> QED
    BY <1>1, <1>2, <1>3, <2>1, DownloadsAssumption DEF Alone
<1> QED
  BY <1>4, <1>5, <1>6 DEF DownloadInv

LEMMA FrameCountedKeeps ==
    ASSUME DownloadInv, ReceiveFrame, activeDownload # NoDownload
    PROVE  DownloadInv'
<1>1. /\ toClient \in Seq(ClientMessage) /\ toClient # <<>> /\ toClient' = Tail(toClient)
      /\ Head(toClient) = toClient[1] /\ toClient[1] \in ClientMessage /\ 1 \in DOMAIN toClient
      /\ toClient' \in Seq(ClientMessage)
      /\ \A i \in DOMAIN toClient' : i \in Nat /\ i + 1 \in DOMAIN toClient /\ i + 1 # 1 /\ toClient'[i] = toClient[i + 1]
      /\ \A i \in DOMAIN toClient : i \in Nat /\ (i # 1 => i - 1 \in DOMAIN toClient' /\ toClient'[i - 1] = toClient[i])
  <2>1. toClient \in Seq(ClientMessage) /\ toClient # <<>> /\ toClient' = Tail(toClient)
    BY DEF ReceiveFrame, Receives, DownloadInv, DownloadTypes
  <2> QED
    BY <2>1, Popped
<1>2. /\ toClient[1].type = "raw" /\ online
      /\ UNCHANGED <<file, online, slot, offset, handlers, losses, hitches>>
  BY <1>1 DEF ReceiveFrame, Receives, server, DownloadInv, OfflineInv
<1> DEFINE d == activeDownload
<1>3. d \in Downloads /\ chunks[d] \in Seq(ContentChunk) /\ Len(chunks[d]) \in Nat
  BY DEF DownloadInv, DownloadTypes
<1>4. toClient[1].chunk \in ContentChunk
  BY <1>1, <1>2 DEF ClientMessage
<1>5. /\ toServer' \in Seq(ServerMessage) /\ toServer' # <<>>
      /\ Len(toServer) + 1 \in DOMAIN toServer' /\ toServer'[Len(toServer) + 1] = ContinueAt(d, Len(chunks[d]) + 1)
      /\ \A i \in DOMAIN toServer : i \in DOMAIN toServer' /\ toServer'[i] = toServer[i] /\ i # Len(toServer) + 1
      /\ \A i \in DOMAIN toServer' : i \in DOMAIN toServer \/ i = Len(toServer) + 1
      /\ toServer' = Append(toServer, ContinueAt(d, Len(chunks[d]) + 1))
  <2>1. ContinueAt(d, Len(chunks[d]) + 1) \in ServerMessage
    BY <1>3 DEF ServerMessage, ContinueAt
  <2>2. toServer \in Seq(ServerMessage) /\ toServer' = Append(toServer, ContinueAt(d, Len(chunks[d]) + 1))
    BY <1>3 DEF ReceiveFrame, DownloadInv, DownloadTypes
  <2> QED
    BY <2>1, <2>2, Pushed
<1>6. /\ chunks' \in [Downloads -> Seq(ContentChunk)] /\ chunks'[d] = Append(chunks[d], toClient[1].chunk)
      /\ \A x \in Downloads : x # d => chunks'[x] = chunks[x]
      /\ UNCHANGED <<status, activeDownload>>
  <2>1. Append(chunks[d], toClient[1].chunk) \in Seq(ContentChunk)
    BY <1>3, <1>4
  <2>2. chunks' = [chunks EXCEPT ![d] = Append(chunks[d], toClient[1].chunk)] /\ UNCHANGED <<status, activeDownload>>
    BY <1>1, <1>3 DEF ReceiveFrame
  <2> QED
    BY <1>3, <2>1, <2>2 DEF DownloadInv, DownloadTypes
<1> HIDE DEF d
<1> USE DEF Alive, Waiting, Pure, Got, Part, Start, ContinueAt, Frame, Done, Failed, Finding,
           Unknown, Silent, Only
<1>7. DownloadTypes' /\ OffsetInv'
  BY <1>1, <1>2, <1>3, <1>4, <1>5, <1>6 DEF DownloadInv, DownloadTypes, OffsetInv
<1>8. OfflineInv' /\ StartInv'
  BY <1>1, <1>2, <1>3, <1>4, <1>5, <1>6 DEF DownloadInv, OfflineInv, StartInv
<1>9. ActiveInv' /\ SlotInv'
  BY <1>1, <1>2, <1>3, <1>4, <1>5, <1>6 DEF DownloadInv, ActiveInv, SlotInv
<1>10. HandlerInv'
  BY <1>1, <1>2, <1>3, <1>4, <1>5, <1>6 DEF DownloadInv, HandlerInv
<1>11. NewInv'
  <2> SUFFICES ASSUME NEW x \in Downloads, status'[x] = "new"
               PROVE  /\ Unknown(x)' /\ Silent(toServer, x)' /\ activeDownload' # x
                      /\ chunks'[x] = <<>> /\ hitches'[x] = {}
    BY DEF NewInv
  <2>1. /\ status[x] = "new" /\ activeDownload # x /\ chunks[x] = <<>> /\ hitches[x] = {}
        /\ Unknown(x) /\ Silent(toServer, x)
    BY <1>1, <1>2, <1>3, <1>4, <1>5, <1>6 DEF DownloadInv, NewInv
  <2>2. x # d
    BY <1>1, <1>2, <1>3, <1>4, <1>5, <1>6, <2>1 DEF Unknown, d
  <2>3. Unknown(x)'
    BY <1>1, <1>2, <1>3, <1>4, <1>5, <1>6, <2>1, <2>2, DownloadsAssumption DEF Unknown
  <2>4. Silent(toServer, x)'
    BY <1>1, <1>2, <1>3, <1>4, <1>5, <1>6, <2>1, <2>2
  <2> QED
    BY <1>1, <1>2, <1>3, <1>4, <1>5, <1>6, <2>1, <2>2, <2>3, <2>4
<1>12. AloneDownload'
  <2> SUFFICES ASSUME NEW x \in Downloads, Pure(x)'
               PROVE  Alone(x)'
    BY DEF AloneDownload
  <2>1. Pure(x) /\ Alone(x) /\ Stage(x)
    BY <1>1, <1>2, <1>3, <1>4, <1>5, <1>6 DEF DownloadInv, AloneDownload, StageInv
  <2>2. x = d
    BY <2>1 DEF Alone, d
  <2>3. ASSUME NEW y \in Downloads, y # x
        PROVE  ~Alive(y)' /\ (slot' = y => Silent(toServer', y))
    BY <1>1, <1>2, <1>3, <1>4, <1>5, <1>6, <2>1, <2>2, <2>3 DEF Alone
  <2> QED
    BY <1>1, <1>2, <1>3, <1>4, <1>5, <1>6, <2>1, <2>2, <2>3 DEF Alone
<1>13. StageInv'
  <2> SUFFICES ASSUME NEW x \in Downloads, Pure(x)'
               PROVE  Stage(x)'
    BY DEF StageInv
  <2>1. Pure(x) /\ Alone(x) /\ Stage(x)
    BY <1>1, <1>2, <1>3, <1>4, <1>5, <1>6 DEF DownloadInv, AloneDownload, StageInv
  <2>2. x = d
    BY <2>1 DEF Alone, d
  <2>3. Framed(x)
    BY <1>1, <1>2, <1>3, <1>4, <1>5, <1>6, <2>1
      DEF Stage, Starting, Sought, Reading, Framed, Asking, Ending, Refused
  <2>4. file[x] \in Seq(ContentChunk) /\ Len(file[x]) \in Nat /\ chunks[x] \in Seq(ContentChunk) /\ Got(x) \in Nat
    BY DownloadContentType DEF DownloadInv, DownloadTypes
  <2>5. Silent(toServer, x) /\ Part(x) /\ handlers' = {}
        /\ toClient[1] = Frame(file[x][Got(x) + 1])
    BY <1>1, <1>2, <1>3, <1>4, <1>5, <1>6, <2>3 DEF Framed
  <2>6. chunks'[x] = SubSeq(file[x], 1, Got(x) + 1) /\ Got(x)' = Got(x) + 1
    <3>1. chunks'[x] = Append(chunks[x], toClient[1].chunk)
      BY <1>1, <1>2, <1>3, <1>4, <1>5, <1>6, <2>2
    <3>2. toClient[1].chunk = file[x][Got(x) + 1]
      BY <2>5
    <3>3. SubSeq(file[x], 1, Got(x) + 1) = Append(SubSeq(file[x], 1, Got(x)), file[x][Got(x) + 1])
      BY <2>4, <2>5, FilePrefix
    <3>4. Len(chunks'[x]) = Len(chunks[x]) + 1
      BY <1>4, <2>4, <3>1
    <3> QED
      BY <2>5, <3>1, <3>2, <3>3, <3>4
  <2>7. CASE toClient = <<Frame(file[x][Got(x) + 1])>> /\ slot = x /\ Got(x) + 1 < Len(file[x])
    <3>1. toClient' = <<>>
      BY <1>1, <2>7
    <3>2. Only(toServer', x, ContinueAt(x, Got(x) + 1))
      <4>1. toServer'[Len(toServer) + 1] = ContinueAt(x, Got(x) + 1)
        BY <1>1, <1>2, <1>3, <1>4, <1>5, <1>6, <2>2
      <4>2. \A j \in DOMAIN toServer' : toServer'[j].id = x => j = Len(toServer) + 1
        BY <1>1, <1>2, <1>3, <1>4, <1>5, <1>6, <2>5
      <4> QED
        BY <1>1, <1>2, <1>3, <1>4, <1>5, <1>6, <4>1, <4>2
    <3> HIDE DEF Only
    <3>3. Part(x)'
      BY <1>1, <1>2, <1>3, <1>4, <1>5, <1>6, <2>6, <2>7
    <3>4. Only(toServer, x, ContinueAt(x, Got(x)))'
      BY <2>6, <3>2 DEF Only
    <3> QED
      BY <1>1, <1>2, <1>3, <1>4, <1>5, <1>6, <2>5, <2>7, <3>1, <3>3, <3>4 DEF Stage, Asking
  <2>8. CASE /\ toClient = <<Frame(file[x][Got(x) + 1]), Done(x)>> /\ slot = NoDownload
             /\ Got(x) + 1 = Len(file[x])
    <3>1. toClient' = <<Done(x)>>
      BY <1>1, <2>8
    <3>2. chunks'[x] = file[x]
      BY <2>4, <2>6, <2>8, EntireFile
    <3> QED
      BY <1>1, <1>2, <1>3, <1>4, <1>5, <1>6, <2>5, <2>8, <3>1, <3>2 DEF Stage, Ending
  <2> QED
    BY <2>3, <2>7, <2>8 DEF Framed
<1>14. ResolvedIsTheFile'
  <2> SUFFICES ASSUME NEW x \in Downloads, status'[x] = "resolved", hitches'[x] = {}
               PROVE  chunks'[x] = file'[x]
    BY DEF ResolvedIsTheFile
  <2>1. x # d
    BY <1>1, <1>2, <1>3, <1>4, <1>5, <1>6 DEF DownloadInv, ActiveInv, d
  <2> QED
    BY <1>1, <1>2, <1>3, <1>4, <1>5, <1>6, <2>1 DEF DownloadInv, ResolvedIsTheFile
<1> QED
  BY <1>7, <1>8, <1>9, <1>10, <1>11, <1>12, <1>13, <1>14 DEF DownloadInv

LEMMA DoneKeeps ==
    ASSUME DownloadInv, ReceiveDone
    PROVE  DownloadInv'
<1>1. /\ toClient \in Seq(ClientMessage) /\ toClient # <<>> /\ toClient' = Tail(toClient)
      /\ Head(toClient) = toClient[1] /\ toClient[1] \in ClientMessage /\ 1 \in DOMAIN toClient
      /\ toClient' \in Seq(ClientMessage)
      /\ \A i \in DOMAIN toClient' : i \in Nat /\ i + 1 \in DOMAIN toClient /\ i + 1 # 1 /\ toClient'[i] = toClient[i + 1]
      /\ \A i \in DOMAIN toClient : i \in Nat /\ (i # 1 => i - 1 \in DOMAIN toClient' /\ toClient'[i - 1] = toClient[i])
  <2>1. toClient \in Seq(ClientMessage) /\ toClient # <<>> /\ toClient' = Tail(toClient)
    BY DEF ReceiveDone, Receives, DownloadInv, DownloadTypes
  <2> QED
    BY <2>1, Popped
<1>2. /\ toClient[1].type = "done" /\ online
      /\ UNCHANGED <<file, online, slot, offset, handlers, losses, hitches>>
  BY <1>1 DEF ReceiveDone, Receives, server, DownloadInv, OfflineInv
<1> DEFINE d == toClient[1].id
<1>3. d \in Downloads /\ toClient[1] = Done(d)
  BY <1>1, <1>2 DEF ClientMessage, Done
<1>4. /\ status' \in [Downloads -> {"new", "waiting", "resolved", "rejected"}]
      /\ status'[d] = IF Waiting(d) THEN "resolved" ELSE status[d]
      /\ \A x \in Downloads : x # d => status'[x] = status[x]
      /\ activeDownload' = IF Waiting(d) /\ activeDownload = d THEN NoDownload ELSE activeDownload
      /\ UNCHANGED <<chunks, toServer>>
  BY <1>1, <1>3 DEF ReceiveDone, DownloadInv, DownloadTypes
<1> HIDE DEF d
<1> USE DEF Alive, Waiting, Pure, Got, Part, Start, ContinueAt, Frame, Done, Failed, Finding,
           Unknown, Silent, Only
<1>5. DownloadTypes' /\ OffsetInv' /\ OfflineInv' /\ NewInv'
  BY <1>1, <1>2, <1>3, <1>4, DownloadsAssumption DEF DownloadInv, DownloadTypes, OffsetInv,
     OfflineInv, NewInv, StartInv
<1>6. StageInv'
  BY <1>1, <1>2, <1>3, <1>4 DEF DownloadInv, StageInv, Stage, Starting, Sought, Reading,
     Framed, Asking, Ending, Refused
<1>7. ActiveInv'
  BY <1>1, <1>2, <1>3, <1>4, DownloadsAssumption DEF DownloadInv, ActiveInv, DownloadTypes,
     OfflineInv, NewInv, StartInv
<1>8. AloneDownload'
  BY <1>1, <1>2, <1>3, <1>4 DEF DownloadInv, AloneDownload, Alone
<1>9. StartInv'
  <2> SUFFICES ASSUME NEW i \in DOMAIN toServer', toServer'[i].type = "start"
               PROVE  /\ Alive(toServer[i].id)' /\ Unknown(toServer[i].id)'
                      /\ \A j \in DOMAIN toServer' : toServer'[j] = toServer'[i] => j = i
    BY DEF StartInv
  <2>1. PICK e : e = toServer'[i].id
    OBVIOUS
  <2>2. i \in DOMAIN toServer /\ toServer[i].type = "start" /\ e = toServer[i].id
    BY <1>1, <1>2, <1>3, <1>4, <2>1
  <2>3. Alive(e) /\ Unknown(e) /\ e \in Downloads
    BY <2>2 DEF DownloadInv, DownloadTypes, StartInv, ServerMessage
  <2>4. \A j \in DOMAIN toServer' : toServer'[j] = toServer'[i] => j = i
    BY <1>1, <1>2, <1>3, <1>4, <2>2 DEF DownloadInv, StartInv
  <2>5. e # d
    BY <1>1, <1>2, <1>3, <1>4, <2>2, <2>3 DEF Unknown
  <2>6. Alive(e)'
    BY <1>1, <1>2, <1>3, <1>4, <2>3, <2>5
  <2>7. Unknown(e)'
    BY <1>1, <1>2, <1>3, <1>4, <2>3, <2>5, DownloadsAssumption DEF Unknown
  <2> QED
    BY <2>1, <2>4, <2>6, <2>7 DEF Unknown
<1>10. SlotInv'
  <2> SUFFICES ASSUME slot' # NoDownload
               PROVE  Pure(slot)' \/ hitches'[slot'] \cap {"crossed", "unread"} # {}
    BY DEF SlotInv
  <2>1. slot \in Downloads /\ slot' = slot
    BY <1>1, <1>2, <1>3, <1>4 DEF DownloadInv, DownloadTypes
  <2>2. CASE hitches[slot] \cap {"crossed", "unread"} # {}
    BY <1>1, <1>2, <1>3, <1>4, <2>1, <2>2
  <2>3. CASE Pure(slot)
    <3>1. Stage(slot)
      BY <2>1, <2>3 DEF DownloadInv, StageInv
    <3>2. d # slot
      BY <1>1, <1>2, <1>3, <1>4, <2>1, <3>1, DownloadsAssumption DEF Stage, Starting,
         Sought, Reading, Framed, Asking, Ending, Refused
    <3> QED
      BY <1>1, <1>2, <1>3, <1>4, <2>1, <2>3, <3>2
  <2> QED
    BY <2>1, <2>2, <2>3 DEF DownloadInv, SlotInv
<1>11. HandlerInv'
  <2> SUFFICES ASSUME NEW k \in handlers'
               PROVE  Pure(k.id)' \/ hitches'[k.id] \cap {"crossed", "unread"} # {}
    BY DEF HandlerInv
  <2>1. k \in handlers /\ k.id \in Downloads
    BY <1>1, <1>2, <1>3, <1>4 DEF DownloadInv, DownloadTypes, Handler
  <2>2. CASE hitches[k.id] \cap {"crossed", "unread"} # {}
    BY <1>1, <1>2, <1>3, <1>4, <2>1, <2>2
  <2>3. CASE Pure(k.id)
    <3>1. Stage(k.id)
      BY <2>1, <2>3 DEF DownloadInv, StageInv
    <3>2. d # k.id
      BY <1>1, <1>2, <1>3, <1>4, <2>1, <3>1
        DEF Stage, Starting, Sought, Reading, Framed, Asking, Ending, Refused
    <3> QED
      BY <1>1, <1>2, <1>3, <1>4, <2>1, <2>3, <3>2
  <2> QED
    BY <2>1, <2>2, <2>3 DEF DownloadInv, HandlerInv
<1>12. ResolvedIsTheFile'
  <2> SUFFICES ASSUME NEW x \in Downloads, status'[x] = "resolved", hitches'[x] = {}
               PROVE  chunks'[x] = file'[x]
    BY DEF ResolvedIsTheFile
  <2>1. CASE status[x] = "resolved"
    BY <1>1, <1>2, <1>3, <1>4, <2>1 DEF DownloadInv, ResolvedIsTheFile
  <2>2. CASE x = d /\ Waiting(d)
    <3>1. Stage(d)
      BY <1>1, <1>2, <1>3, <1>4, <2>2 DEF DownloadInv, StageInv
    <3>2. Ending(d)
      BY <1>1, <1>2, <1>3, <1>4, <3>1
        DEF Stage, Starting, Sought, Reading, Framed, Asking, Ending, Refused
    <3> QED
      BY <1>1, <1>2, <1>3, <1>4, <2>2, <3>2 DEF Ending
  <2> QED
    BY <1>1, <1>2, <1>3, <1>4, <2>1, <2>2
<1> QED
  BY <1>5, <1>6, <1>7, <1>8, <1>9, <1>10, <1>11, <1>12 DEF DownloadInv

LEMMA ErrorKeeps ==
    ASSUME DownloadInv, ReceiveError
    PROVE  DownloadInv'
<1>1. /\ toClient \in Seq(ClientMessage) /\ toClient # <<>> /\ toClient' = Tail(toClient)
      /\ Head(toClient) = toClient[1] /\ toClient[1] \in ClientMessage /\ 1 \in DOMAIN toClient
      /\ toClient' \in Seq(ClientMessage)
      /\ \A i \in DOMAIN toClient' : i \in Nat /\ i + 1 \in DOMAIN toClient /\ i + 1 # 1 /\ toClient'[i] = toClient[i + 1]
      /\ \A i \in DOMAIN toClient : i \in Nat /\ (i # 1 => i - 1 \in DOMAIN toClient' /\ toClient'[i - 1] = toClient[i])
  <2>1. toClient \in Seq(ClientMessage) /\ toClient # <<>> /\ toClient' = Tail(toClient)
    BY DEF ReceiveError, Receives, DownloadInv, DownloadTypes
  <2> QED
    BY <2>1, Popped
<1>2. /\ toClient[1].type = "error" /\ online
      /\ UNCHANGED <<file, online, slot, offset, handlers, losses, hitches>>
  BY <1>1 DEF ReceiveError, Receives, server, DownloadInv, OfflineInv
<1> DEFINE d == toClient[1].id
<1>3. d \in Downloads /\ toClient[1] = Failed(d)
  BY <1>1, <1>2 DEF ClientMessage, Failed
<1>4. /\ status' \in [Downloads -> {"new", "waiting", "resolved", "rejected"}]
      /\ status'[d] = IF Waiting(d) THEN "rejected" ELSE status[d]
      /\ \A x \in Downloads : x # d => status'[x] = status[x]
      /\ UNCHANGED <<chunks, activeDownload, toServer>>
  BY <1>1, <1>3 DEF ReceiveError, DownloadInv, DownloadTypes
<1> HIDE DEF d
<1> USE DEF Alive, Waiting, Pure, Got, Part, Start, ContinueAt, Frame, Done, Failed, Finding,
           Unknown, Silent, Only
<1>5. DownloadTypes' /\ OffsetInv' /\ OfflineInv' /\ NewInv'
  BY <1>1, <1>2, <1>3, <1>4 DEF DownloadInv, DownloadTypes, OffsetInv, OfflineInv, NewInv
<1>6. ActiveInv' /\ AloneDownload' /\ StageInv' /\ ResolvedIsTheFile'
  BY <1>1, <1>2, <1>3, <1>4 DEF DownloadInv, ActiveInv, AloneDownload, Alone, StageInv, Stage,
     Starting, Sought, Reading, Framed, Asking, Ending, Refused, ResolvedIsTheFile
<1>7. StartInv'
  <2> SUFFICES ASSUME NEW i \in DOMAIN toServer', toServer'[i].type = "start"
               PROVE  /\ Alive(toServer[i].id)' /\ Unknown(toServer[i].id)'
                      /\ \A j \in DOMAIN toServer' : toServer'[j] = toServer'[i] => j = i
    BY DEF StartInv
  <2>1. PICK e : e = toServer'[i].id
    OBVIOUS
  <2>2. i \in DOMAIN toServer /\ toServer[i].type = "start" /\ e = toServer[i].id
    BY <1>1, <1>2, <1>3, <1>4, <2>1
  <2>3. Alive(e) /\ Unknown(e) /\ e \in Downloads
    BY <2>2 DEF DownloadInv, DownloadTypes, StartInv, ServerMessage
  <2>4. \A j \in DOMAIN toServer' : toServer'[j] = toServer'[i] => j = i
    BY <1>1, <1>2, <1>3, <1>4, <2>2 DEF DownloadInv, StartInv
  <2>5. e # d
    BY <1>1, <1>2, <1>3, <1>4, <2>2, <2>3 DEF Unknown
  <2>6. Alive(e)'
    BY <1>1, <1>2, <1>3, <1>4, <2>3, <2>5
  <2>7. Unknown(e)'
    BY <1>1, <1>2, <1>3, <1>4, <2>3, <2>5, DownloadsAssumption DEF Unknown
  <2> QED
    BY <2>1, <2>4, <2>6, <2>7 DEF Unknown
<1>8. SlotInv'
  <2> SUFFICES ASSUME slot' # NoDownload
               PROVE  Pure(slot)' \/ hitches'[slot'] \cap {"crossed", "unread"} # {}
    BY DEF SlotInv
  <2>1. slot \in Downloads /\ slot' = slot
    BY <1>1, <1>2, <1>3, <1>4 DEF DownloadInv, DownloadTypes
  <2>2. CASE hitches[slot] \cap {"crossed", "unread"} # {}
    BY <1>1, <1>2, <1>3, <1>4, <2>1, <2>2
  <2>3. CASE Pure(slot)
    <3>1. Stage(slot)
      BY <2>1, <2>3 DEF DownloadInv, StageInv
    <3>2. d # slot
      BY <1>1, <1>2, <1>3, <1>4, <2>1, <3>1, DownloadsAssumption DEF Stage, Starting,
         Sought, Reading, Framed, Asking, Ending, Refused
    <3> QED
      BY <1>1, <1>2, <1>3, <1>4, <2>1, <2>3, <3>2
  <2> QED
    BY <2>1, <2>2, <2>3 DEF DownloadInv, SlotInv
<1>9. HandlerInv'
  <2> SUFFICES ASSUME NEW k \in handlers'
               PROVE  Pure(k.id)' \/ hitches'[k.id] \cap {"crossed", "unread"} # {}
    BY DEF HandlerInv
  <2>1. k \in handlers /\ k.id \in Downloads
    BY <1>1, <1>2, <1>3, <1>4 DEF DownloadInv, DownloadTypes, Handler
  <2>2. CASE hitches[k.id] \cap {"crossed", "unread"} # {}
    BY <1>1, <1>2, <1>3, <1>4, <2>1, <2>2
  <2>3. CASE Pure(k.id)
    <3>1. Stage(k.id)
      BY <2>1, <2>3 DEF DownloadInv, StageInv
    <3>2. d # k.id
      BY <1>1, <1>2, <1>3, <1>4, <2>1, <3>1
        DEF Stage, Starting, Sought, Reading, Framed, Asking, Ending, Refused
    <3> QED
      BY <1>1, <1>2, <1>3, <1>4, <2>1, <2>3, <3>2
  <2> QED
    BY <2>1, <2>2, <2>3 DEF DownloadInv, HandlerInv
<1> QED
  BY <1>5, <1>6, <1>7, <1>8, <1>9 DEF DownloadInv

LEMMA SendTimesOutKeeps ==
    ASSUME DownloadInv, SendTimesOut
    PROVE  DownloadInv'
<1>1. /\ toServer \in Seq(ServerMessage) /\ toServer # <<>> /\ toServer' = Tail(toServer)
      /\ Head(toServer) = toServer[1] /\ toServer[1] \in ServerMessage /\ 1 \in DOMAIN toServer
      /\ toServer' \in Seq(ServerMessage)
      /\ \A i \in DOMAIN toServer' : i \in Nat /\ i + 1 \in DOMAIN toServer /\ i + 1 # 1 /\ toServer'[i] = toServer[i + 1]
      /\ \A i \in DOMAIN toServer : i \in Nat /\ (i # 1 => i - 1 \in DOMAIN toServer' /\ toServer'[i - 1] = toServer[i])
  <2>1. toServer \in Seq(ServerMessage) /\ toServer # <<>> /\ toServer' = Tail(toServer)
    BY DEF SendTimesOut, DownloadInv, DownloadTypes
  <2> QED
    BY <2>1, Popped
<1> DEFINE d == toServer[1].id
<1>2. d \in Downloads /\ toServer[1].type = "start" /\ toServer[1] = Start(d) /\ ~online
  BY <1>1 DEF SendTimesOut, DownloadInv, OfflineInv, ServerMessage, Start
<1>3. /\ status' \in [Downloads -> {"new", "waiting", "resolved", "rejected"}]
      /\ status'[d] = "rejected" /\ \A x \in Downloads : x # d => status'[x] = status[x]
      /\ UNCHANGED <<file, chunks, activeDownload, online, toClient, slot, offset, handlers, losses, hitches>>
  BY <1>1, <1>2 DEF SendTimesOut, DownloadInv, DownloadTypes, server
<1> HIDE DEF d
<1> USE DEF Alive, Waiting, Pure, Got, Part, Start, ContinueAt, Frame, Done, Failed, Finding,
           Unknown, Silent, Only
<1>4. DownloadTypes' /\ OffsetInv' /\ OfflineInv' /\ NewInv' /\ ActiveInv'
  BY <1>1, <1>2, <1>3 DEF DownloadInv, DownloadTypes, OffsetInv, OfflineInv, NewInv, ActiveInv
<1>5. AloneDownload'
  BY <1>1, <1>2, <1>3 DEF DownloadInv, AloneDownload, Alone
<1>6. SlotInv'
  BY <1>1, <1>2, <1>3, DownloadsAssumption DEF DownloadInv, SlotInv, AloneDownload, Alone, DownloadTypes,
     OfflineInv, NewInv, StartInv
<1>7. HandlerInv' /\ ResolvedIsTheFile'
  BY <1>1, <1>2, <1>3 DEF DownloadInv, HandlerInv, SlotInv, OfflineInv, DownloadTypes,
     ResolvedIsTheFile
<1>8. StartInv'
  <2> SUFFICES ASSUME NEW i \in DOMAIN toServer', toServer'[i].type = "start"
               PROVE  /\ Alive(toServer[i].id)' /\ Unknown(toServer[i].id)'
                      /\ \A j \in DOMAIN toServer' : toServer'[j] = toServer'[i] => j = i
    BY DEF StartInv
  <2>1. PICK e : e = toServer'[i].id
    OBVIOUS
  <2>2. /\ i + 1 \in DOMAIN toServer /\ toServer'[i] = toServer[i + 1]
        /\ i + 1 # 1 /\ i \in Nat /\ toServer[i + 1].type = "start" /\ e = toServer[i + 1].id
    BY <1>1, <1>2, <1>3, <2>1
  <2>3. Alive(e) /\ Unknown(e) /\ e \in Downloads
    BY <2>2 DEF DownloadInv, DownloadTypes, StartInv, ServerMessage
  <2>4. \A j \in DOMAIN toServer' : toServer'[j] = toServer'[i] => j = i
    <3> SUFFICES ASSUME NEW j \in DOMAIN toServer', toServer'[j] = toServer'[i]
                 PROVE  j = i
      OBVIOUS
    <3>1. j \in Nat /\ j + 1 \in DOMAIN toServer /\ toServer'[j] = toServer[j + 1]
      BY <1>1, <1>2, <1>3
    <3>2. j + 1 = i + 1
      BY <2>2, <3>1 DEF DownloadInv, StartInv
    <3> QED
      BY <2>2, <3>1, <3>2
  <2>5. e # d
    <3>1. toServer[i + 1] = Start(e)
      <4>1. toServer[i + 1] \in ServerMessage
        BY <2>2 DEF DownloadInv, DownloadTypes
      <4> QED
        BY <2>2, <4>1 DEF ServerMessage
    <3>2. ASSUME e = d
          PROVE  FALSE
      <4>1. toServer[i + 1] = toServer[1] /\ toServer[1].type = "start"
        BY <1>1, <1>2, <1>3, <3>1, <3>2
      <4> QED
        BY <1>1, <1>2, <1>3, <2>2, <4>1 DEF DownloadInv, StartInv
    <3> QED
      BY <3>2
  <2>6. Alive(e)'
    BY <1>1, <1>2, <1>3, <2>3, <2>5
  <2>7. Unknown(e)'
    BY <1>1, <1>2, <1>3, <2>3, <2>5, DownloadsAssumption DEF Unknown
  <2> QED
    BY <2>1, <2>4, <2>6, <2>7 DEF Unknown
<1>9. StageInv'
  <2> SUFFICES ASSUME NEW x \in Downloads, Pure(x)'
               PROVE  Stage(x)'
    BY DEF StageInv
  <2>1. Pure(x) /\ Alone(x) /\ Stage(x)
    BY <1>1, <1>2, <1>3 DEF DownloadInv, AloneDownload, StageInv
  <2>2. x # d
    BY <1>1, <1>2, <1>3
  <2>3. Alive(d)
    BY <1>1, <1>2, <1>3 DEF DownloadInv, StartInv
  <2> QED
    BY <1>1, <1>2, <1>3, <2>1, <2>2, <2>3 DEF Alone
<1> QED
  BY <1>4, <1>5, <1>6, <1>7, <1>8, <1>9 DEF DownloadInv

-----------------------------------------------------------------------------
(* The connection.                                                         *)

LEMMA LoseKeeps ==
    ASSUME DownloadInv, Lose
    PROVE  DownloadInv'
<1>1. /\ hitches' \in [Downloads -> SUBSET {"crossed", "closed", "unread"}]
      /\ \A d \in Downloads : hitches'[d] = IF Waiting(d) THEN hitches[d] \cup {"closed"} ELSE hitches[d]
      /\ ~online' /\ losses' \in 0 .. MaxLosses
      /\ toServer' = <<>> /\ toClient' = <<>> /\ slot' = NoDownload /\ handlers' = {}
      /\ UNCHANGED <<file, status, chunks, activeDownload, offset>>
  BY DownloadsAssumption DEF Lose, DownloadInv, DownloadTypes, tabState
<1>2. online' \in BOOLEAN
  BY DEF Lose
<1> USE DEF Alive, Waiting, Pure, Got, Part, Start, ContinueAt, Frame, Done, Failed, Finding,
           Unknown, Silent, Only
<1>3. DownloadTypes' /\ OffsetInv' /\ OfflineInv' /\ StartInv' /\ ActiveInv'
  BY <1>1, <1>2 DEF DownloadInv, DownloadTypes, OffsetInv, OfflineInv, StartInv, ActiveInv
<1>4. /\ AloneDownload' /\ StageInv' /\ SlotInv' /\ HandlerInv'
      /\ ResolvedIsTheFile'
  BY <1>1, <1>2 DEF DownloadInv, AloneDownload, Alone, StageInv, Stage, Starting, Sought, Reading,
     Framed, Asking, Ending, Refused, SlotInv, HandlerInv, ResolvedIsTheFile
<1>5. NewInv'
  <2> SUFFICES ASSUME NEW x \in Downloads, status'[x] = "new"
               PROVE  /\ Unknown(x)' /\ Silent(toServer, x)' /\ activeDownload' # x
                      /\ chunks'[x] = <<>> /\ hitches'[x] = {}
    BY DEF NewInv
  <2>1. status[x] = "new" /\ activeDownload # x /\ chunks[x] = <<>> /\ hitches[x] = {}
    BY <1>1, <1>2 DEF DownloadInv, NewInv
  <2>2. Unknown(x)' /\ Silent(toServer, x)'
    BY <1>1, <1>2, DownloadsAssumption DEF Unknown
  <2> QED
    BY <1>1, <1>2, <2>1, <2>2
<1> QED
  BY <1>3, <1>4, <1>5 DEF DownloadInv

LEMMA ReopenKeeps ==
    ASSUME DownloadInv, Reopen
    PROVE  DownloadInv'
<1> USE DEF Alive, Waiting, Pure, Got, Part, Start, ContinueAt, Frame, Done, Failed, Finding,
           Unknown, Silent, Only
<1>1. /\ DownloadTypes' /\ OffsetInv' /\ OfflineInv' /\ NewInv' /\ StartInv'
      /\ ActiveInv'
  BY DEF DownloadInv, DownloadTypes, OffsetInv, OfflineInv, NewInv, StartInv, ActiveInv, Reopen,
     tabState, server
<1>2. /\ AloneDownload' /\ StageInv' /\ SlotInv' /\ HandlerInv'
      /\ ResolvedIsTheFile'
  BY DEF DownloadInv, AloneDownload, Alone, StageInv, Stage, Starting, Sought, Reading, Framed,
     Asking, Ending, Refused, SlotInv, HandlerInv, ResolvedIsTheFile, Reopen, tabState,
     server
<1> QED
  BY <1>1, <1>2 DEF DownloadInv

-----------------------------------------------------------------------------
(* The server.                                                             *)

LEMMA StartRefusedKeeps ==
    ASSUME DownloadInv, StartDownload, slot # NoDownload
    PROVE  DownloadInv'
<1>1. /\ toServer \in Seq(ServerMessage) /\ toServer # <<>> /\ toServer' = Tail(toServer)
      /\ Head(toServer) = toServer[1] /\ toServer[1] \in ServerMessage /\ 1 \in DOMAIN toServer
      /\ toServer' \in Seq(ServerMessage)
      /\ \A i \in DOMAIN toServer' : i \in Nat /\ i + 1 \in DOMAIN toServer /\ i + 1 # 1 /\ toServer'[i] = toServer[i + 1]
      /\ \A i \in DOMAIN toServer : i \in Nat /\ (i # 1 => i - 1 \in DOMAIN toServer' /\ toServer'[i - 1] = toServer[i])
  <2>1. toServer \in Seq(ServerMessage) /\ toServer # <<>> /\ toServer' = Tail(toServer)
    BY DEF StartDownload, Handles, DownloadInv, DownloadTypes
  <2> QED
    BY <2>1, Popped
<1>2. toServer[1].type = "start" /\ online
      /\ UNCHANGED <<file, status, chunks, activeDownload, online, losses, hitches>>
  BY <1>1 DEF StartDownload, Handles, tabState
<1> DEFINE d == toServer[1].id
<1>3. d \in Downloads /\ file[d] \in Seq(ContentChunk) /\ Len(file[d]) \in Nat /\ toServer[1] = Start(d)
  BY <1>1, <1>2, DownloadContentType DEF ServerMessage, DownloadInv, DownloadTypes, Start, ContinueAt
<1>4. /\ toClient' \in Seq(ClientMessage) /\ toClient' # <<>>
      /\ Len(toClient) + 1 \in DOMAIN toClient' /\ toClient'[Len(toClient) + 1] = Failed(d)
      /\ \A i \in DOMAIN toClient : i \in DOMAIN toClient' /\ toClient'[i] = toClient[i] /\ i # Len(toClient) + 1
      /\ \A i \in DOMAIN toClient' : i \in DOMAIN toClient \/ i = Len(toClient) + 1
      /\ toClient' = Append(toClient, Failed(d))
  <2>1. Failed(d) \in ClientMessage
    BY <1>3 DEF ClientMessage, Failed
  <2>2. toClient \in Seq(ClientMessage) /\ toClient' = Append(toClient, Failed(d))
    BY <1>1 DEF StartDownload, Sends, DownloadInv, DownloadTypes
  <2> QED
    BY <2>1, <2>2, Pushed
<1>5. UNCHANGED <<slot, offset, handlers>>
  BY DEF StartDownload
<1> HIDE DEF d
<1> USE DEF Alive, Waiting, Pure, Got, Part, Start, ContinueAt, Frame, Done, Failed, Finding,
           Unknown, Silent, Only
<1>6. DownloadTypes' /\ OffsetInv'
  BY <1>1, <1>2, <1>3, <1>4, <1>5 DEF DownloadInv, DownloadTypes, OffsetInv
<1>7. OfflineInv' /\ NewInv'
  BY <1>1, <1>2, <1>3, <1>4, <1>5 DEF DownloadInv, OfflineInv, NewInv
<1>8. ActiveInv' /\ AloneDownload'
  BY <1>1, <1>2, <1>3, <1>4, <1>5 DEF DownloadInv, ActiveInv, AloneDownload, Alone
<1>9. SlotInv' /\ HandlerInv' /\ ResolvedIsTheFile'
  BY <1>1, <1>2, <1>3, <1>4, <1>5 DEF DownloadInv, SlotInv, HandlerInv, ResolvedIsTheFile
<1>10. StartInv'
  <2> SUFFICES ASSUME NEW i \in DOMAIN toServer', toServer'[i].type = "start"
               PROVE  /\ Alive(toServer[i].id)' /\ Unknown(toServer[i].id)'
                      /\ \A j \in DOMAIN toServer' : toServer'[j] = toServer'[i] => j = i
    BY DEF StartInv
  <2>1. PICK e : e = toServer'[i].id
    OBVIOUS
  <2>2. /\ i + 1 \in DOMAIN toServer /\ toServer'[i] = toServer[i + 1]
        /\ i + 1 # 1 /\ i \in Nat /\ toServer[i + 1].type = "start" /\ e = toServer[i + 1].id
    BY <1>1, <1>2, <1>3, <1>4, <1>5, <2>1
  <2>3. Alive(e) /\ Unknown(e) /\ e \in Downloads
    BY <2>2 DEF DownloadInv, DownloadTypes, StartInv, ServerMessage
  <2>4. \A j \in DOMAIN toServer' : toServer'[j] = toServer'[i] => j = i
    <3> SUFFICES ASSUME NEW j \in DOMAIN toServer', toServer'[j] = toServer'[i]
                 PROVE  j = i
      OBVIOUS
    <3>1. j \in Nat /\ j + 1 \in DOMAIN toServer /\ toServer'[j] = toServer[j + 1]
      BY <1>1, <1>2, <1>3, <1>4, <1>5
    <3>2. j + 1 = i + 1
      BY <2>2, <3>1 DEF DownloadInv, StartInv
    <3> QED
      BY <2>2, <3>1, <3>2
  <2>5. e # d
    <3>1. toServer[i + 1] = Start(e)
      <4>1. toServer[i + 1] \in ServerMessage
        BY <2>2 DEF DownloadInv, DownloadTypes
      <4> QED
        BY <2>2, <4>1 DEF ServerMessage
    <3>2. ASSUME e = d
          PROVE  FALSE
      <4>1. toServer[i + 1] = toServer[1] /\ toServer[1].type = "start"
        BY <1>1, <1>2, <1>3, <1>4, <1>5, <3>1, <3>2
      <4> QED
        BY <1>1, <1>2, <1>3, <1>4, <1>5, <2>2, <4>1 DEF DownloadInv, StartInv
    <3> QED
      BY <3>2
  <2>6. Alive(e)'
    BY <1>1, <1>2, <1>3, <1>4, <1>5, <2>3, <2>5
  <2>7. Unknown(e)'
    BY <1>1, <1>2, <1>3, <1>4, <1>5, <2>3, <2>5, DownloadsAssumption DEF Unknown
  <2> QED
    BY <2>1, <2>4, <2>6, <2>7 DEF Unknown
<1>11. StageInv'
  <2> SUFFICES ASSUME NEW x \in Downloads, Pure(x)'
               PROVE  Stage(x)'
    BY DEF StageInv
  <2>1. Pure(x) /\ Alone(x) /\ Stage(x)
    BY <1>1, <1>2, <1>3, <1>4, <1>5 DEF DownloadInv, AloneDownload, StageInv
  <2>2. Alive(d) /\ Unknown(d)
    BY <1>1, <1>2, <1>3, <1>4, <1>5 DEF DownloadInv, StartInv
  <2>3. x = d
    BY <1>1, <1>2, <1>3, <1>4, <1>5, <2>1, <2>2 DEF Alone
  <2>4. Starting(x)
    BY <1>1, <1>2, <1>3, <1>4, <1>5, <2>1, <2>2, <2>3
      DEF Unknown, Alone, Stage, Starting, Sought, Reading, Framed, Asking, Ending, Refused
  <2>5. Silent(toServer, x)'
    <3>1. PICK k \in DOMAIN toServer : \A j \in DOMAIN toServer : toServer[j].id = x => j = k
      BY <2>4 DEF Starting
    <3>2. k = 1
      BY <1>1, <1>2, <1>3, <1>4, <1>5, <2>3, <3>1
    <3> QED
      BY <1>1, <1>2, <1>3, <1>4, <1>5, <3>1, <3>2
  <2>6. toClient' = <<Failed(x)>>
    BY <1>1, <1>2, <1>3, <1>4, <1>5, <2>3, <2>4 DEF Starting
  <2> QED
    BY <1>1, <1>2, <1>3, <1>4, <1>5, <2>4, <2>5, <2>6 DEF Stage, Starting, Refused
<1> QED
  BY <1>6, <1>7, <1>8, <1>9, <1>10, <1>11 DEF DownloadInv

LEMMA StartTakenKeeps ==
    ASSUME DownloadInv, StartDownload, slot = NoDownload
    PROVE  DownloadInv'
<1>1. /\ toServer \in Seq(ServerMessage) /\ toServer # <<>> /\ toServer' = Tail(toServer)
      /\ Head(toServer) = toServer[1] /\ toServer[1] \in ServerMessage /\ 1 \in DOMAIN toServer
      /\ toServer' \in Seq(ServerMessage)
      /\ \A i \in DOMAIN toServer' : i \in Nat /\ i + 1 \in DOMAIN toServer /\ i + 1 # 1 /\ toServer'[i] = toServer[i + 1]
      /\ \A i \in DOMAIN toServer : i \in Nat /\ (i # 1 => i - 1 \in DOMAIN toServer' /\ toServer'[i - 1] = toServer[i])
  <2>1. toServer \in Seq(ServerMessage) /\ toServer # <<>> /\ toServer' = Tail(toServer)
    BY DEF StartDownload, Handles, DownloadInv, DownloadTypes
  <2> QED
    BY <2>1, Popped
<1>2. toServer[1].type = "start" /\ online
      /\ UNCHANGED <<file, status, chunks, activeDownload, online, losses, hitches>>
  BY <1>1 DEF StartDownload, Handles, tabState
<1> DEFINE d == toServer[1].id
<1>3. d \in Downloads /\ file[d] \in Seq(ContentChunk) /\ Len(file[d]) \in Nat /\ toServer[1] = Start(d)
  BY <1>1, <1>2, DownloadContentType DEF ServerMessage, DownloadInv, DownloadTypes, Start, ContinueAt
<1> DEFINE c == [id |-> d, at |-> Finding]
<1>4. c \in Handler /\ c.id = d /\ c.at = -1 /\ handlers' = handlers \cup {c}
  BY <1>1, <1>3 DEF StartDownload, Handler, Finding
<1>5. UNCHANGED <<slot, offset, toClient>>
  BY DEF StartDownload
<1> HIDE DEF d
<1> USE DEF Alive, Waiting, Pure, Got, Part, Start, ContinueAt, Frame, Done, Failed, Finding,
           Unknown, Silent, Only
<1>6. /\ DownloadTypes' /\ OffsetInv' /\ OfflineInv' /\ NewInv' /\ ActiveInv'
      /\ SlotInv' /\ ResolvedIsTheFile'
  BY <1>1, <1>2, <1>3, <1>4, <1>5 DEF DownloadInv, DownloadTypes, OffsetInv, OfflineInv, NewInv,
     ActiveInv, SlotInv, ResolvedIsTheFile
<1>7. StartInv'
  <2> SUFFICES ASSUME NEW i \in DOMAIN toServer', toServer'[i].type = "start"
               PROVE  /\ Alive(toServer[i].id)' /\ Unknown(toServer[i].id)'
                      /\ \A j \in DOMAIN toServer' : toServer'[j] = toServer'[i] => j = i
    BY DEF StartInv
  <2>1. PICK e : e = toServer'[i].id
    OBVIOUS
  <2>2. /\ i + 1 \in DOMAIN toServer /\ toServer'[i] = toServer[i + 1]
        /\ i + 1 # 1 /\ i \in Nat /\ toServer[i + 1].type = "start" /\ e = toServer[i + 1].id
    BY <1>1, <1>2, <1>3, <1>4, <1>5, <2>1
  <2>3. Alive(e) /\ Unknown(e) /\ e \in Downloads
    BY <2>2 DEF DownloadInv, DownloadTypes, StartInv, ServerMessage
  <2>4. \A j \in DOMAIN toServer' : toServer'[j] = toServer'[i] => j = i
    <3> SUFFICES ASSUME NEW j \in DOMAIN toServer', toServer'[j] = toServer'[i]
                 PROVE  j = i
      OBVIOUS
    <3>1. j \in Nat /\ j + 1 \in DOMAIN toServer /\ toServer'[j] = toServer[j + 1]
      BY <1>1, <1>2, <1>3, <1>4, <1>5
    <3>2. j + 1 = i + 1
      BY <2>2, <3>1 DEF DownloadInv, StartInv
    <3> QED
      BY <2>2, <3>1, <3>2
  <2>5. e # d
    <3>1. toServer[i + 1] = Start(e)
      <4>1. toServer[i + 1] \in ServerMessage
        BY <2>2 DEF DownloadInv, DownloadTypes
      <4> QED
        BY <2>2, <4>1 DEF ServerMessage
    <3>2. ASSUME e = d
          PROVE  FALSE
      <4>1. toServer[i + 1] = toServer[1] /\ toServer[1].type = "start"
        BY <1>1, <1>2, <1>3, <1>4, <1>5, <3>1, <3>2
      <4> QED
        BY <1>1, <1>2, <1>3, <1>4, <1>5, <2>2, <4>1 DEF DownloadInv, StartInv
    <3> QED
      BY <3>2
  <2>6. Alive(e)'
    BY <1>1, <1>2, <1>3, <1>4, <1>5, <2>3, <2>5
  <2>7. Unknown(e)'
    BY <1>1, <1>2, <1>3, <1>4, <1>5, <2>3, <2>5, DownloadsAssumption DEF Unknown
  <2> QED
    BY <2>1, <2>4, <2>6, <2>7 DEF Unknown
<1>8. AloneDownload'
  <2> SUFFICES ASSUME NEW x \in Downloads, Pure(x)'
               PROVE  Alone(x)'
    BY DEF AloneDownload
  <2>1. Pure(x) /\ Alone(x) /\ Stage(x)
    BY <1>1, <1>2, <1>3, <1>4, <1>5 DEF DownloadInv, AloneDownload, StageInv
  <2>2. d = x
    BY <1>1, <1>2, <1>3, <1>4, <1>5, <2>1 DEF Alone, DownloadInv, StartInv
  <2>3. ASSUME NEW y \in Downloads, y # x
        PROVE  ~Alive(y)' /\ (slot' = y => Silent(toServer', y))
    BY <1>1, <1>2, <1>3, <1>4, <1>5, <2>1, <2>2, <2>3 DEF Alone
  <2> QED
    BY <1>1, <1>2, <1>3, <1>4, <1>5, <2>1, <2>2, <2>3 DEF Alone
<1>9. StageInv'
  <2> SUFFICES ASSUME NEW x \in Downloads, Pure(x)'
               PROVE  Stage(x)'
    BY DEF StageInv
  <2>1. Pure(x) /\ Alone(x) /\ Stage(x)
    BY <1>1, <1>2, <1>3, <1>4, <1>5 DEF DownloadInv, AloneDownload, StageInv
  <2>2. Alive(d) /\ Unknown(d)
    BY <1>1, <1>2, <1>3, <1>4, <1>5 DEF DownloadInv, StartInv
  <2>3. x = d
    BY <1>1, <1>2, <1>3, <1>4, <1>5, <2>1, <2>2 DEF Alone
  <2>4. Starting(x)
    BY <1>1, <1>2, <1>3, <1>4, <1>5, <2>1, <2>2, <2>3
      DEF Unknown, Alone, Stage, Starting, Sought, Reading, Framed, Asking, Ending, Refused
  <2>5. Silent(toServer, x)'
    <3>1. PICK k \in DOMAIN toServer : \A j \in DOMAIN toServer : toServer[j].id = x => j = k
      BY <2>4 DEF Starting
    <3>2. k = 1
      BY <1>1, <1>2, <1>3, <1>4, <1>5, <2>3, <3>1
    <3> QED
      BY <1>1, <1>2, <1>3, <1>4, <1>5, <3>1, <3>2
  <2>6. handlers' = {[id |-> x, at |-> Finding]}
    BY <1>1, <1>2, <1>3, <1>4, <1>5, <2>3, <2>4 DEF Starting, c
  <2> QED
    BY <1>1, <1>2, <1>3, <1>4, <1>5, <2>4, <2>5, <2>6 DEF Stage, Starting, Sought
<1>10. HandlerInv'
  <2> SUFFICES ASSUME NEW k \in handlers'
               PROVE  Pure(k.id)' \/ hitches'[k.id] \cap {"crossed", "unread"} # {}
    BY DEF HandlerInv
  <2>1. CASE k = c
    <3>1. Waiting(d) /\ "closed" \notin hitches[d]
      BY <1>1, <1>2, <1>3, <1>4, <1>5 DEF DownloadInv, StartInv
    <3>2. hitches[d] \subseteq {"crossed", "closed", "unread"}
      BY <1>1, <1>2, <1>3, <1>4, <1>5 DEF DownloadInv, DownloadTypes
    <3> QED
      BY <1>1, <1>2, <1>3, <1>4, <1>5, <2>1, <3>1, <3>2
  <2>2. CASE k \in handlers
    BY <1>1, <1>2, <1>3, <1>4, <1>5, <2>2 DEF DownloadInv, HandlerInv
  <2> QED
    BY <1>1, <1>2, <1>3, <1>4, <1>5, <2>1, <2>2
<1> QED
  BY <1>6, <1>7, <1>8, <1>9, <1>10 DEF DownloadInv

LEMMA ContinueIgnoredKeeps ==
    ASSUME DownloadInv, ContinueDownload, slot # toServer[1].id
    PROVE  DownloadInv'
<1>1. /\ toServer \in Seq(ServerMessage) /\ toServer # <<>> /\ toServer' = Tail(toServer)
      /\ Head(toServer) = toServer[1] /\ toServer[1] \in ServerMessage /\ 1 \in DOMAIN toServer
      /\ toServer' \in Seq(ServerMessage)
      /\ \A i \in DOMAIN toServer' : i \in Nat /\ i + 1 \in DOMAIN toServer /\ i + 1 # 1 /\ toServer'[i] = toServer[i + 1]
      /\ \A i \in DOMAIN toServer : i \in Nat /\ (i # 1 => i - 1 \in DOMAIN toServer' /\ toServer'[i - 1] = toServer[i])
  <2>1. toServer \in Seq(ServerMessage) /\ toServer # <<>> /\ toServer' = Tail(toServer)
    BY DEF ContinueDownload, Handles, DownloadInv, DownloadTypes
  <2> QED
    BY <2>1, Popped
<1>2. toServer[1].type = "next" /\ online
      /\ UNCHANGED <<file, status, chunks, activeDownload, online, losses, hitches>>
  BY <1>1 DEF ContinueDownload, Handles, tabState
<1> DEFINE d == toServer[1].id
<1>3. d \in Downloads /\ file[d] \in Seq(ContentChunk) /\ Len(file[d]) \in Nat /\ toServer[1].offset \in Nat /\ toServer[1] = ContinueAt(d, toServer[1].offset)
  BY <1>1, <1>2, DownloadContentType DEF ServerMessage, DownloadInv, DownloadTypes, Start, ContinueAt
<1>4. UNCHANGED <<slot, offset, handlers, toClient>>
  BY <1>1 DEF ContinueDownload, server
<1> HIDE DEF d
<1> USE DEF Alive, Waiting, Pure, Got, Part, Start, ContinueAt, Frame, Done, Failed, Finding,
           Unknown, Silent, Only
<1>5. DownloadTypes' /\ OffsetInv' /\ OfflineInv'
  BY <1>1, <1>2, <1>3, <1>4 DEF DownloadInv, DownloadTypes, OffsetInv, OfflineInv
<1>6. NewInv' /\ StartInv'
  BY <1>1, <1>2, <1>3, <1>4 DEF DownloadInv, NewInv, StartInv
<1>7. ActiveInv' /\ AloneDownload' /\ SlotInv'
  BY <1>1, <1>2, <1>3, <1>4 DEF DownloadInv, ActiveInv, AloneDownload, Alone, SlotInv
<1>8. HandlerInv'
  BY <1>1, <1>2, <1>3, <1>4 DEF DownloadInv, HandlerInv
<1>9. ResolvedIsTheFile'
  BY <1>1, <1>2, <1>3, <1>4 DEF DownloadInv, ResolvedIsTheFile
<1>10. StageInv'
  <2> SUFFICES ASSUME NEW x \in Downloads, Pure(x)'
               PROVE  Stage(x)'
    BY DEF StageInv
  <2>1. Pure(x) /\ Alone(x) /\ Stage(x)
    BY <1>1, <1>2, <1>3, <1>4 DEF DownloadInv, AloneDownload, StageInv
  <2>2. CASE Ending(x)
    BY <1>1, <1>2, <1>3, <1>4, <2>2 DEF Stage, Ending
  <2>3. ASSUME ~Ending(x)
        PROVE  Stage(x)'
    <3>1. d # x
      BY <1>1, <1>2, <1>3, <1>4, <2>1, <2>3
        DEF Stage, Starting, Sought, Reading, Framed, Asking, Ending, Refused
    <3>2. Silent(toServer, x) => Silent(toServer, x)'
      BY <1>1, <1>2, <1>3, <1>4
    <3>3. ASSUME NEW m, Only(toServer, x, m), m.id = x
          PROVE  Only(toServer', x, m)
      <4>1. PICK k \in DOMAIN toServer :
                toServer[k] = m /\ \A j \in DOMAIN toServer : toServer[j].id = x => j = k
        BY <3>3
      <4>2. k - 1 \in DOMAIN toServer' /\ toServer'[k - 1] = m
        BY <1>1, <1>2, <1>3, <1>4, <3>1, <3>3, <4>1
      <4>3. \A j \in DOMAIN toServer' : toServer'[j].id = x => j = k - 1
        BY <1>1, <1>2, <1>3, <1>4, <4>1
      <4> QED
        BY <4>2, <4>3
    <3>4. Only(toServer, x, Start(x)) => Only(toServer', x, Start(x))
      BY <3>3
    <3>5. Only(toServer, x, ContinueAt(x, Got(x))) => Only(toServer', x, ContinueAt(x, Got(x)))
      BY <3>3
    <3> HIDE DEF Only
    <3>6. CASE Starting(x)
      BY <1>1, <1>2, <1>3, <1>4, <3>4, <3>6 DEF Stage, Starting
    <3>7. CASE Asking(x)
      BY <1>1, <1>2, <1>3, <1>4, <3>5, <3>7 DEF Stage, Asking
    <3>8. CASE Sought(x)
      BY <1>1, <1>2, <1>3, <1>4, <3>2, <3>8 DEF Stage, Sought
    <3>9. CASE Reading(x)
      BY <1>1, <1>2, <1>3, <1>4, <3>2, <3>9 DEF Stage, Reading
    <3>10. CASE Framed(x)
      BY <1>1, <1>2, <1>3, <1>4, <3>2, <3>10 DEF Stage, Framed
    <3>11. CASE Refused(x)
      BY <1>1, <1>2, <1>3, <1>4, <3>2, <3>11 DEF Stage, Refused
    <3> QED
      BY <2>1, <2>3, <3>6, <3>7, <3>8, <3>9, <3>10, <3>11 DEF Stage
  <2> QED
    BY <2>2, <2>3
<1> QED
  BY <1>5, <1>6, <1>7, <1>8, <1>9, <1>10 DEF DownloadInv

LEMMA ContinueEndKeeps ==
    ASSUME DownloadInv, ContinueDownload, slot = toServer[1].id, Through(slot, Bounded(slot, toServer[1].offset))
    PROVE  DownloadInv'
<1>1. /\ toServer \in Seq(ServerMessage) /\ toServer # <<>> /\ toServer' = Tail(toServer)
      /\ Head(toServer) = toServer[1] /\ toServer[1] \in ServerMessage /\ 1 \in DOMAIN toServer
      /\ toServer' \in Seq(ServerMessage)
      /\ \A i \in DOMAIN toServer' : i \in Nat /\ i + 1 \in DOMAIN toServer /\ i + 1 # 1 /\ toServer'[i] = toServer[i + 1]
      /\ \A i \in DOMAIN toServer : i \in Nat /\ (i # 1 => i - 1 \in DOMAIN toServer' /\ toServer'[i - 1] = toServer[i])
  <2>1. toServer \in Seq(ServerMessage) /\ toServer # <<>> /\ toServer' = Tail(toServer)
    BY DEF ContinueDownload, Handles, DownloadInv, DownloadTypes
  <2> QED
    BY <2>1, Popped
<1>2. toServer[1].type = "next" /\ online
      /\ UNCHANGED <<file, status, chunks, activeDownload, online, losses, hitches>>
  BY <1>1 DEF ContinueDownload, Handles, tabState
<1> DEFINE d == toServer[1].id
<1>3. d \in Downloads /\ file[d] \in Seq(ContentChunk) /\ Len(file[d]) \in Nat /\ toServer[1].offset \in Nat /\ toServer[1] = ContinueAt(d, toServer[1].offset)
  BY <1>1, <1>2, DownloadContentType DEF ServerMessage, DownloadInv, DownloadTypes, Start, ContinueAt
<1> DEFINE n == Bounded(d, toServer[1].offset)
<1>4. n \in Nat /\ n <= Len(file[d]) /\ (toServer[1].offset <= Len(file[d]) => n = toServer[1].offset)
  BY <1>3 DEF Bounded, Min2
<1>5. offset' = [offset EXCEPT ![d] = n] /\ SendChunk(d, n, handlers)
  BY <1>1 DEF ContinueDownload
<1>6. offset' \in [Downloads -> Nat] /\ offset'[d] = n /\ \A x \in Downloads : x # d => offset'[x] = offset[x]
  BY <1>3, <1>4, <1>5 DEF DownloadInv, DownloadTypes
<1>7. /\ toClient' \in Seq(ClientMessage) /\ toClient' # <<>>
      /\ Len(toClient) + 1 \in DOMAIN toClient' /\ toClient'[Len(toClient) + 1] = Done(d)
      /\ \A i \in DOMAIN toClient : i \in DOMAIN toClient' /\ toClient'[i] = toClient[i] /\ i # Len(toClient) + 1
      /\ \A i \in DOMAIN toClient' : i \in DOMAIN toClient \/ i = Len(toClient) + 1
      /\ toClient' = Append(toClient, Done(d))
  <2>1. Done(d) \in ClientMessage
    BY <1>3 DEF ClientMessage, Done
  <2>2. toClient \in Seq(ClientMessage) /\ toClient' = toClient \o <<>> \o <<Done(d)>>
    BY <1>5 DEF SendChunk, FinishDownload, DownloadInv, DownloadTypes
  <2> QED
    BY <2>1, <2>2, Concatenated, Pushed
<1>8. slot' = NoDownload /\ UNCHANGED handlers /\ slot = d /\ n >= Len(file[d])
  BY <1>5 DEF SendChunk, FinishDownload, Through
<1> HIDE DEF d, n
<1> USE DEF Alive, Waiting, Pure, Got, Part, Start, ContinueAt, Frame, Done, Failed, Finding,
           Unknown, Silent, Only
<1>9. DownloadTypes' /\ OfflineInv' /\ NewInv' /\ ActiveInv'
  BY <1>1, <1>2, <1>3, <1>4, <1>6, <1>7, <1>8, DownloadsAssumption DEF DownloadInv, DownloadTypes,
     OfflineInv, NewInv, StartInv, ActiveInv
<1>10. AloneDownload'
  BY <1>1, <1>2, <1>3, <1>4, <1>6, <1>7, <1>8, DownloadsAssumption DEF DownloadInv, AloneDownload,
     StageInv, Alone, Stage, Starting, Sought, Reading, Framed, Asking, Ending, Refused,
     DownloadTypes, OfflineInv, NewInv, StartInv
<1>11. SlotInv'
  BY <1>1, <1>2, <1>3, <1>4, <1>6, <1>7, <1>8 DEF DownloadInv, SlotInv
<1>12. HandlerInv' /\ ResolvedIsTheFile'
  BY <1>1, <1>2, <1>3, <1>4, <1>6, <1>7, <1>8 DEF DownloadInv, HandlerInv, ResolvedIsTheFile,
     DownloadTypes
<1>13. OffsetInv'
  <2>1. \A x \in Downloads : Len(file[x]) \in Nat
    BY DownloadContentType DEF DownloadInv, DownloadTypes
  <2>2. \A x \in Downloads : offset'[x] <= Len(file[x])
    <3> SUFFICES ASSUME NEW x \in Downloads
                 PROVE  offset'[x] <= Len(file[x])
      OBVIOUS
    <3>1. offset[x] <= Len(file[x]) /\ Len(file[x]) \in Nat
      BY <2>1 DEF DownloadInv, OffsetInv
    <3>2. CASE x = d
      BY <1>1, <1>2, <1>3, <1>4, <1>6, <1>7, <1>8, <3>1, <3>2
    <3>3. CASE x # d
      BY <1>1, <1>2, <1>3, <1>4, <1>6, <1>7, <1>8, <3>1, <3>3
    <3> QED
      BY <3>2, <3>3
  <2>3. \A k \in handlers' : k.at < Len(file[k.id])
    BY <1>1, <1>2, <1>3, <1>4, <1>6, <1>7, <1>8, <2>1 DEF DownloadInv, DownloadTypes, OffsetInv
  <2> QED
    BY <1>1, <1>2, <1>3, <1>4, <1>6, <1>7, <1>8, <2>2, <2>3 DEF OffsetInv
<1>14. StartInv'
  <2> SUFFICES ASSUME NEW i \in DOMAIN toServer', toServer'[i].type = "start"
               PROVE  /\ Alive(toServer[i].id)' /\ Unknown(toServer[i].id)'
                      /\ \A j \in DOMAIN toServer' : toServer'[j] = toServer'[i] => j = i
    BY DEF StartInv
  <2>1. PICK e : e = toServer'[i].id
    OBVIOUS
  <2>2. /\ i + 1 \in DOMAIN toServer /\ toServer'[i] = toServer[i + 1]
        /\ i + 1 # 1 /\ i \in Nat /\ toServer[i + 1].type = "start" /\ e = toServer[i + 1].id
    BY <1>1, <1>2, <1>3, <1>4, <1>6, <1>7, <1>8, <2>1
  <2>3. Alive(e) /\ Unknown(e) /\ e \in Downloads
    BY <2>2 DEF DownloadInv, DownloadTypes, StartInv, ServerMessage
  <2>4. \A j \in DOMAIN toServer' : toServer'[j] = toServer'[i] => j = i
    <3> SUFFICES ASSUME NEW j \in DOMAIN toServer', toServer'[j] = toServer'[i]
                 PROVE  j = i
      OBVIOUS
    <3>1. j \in Nat /\ j + 1 \in DOMAIN toServer /\ toServer'[j] = toServer[j + 1]
      BY <1>1, <1>2, <1>3, <1>4, <1>6, <1>7, <1>8
    <3>2. j + 1 = i + 1
      BY <2>2, <3>1 DEF DownloadInv, StartInv
    <3> QED
      BY <2>2, <3>1, <3>2
  <2>5. e # d
    BY <1>1, <1>2, <1>3, <1>4, <1>6, <1>7, <1>8, <2>2, <2>3 DEF Unknown
  <2>6. Alive(e)'
    BY <1>1, <1>2, <1>3, <1>4, <1>6, <1>7, <1>8, <2>3, <2>5
  <2>7. Unknown(e)'
    BY <1>1, <1>2, <1>3, <1>4, <1>6, <1>7, <1>8, <2>3, <2>5, DownloadsAssumption DEF
       Unknown
  <2> QED
    BY <2>1, <2>4, <2>6, <2>7 DEF Unknown
<1>15. StageInv'
  <2> SUFFICES ASSUME NEW x \in Downloads, Pure(x)'
               PROVE  Stage(x)'
    BY DEF StageInv
  <2>1. Pure(x) /\ Alone(x) /\ Stage(x)
    BY <1>1, <1>2, <1>3, <1>4, <1>6, <1>7, <1>8 DEF DownloadInv, AloneDownload, StageInv
  <2>2. x = d
    BY <1>1, <1>2, <1>3, <1>4, <1>6, <1>7, <1>8, <2>1 DEF Alone
  <2>3. Asking(x)
    BY <1>1, <1>2, <1>3, <1>4, <1>6, <1>7, <1>8, <2>1, <2>2, DownloadsAssumption DEF
       Stage, Starting, Sought, Reading, Framed, Asking, Ending, Refused
  <2>4. toServer[1] = ContinueAt(x, Got(x))
    BY <1>1, <1>2, <1>3, <1>4, <1>6, <1>7, <1>8, <2>2, <2>3 DEF Asking
  <2>5. Got(x) \in Nat /\ Got(x) < Len(file[x])
    BY <2>3 DEF Asking, DownloadInv, DownloadTypes
  <2>6. n = Got(x)
    BY <1>1, <1>2, <1>3, <1>4, <1>6, <1>7, <1>8, <2>2, <2>4, <2>5
  <2> QED
    BY <1>1, <1>2, <1>3, <1>4, <1>6, <1>7, <1>8, <2>2, <2>5, <2>6
<1> QED
  BY <1>9, <1>10, <1>11, <1>12, <1>13, <1>14, <1>15 DEF DownloadInv

LEMMA ContinueReadKeeps ==
    ASSUME DownloadInv, ContinueDownload, slot = toServer[1].id, ~Through(slot, Bounded(slot, toServer[1].offset))
    PROVE  DownloadInv'
<1>1. /\ toServer \in Seq(ServerMessage) /\ toServer # <<>> /\ toServer' = Tail(toServer)
      /\ Head(toServer) = toServer[1] /\ toServer[1] \in ServerMessage /\ 1 \in DOMAIN toServer
      /\ toServer' \in Seq(ServerMessage)
      /\ \A i \in DOMAIN toServer' : i \in Nat /\ i + 1 \in DOMAIN toServer /\ i + 1 # 1 /\ toServer'[i] = toServer[i + 1]
      /\ \A i \in DOMAIN toServer : i \in Nat /\ (i # 1 => i - 1 \in DOMAIN toServer' /\ toServer'[i - 1] = toServer[i])
  <2>1. toServer \in Seq(ServerMessage) /\ toServer # <<>> /\ toServer' = Tail(toServer)
    BY DEF ContinueDownload, Handles, DownloadInv, DownloadTypes
  <2> QED
    BY <2>1, Popped
<1>2. toServer[1].type = "next" /\ online
      /\ UNCHANGED <<file, status, chunks, activeDownload, online, losses, hitches>>
  BY <1>1 DEF ContinueDownload, Handles, tabState
<1> DEFINE d == toServer[1].id
<1>3. d \in Downloads /\ file[d] \in Seq(ContentChunk) /\ Len(file[d]) \in Nat /\ toServer[1].offset \in Nat /\ toServer[1] = ContinueAt(d, toServer[1].offset)
  BY <1>1, <1>2, DownloadContentType DEF ServerMessage, DownloadInv, DownloadTypes, Start, ContinueAt
<1> DEFINE n == Bounded(d, toServer[1].offset)
<1>4. n \in Nat /\ n <= Len(file[d]) /\ (toServer[1].offset <= Len(file[d]) => n = toServer[1].offset)
  BY <1>3 DEF Bounded, Min2
<1>5. offset' = [offset EXCEPT ![d] = n] /\ SendChunk(d, n, handlers)
  BY <1>1 DEF ContinueDownload
<1>6. offset' \in [Downloads -> Nat] /\ offset'[d] = n /\ \A x \in Downloads : x # d => offset'[x] = offset[x]
  BY <1>3, <1>4, <1>5 DEF DownloadInv, DownloadTypes
<1> DEFINE c == [id |-> d, at |-> n]
<1>7. c \in Handler /\ c.id = d /\ c.at = n /\ handlers' = handlers \cup {c} /\ n < Len(file[d])
  BY <1>3, <1>4, <1>5 DEF SendChunk, Through, Handler
<1>8. slot' = d /\ slot = d /\ UNCHANGED toClient
  BY <1>5 DEF SendChunk
<1> HIDE DEF d, n
<1> USE DEF Alive, Waiting, Pure, Got, Part, Start, ContinueAt, Frame, Done, Failed, Finding,
           Unknown, Silent, Only
<1>9. DownloadTypes' /\ OfflineInv' /\ NewInv' /\ StartInv'
  BY <1>1, <1>2, <1>3, <1>4, <1>6, <1>7, <1>8 DEF DownloadInv, DownloadTypes, OfflineInv, NewInv,
     StartInv
<1>10. ActiveInv' /\ AloneDownload' /\ SlotInv' /\ ResolvedIsTheFile'
  BY <1>1, <1>2, <1>3, <1>4, <1>6, <1>7, <1>8 DEF DownloadInv, ActiveInv, AloneDownload, Alone,
     SlotInv, ResolvedIsTheFile, DownloadTypes
<1>11. OffsetInv'
  <2>1. \A x \in Downloads : Len(file[x]) \in Nat
    BY DownloadContentType DEF DownloadInv, DownloadTypes
  <2>2. \A x \in Downloads : offset'[x] <= Len(file[x])
    <3> SUFFICES ASSUME NEW x \in Downloads
                 PROVE  offset'[x] <= Len(file[x])
      OBVIOUS
    <3>1. offset[x] <= Len(file[x]) /\ Len(file[x]) \in Nat
      BY <2>1 DEF DownloadInv, OffsetInv
    <3>2. CASE x = d
      BY <1>1, <1>2, <1>3, <1>4, <1>6, <1>7, <1>8, <3>1, <3>2
    <3>3. CASE x # d
      BY <1>1, <1>2, <1>3, <1>4, <1>6, <1>7, <1>8, <3>1, <3>3
    <3> QED
      BY <3>2, <3>3
  <2>3. \A k \in handlers' : k.at < Len(file[k.id])
    BY <1>1, <1>2, <1>3, <1>4, <1>6, <1>7, <1>8, <2>1 DEF DownloadInv, DownloadTypes, OffsetInv
  <2> QED
    BY <1>1, <1>2, <1>3, <1>4, <1>6, <1>7, <1>8, <2>2, <2>3 DEF OffsetInv
<1>12. StageInv'
  <2> SUFFICES ASSUME NEW x \in Downloads, Pure(x)'
               PROVE  Stage(x)'
    BY DEF StageInv
  <2>1. Pure(x) /\ Alone(x) /\ Stage(x)
    BY <1>1, <1>2, <1>3, <1>4, <1>6, <1>7, <1>8 DEF DownloadInv, AloneDownload, StageInv
  <2>2. x = d
    BY <1>1, <1>2, <1>3, <1>4, <1>6, <1>7, <1>8, <2>1 DEF Alone
  <2>3. Asking(x)
    BY <1>1, <1>2, <1>3, <1>4, <1>6, <1>7, <1>8, <2>1, <2>2, DownloadsAssumption DEF
       Stage, Starting, Sought, Reading, Framed, Asking, Ending, Refused
  <2>4. toServer[1] = ContinueAt(x, Got(x))
    BY <1>1, <1>2, <1>3, <1>4, <1>6, <1>7, <1>8, <2>2, <2>3 DEF Asking
  <2>5. Got(x) \in Nat /\ Got(x) < Len(file[x])
    BY <2>3 DEF Asking, DownloadInv, DownloadTypes
  <2>6. n = Got(x)
    BY <1>1, <1>2, <1>3, <1>4, <1>6, <1>7, <1>8, <2>2, <2>4, <2>5
  <2>7. handlers' = {[id |-> x, at |-> Got(x)]}
    BY <1>1, <1>2, <1>3, <1>4, <1>6, <1>7, <1>8, <2>2, <2>3, <2>6 DEF Asking, c
  <2>8. Silent(toServer, x)'
    <3>1. PICK k \in DOMAIN toServer : \A j \in DOMAIN toServer : toServer[j].id = x => j = k
      BY <2>3 DEF Asking
    <3>2. k = 1
      BY <1>1, <1>2, <1>3, <1>4, <1>6, <1>7, <1>8, <2>2, <3>1
    <3> QED
      BY <1>1, <1>2, <1>3, <1>4, <1>6, <1>7, <1>8, <3>1, <3>2
  <2> QED
    BY <1>1, <1>2, <1>3, <1>4, <1>6, <1>7, <1>8, <2>2, <2>3, <2>7, <2>8
      DEF Stage, Asking, Reading
<1>13. HandlerInv'
  <2> SUFFICES ASSUME NEW k \in handlers'
               PROVE  Pure(k.id)' \/ hitches'[k.id] \cap {"crossed", "unread"} # {}
    BY DEF HandlerInv
  <2>1. CASE k = c
    BY <1>1, <1>2, <1>3, <1>4, <1>6, <1>7, <1>8, <2>1, DownloadsAssumption DEF DownloadInv,
       SlotInv
  <2>2. CASE k \in handlers
    BY <1>1, <1>2, <1>3, <1>4, <1>6, <1>7, <1>8, <2>2 DEF DownloadInv, HandlerInv
  <2> QED
    BY <1>1, <1>2, <1>3, <1>4, <1>6, <1>7, <1>8, <2>1, <2>2
<1> QED
  BY <1>9, <1>10, <1>11, <1>12, <1>13 DEF DownloadInv

LEMMA RefuseDownloadKeeps ==
    ASSUME DownloadInv, NEW c \in handlers, RefuseDownload(c)
    PROVE  DownloadInv'
<1>1. c.id \in Downloads /\ c.at \in Nat \cup {-1} /\ file[c.id] \in Seq(ContentChunk) /\ Len(file[c.id]) \in Nat
      /\ c.at < Len(file[c.id]) /\ online
  BY DownloadContentType DEF DownloadInv, DownloadTypes, OffsetInv, OfflineInv, Handler
<1>2. /\ toClient' \in Seq(ClientMessage) /\ toClient' # <<>>
      /\ Len(toClient) + 1 \in DOMAIN toClient' /\ toClient'[Len(toClient) + 1] = Failed(c.id)
      /\ \A i \in DOMAIN toClient : i \in DOMAIN toClient' /\ toClient'[i] = toClient[i] /\ i # Len(toClient) + 1
      /\ \A i \in DOMAIN toClient' : i \in DOMAIN toClient \/ i = Len(toClient) + 1
      /\ toClient' = Append(toClient, Failed(c.id))
  <2>1. Failed(c.id) \in ClientMessage
    BY <1>1 DEF ClientMessage, Failed
  <2>2. toClient \in Seq(ClientMessage) /\ toClient' = Append(toClient, Failed(c.id))
    BY DEF RefuseDownload, Sends, DownloadInv, DownloadTypes
  <2> QED
    BY <2>1, <2>2, Pushed
<1>3. c.at = -1 /\ handlers' = handlers \ {c} /\ UNCHANGED <<slot, offset>>
      /\ UNCHANGED <<file, status, chunks, activeDownload, online, toServer, losses, hitches>>
  BY DEF RefuseDownload, tabState, Finding
<1> USE DEF Alive, Waiting, Pure, Got, Part, Start, ContinueAt, Frame, Done, Failed, Finding,
           Unknown, Silent, Only
<1>4. DownloadTypes' /\ OffsetInv'
  BY <1>1, <1>2, <1>3 DEF DownloadInv, DownloadTypes, OffsetInv
<1>5. OfflineInv' /\ NewInv' /\ StartInv'
  BY <1>1, <1>2, <1>3 DEF DownloadInv, OfflineInv, NewInv, StartInv
<1>6. /\ ActiveInv' /\ AloneDownload' /\ SlotInv' /\ HandlerInv'
      /\ ResolvedIsTheFile'
  BY <1>1, <1>2, <1>3 DEF DownloadInv, ActiveInv, AloneDownload, Alone, SlotInv, HandlerInv,
     ResolvedIsTheFile
<1>7. StageInv'
  <2> SUFFICES ASSUME NEW x \in Downloads, Pure(x)'
               PROVE  Stage(x)'
    BY DEF StageInv
  <2>1. Pure(x) /\ Alone(x) /\ Stage(x)
    BY <1>1, <1>2, <1>3 DEF DownloadInv, AloneDownload, StageInv
  <2>2. x = c.id
    BY <1>1, <1>2, <1>3, <2>1 DEF Alone
  <2>3. Sought(x)
    BY <1>1, <1>2, <1>3, <2>1
      DEF Stage, Starting, Sought, Reading, Framed, Asking, Ending, Refused, DownloadInv, DownloadTypes
  <2>4. toClient' = <<Failed(x)>> /\ handlers' = {}
    BY <1>1, <1>2, <1>3, <2>2, <2>3 DEF Sought
  <2> QED
    BY <1>1, <1>2, <1>3, <2>3, <2>4, DownloadsAssumption DEF Stage, Sought, Refused
<1> QED
  BY <1>4, <1>5, <1>6, <1>7 DEF DownloadInv

LEMMA FindEmptyKeeps ==
    ASSUME DownloadInv, NEW c \in handlers, FindFile(c), Through(c.id, 0)
    PROVE  DownloadInv'
<1>1. c.id \in Downloads /\ c.at \in Nat \cup {-1} /\ file[c.id] \in Seq(ContentChunk) /\ Len(file[c.id]) \in Nat
      /\ c.at < Len(file[c.id]) /\ online
  BY DownloadContentType DEF DownloadInv, DownloadTypes, OffsetInv, OfflineInv, Handler
<1>2. offset' \in [Downloads -> Nat] /\ offset'[c.id] = 0 /\ \A x \in Downloads : x # c.id => offset'[x] = offset[x]
  BY <1>1 DEF FindFile, DownloadInv, DownloadTypes
<1>3. /\ toClient' \in Seq(ClientMessage) /\ toClient' # <<>>
      /\ Len(toClient) + 1 \in DOMAIN toClient' /\ toClient'[Len(toClient) + 1] = Done(c.id)
      /\ \A i \in DOMAIN toClient : i \in DOMAIN toClient' /\ toClient'[i] = toClient[i] /\ i # Len(toClient) + 1
      /\ \A i \in DOMAIN toClient' : i \in DOMAIN toClient \/ i = Len(toClient) + 1
      /\ toClient' = Append(toClient, Done(c.id))
  <2>1. Done(c.id) \in ClientMessage
    BY <1>1 DEF ClientMessage, Done
  <2>2. toClient \in Seq(ClientMessage) /\ toClient' = toClient \o <<>> \o <<Done(c.id)>>
    BY DEF FindFile, SendChunk, FinishDownload, DownloadInv, DownloadTypes
  <2> QED
    BY <2>1, <2>2, Concatenated, Pushed
<1>4. c.at = -1 /\ handlers' = handlers \ {c} /\ slot' = NoDownload /\ Len(file[c.id]) = 0
      /\ UNCHANGED <<file, status, chunks, activeDownload, online, toServer, losses, hitches>>
  BY <1>1 DEF FindFile, SendChunk, FinishDownload, Through, tabState, Finding
<1> USE DEF Alive, Waiting, Pure, Got, Part, Start, ContinueAt, Frame, Done, Failed, Finding,
           Unknown, Silent, Only
<1>5. DownloadTypes' /\ OfflineInv'
  BY <1>1, <1>2, <1>3, <1>4 DEF DownloadInv, DownloadTypes, OfflineInv
<1>6. NewInv'
  BY <1>1, <1>2, <1>3, <1>4, DownloadsAssumption DEF DownloadInv, NewInv, DownloadTypes, OfflineInv,
     StartInv
<1>7. ActiveInv'
  BY <1>1, <1>2, <1>3, <1>4 DEF DownloadInv, ActiveInv
<1>8. AloneDownload'
  BY <1>1, <1>2, <1>3, <1>4, SMTT(30) DEF DownloadInv, AloneDownload, StageInv, Alone, Stage,
     Starting, Sought, Reading, Framed, Asking, Ending, Refused
<1>9. SlotInv' /\ HandlerInv'
  BY <1>1, <1>2, <1>3, <1>4 DEF DownloadInv, SlotInv, HandlerInv
<1>10. ResolvedIsTheFile'
  BY <1>1, <1>2, <1>3, <1>4 DEF DownloadInv, ResolvedIsTheFile
<1>11. OffsetInv'
  <2>1. \A x \in Downloads : Len(file[x]) \in Nat
    BY DownloadContentType DEF DownloadInv, DownloadTypes
  <2>2. \A x \in Downloads : offset'[x] <= Len(file[x])
    <3> SUFFICES ASSUME NEW x \in Downloads
                 PROVE  offset'[x] <= Len(file[x])
      OBVIOUS
    <3>1. offset[x] <= Len(file[x]) /\ Len(file[x]) \in Nat
      BY <2>1 DEF DownloadInv, OffsetInv
    <3>2. CASE x = c.id
      BY <1>1, <1>2, <1>3, <1>4, <3>1, <3>2
    <3>3. CASE x # c.id
      BY <1>1, <1>2, <1>3, <1>4, <3>1, <3>3
    <3> QED
      BY <3>2, <3>3
  <2>3. \A k \in handlers' : k.at < Len(file[k.id])
    BY <1>1, <1>2, <1>3, <1>4, <2>1 DEF DownloadInv, DownloadTypes, OffsetInv
  <2> QED
    BY <1>1, <1>2, <1>3, <1>4, <2>2, <2>3 DEF OffsetInv
<1>12. StartInv'
  <2> SUFFICES ASSUME NEW i \in DOMAIN toServer', toServer'[i].type = "start"
               PROVE  /\ Alive(toServer[i].id)' /\ Unknown(toServer[i].id)'
                      /\ \A j \in DOMAIN toServer' : toServer'[j] = toServer'[i] => j = i
    BY DEF StartInv
  <2>1. PICK e : e = toServer'[i].id
    OBVIOUS
  <2>2. i \in DOMAIN toServer /\ toServer[i].type = "start" /\ e = toServer[i].id
    BY <1>1, <1>2, <1>3, <1>4, <2>1
  <2>3. Alive(e) /\ Unknown(e) /\ e \in Downloads
    BY <2>2 DEF DownloadInv, DownloadTypes, StartInv, ServerMessage
  <2>4. \A j \in DOMAIN toServer' : toServer'[j] = toServer'[i] => j = i
    BY <1>1, <1>2, <1>3, <1>4, <2>2 DEF DownloadInv, StartInv
  <2>5. e # c.id
    BY <1>1, <1>2, <1>3, <1>4, <2>2, <2>3 DEF Unknown
  <2>6. Alive(e)'
    BY <1>1, <1>2, <1>3, <1>4, <2>3, <2>5
  <2>7. Unknown(e)'
    BY <1>1, <1>2, <1>3, <1>4, <2>3, <2>5, DownloadsAssumption DEF Unknown
  <2> QED
    BY <2>1, <2>4, <2>6, <2>7 DEF Unknown
<1>13. StageInv'
  <2> SUFFICES ASSUME NEW x \in Downloads, Pure(x)'
               PROVE  Stage(x)'
    BY DEF StageInv
  <2>1. Pure(x) /\ Alone(x) /\ Stage(x)
    BY <1>1, <1>2, <1>3, <1>4 DEF DownloadInv, AloneDownload, StageInv
  <2>2. x = c.id
    BY <1>1, <1>2, <1>3, <1>4, <2>1 DEF Alone
  <2>3. Sought(x)
    BY <1>1, <1>2, <1>3, <1>4, <2>1
      DEF Stage, Starting, Sought, Reading, Framed, Asking, Ending, Refused, DownloadInv, DownloadTypes
  <2>4. toClient' = <<Done(x)>> /\ handlers' = {}
    BY <1>1, <1>2, <1>3, <1>4, <2>2, <2>3 DEF Sought
  <2>5. chunks[x] = file[x]
    BY <1>1, <1>2, <1>3, <1>4, <2>2, <2>3 DEF Sought
  <2> QED
    BY <1>1, <1>2, <1>3, <1>4, <2>4, <2>5 DEF Stage, Ending
<1> QED
  BY <1>5, <1>6, <1>7, <1>8, <1>9, <1>10, <1>11, <1>12, <1>13 DEF DownloadInv

LEMMA FindFirstKeeps ==
    ASSUME DownloadInv, NEW c \in handlers, FindFile(c), ~Through(c.id, 0)
    PROVE  DownloadInv'
<1>1. c.id \in Downloads /\ c.at \in Nat \cup {-1} /\ file[c.id] \in Seq(ContentChunk) /\ Len(file[c.id]) \in Nat
      /\ c.at < Len(file[c.id]) /\ online
  BY DownloadContentType DEF DownloadInv, DownloadTypes, OffsetInv, OfflineInv, Handler
<1>2. offset' \in [Downloads -> Nat] /\ offset'[c.id] = 0 /\ \A x \in Downloads : x # c.id => offset'[x] = offset[x]
  BY <1>1 DEF FindFile, DownloadInv, DownloadTypes
<1> DEFINE h == [id |-> c.id, at |-> 0]
<1>3. h \in Handler /\ h.id = c.id /\ h.at = 0 /\ handlers' = (handlers \ {c}) \cup {h} /\ 0 < Len(file[c.id])
  BY <1>1 DEF FindFile, SendChunk, Through, Handler
<1>4. c.at = -1 /\ slot' = c.id /\ UNCHANGED toClient
      /\ UNCHANGED <<file, status, chunks, activeDownload, online, toServer, losses, hitches>>
  BY DEF FindFile, SendChunk, tabState, Finding
<1> USE DEF Alive, Waiting, Pure, Got, Part, Start, ContinueAt, Frame, Done, Failed, Finding,
           Unknown, Silent, Only
<1>5. DownloadTypes' /\ OfflineInv' /\ NewInv'
  BY <1>1, <1>2, <1>3, <1>4 DEF DownloadInv, DownloadTypes, OfflineInv, NewInv
<1>6. StartInv' /\ ActiveInv' /\ AloneDownload' /\ ResolvedIsTheFile'
  BY <1>1, <1>2, <1>3, <1>4 DEF DownloadInv, StartInv, ActiveInv, AloneDownload, Alone,
     ResolvedIsTheFile
<1>7. OffsetInv'
  <2>1. \A x \in Downloads : Len(file[x]) \in Nat
    BY DownloadContentType DEF DownloadInv, DownloadTypes
  <2>2. \A x \in Downloads : offset'[x] <= Len(file[x])
    <3> SUFFICES ASSUME NEW x \in Downloads
                 PROVE  offset'[x] <= Len(file[x])
      OBVIOUS
    <3>1. offset[x] <= Len(file[x]) /\ Len(file[x]) \in Nat
      BY <2>1 DEF DownloadInv, OffsetInv
    <3>2. CASE x = c.id
      BY <1>1, <1>2, <1>3, <1>4, <3>1, <3>2
    <3>3. CASE x # c.id
      BY <1>1, <1>2, <1>3, <1>4, <3>1, <3>3
    <3> QED
      BY <3>2, <3>3
  <2>3. \A k \in handlers' : k.at < Len(file[k.id])
    BY <1>1, <1>2, <1>3, <1>4, <2>1 DEF DownloadInv, DownloadTypes, OffsetInv
  <2> QED
    BY <1>1, <1>2, <1>3, <1>4, <2>2, <2>3 DEF OffsetInv
<1>8. StageInv'
  <2> SUFFICES ASSUME NEW x \in Downloads, Pure(x)'
               PROVE  Stage(x)'
    BY DEF StageInv
  <2>1. Pure(x) /\ Alone(x) /\ Stage(x)
    BY <1>1, <1>2, <1>3, <1>4 DEF DownloadInv, AloneDownload, StageInv
  <2>2. x = c.id
    BY <1>1, <1>2, <1>3, <1>4, <2>1 DEF Alone
  <2>3. Sought(x)
    BY <1>1, <1>2, <1>3, <1>4, <2>1
      DEF Stage, Starting, Sought, Reading, Framed, Asking, Ending, Refused, DownloadInv, DownloadTypes
  <2>4. handlers' = {[id |-> x, at |-> 0]}
    BY <1>1, <1>2, <1>3, <1>4, <2>2, <2>3 DEF Sought, h
  <2>5. Got(x) = 0 /\ Part(x)
    BY <1>1, <1>2, <1>3, <1>4, <2>2, <2>3 DEF Sought
  <2> QED
    BY <1>1, <1>2, <1>3, <1>4, <2>2, <2>3, <2>4, <2>5 DEF Stage, Sought, Reading
<1>9. SlotInv'
  <2> SUFFICES ASSUME slot' # NoDownload
               PROVE  Pure(slot)' \/ hitches'[slot'] \cap {"crossed", "unread"} # {}
    BY DEF SlotInv
  <2> QED
    BY <1>1, <1>2, <1>3, <1>4 DEF DownloadInv, HandlerInv
<1>10. HandlerInv'
  <2> SUFFICES ASSUME NEW k \in handlers'
               PROVE  Pure(k.id)' \/ hitches'[k.id] \cap {"crossed", "unread"} # {}
    BY DEF HandlerInv
  <2>1. CASE k = h
    BY <1>1, <1>2, <1>3, <1>4, <2>1 DEF DownloadInv, HandlerInv
  <2>2. CASE k \in handlers
    BY <1>1, <1>2, <1>3, <1>4, <2>2 DEF DownloadInv, HandlerInv
  <2> QED
    BY <1>1, <1>2, <1>3, <1>4, <2>1, <2>2
<1> QED
  BY <1>5, <1>6, <1>7, <1>8, <1>9, <1>10 DEF DownloadInv

LEMMA ReadLastKeeps ==
    ASSUME DownloadInv, NEW c \in handlers, Read(c), Through(c.id, c.at + 1)
    PROVE  DownloadInv'
<1>1. c.id \in Downloads /\ c.at \in Nat \cup {-1} /\ file[c.id] \in Seq(ContentChunk) /\ Len(file[c.id]) \in Nat
      /\ c.at < Len(file[c.id]) /\ online
  BY DownloadContentType DEF DownloadInv, DownloadTypes, OffsetInv, OfflineInv, Handler
<1> DEFINE f == Frame(file[c.id][c.at + 1])
<1>2. /\ c.at # -1 /\ c.at \in Nat /\ c.at + 1 \in 1 .. Len(file[c.id])
      /\ handlers' = handlers \ {c}
      /\ UNCHANGED <<file, status, chunks, activeDownload, online, toServer, losses, hitches>>
  BY <1>1 DEF Read, Finding, tabState
<1>3. offset' \in [Downloads -> Nat] /\ offset'[c.id] = c.at + 1 /\ \A x \in Downloads : x # c.id => offset'[x] = offset[x]
  BY <1>1, <1>2 DEF Read, DownloadInv, DownloadTypes
<1>4. f \in ClientMessage /\ f.type = "raw" /\ f.chunk = file[c.id][c.at + 1]
  BY <1>1, <1>2 DEF Frame, ClientMessage
<1>5. /\ toClient' = Append(Append(toClient, f), Done(c.id)) /\ toClient' \in Seq(ClientMessage)
      /\ \A i \in DOMAIN toClient' : (i \in DOMAIN toClient /\ toClient'[i] = toClient[i])
                                           \/ toClient'[i] \in {f, Done(c.id)}
  <2>1. Done(c.id) \in ClientMessage
    BY <1>1 DEF ClientMessage, Done
  <2>2. toClient \in Seq(ClientMessage) /\ toClient' = toClient \o <<f>> \o <<Done(c.id)>>
    BY DEF Read, FinishDownload, DownloadInv, DownloadTypes
  <2> HIDE DEF f
  <2>3. toClient' = Append(Append(toClient, f), Done(c.id)) /\ Append(toClient, f) \in Seq(ClientMessage)
    BY <1>4, <2>1, <2>2, Concatenated, Pushed
  <2> QED
    BY <1>4, <2>1, <2>2, <2>3, Pushed
<1>6. slot' = NoDownload /\ c.at + 1 = Len(file[c.id])
  BY <1>1, <1>2 DEF Read, FinishDownload, Through
<1> USE DEF Alive, Waiting, Pure, Got, Part, Start, ContinueAt, Frame, Done, Failed, Finding,
           Unknown, Silent, Only
<1>7. DownloadTypes' /\ OfflineInv'
  BY <1>1, <1>2, <1>3, <1>4, <1>5, <1>6 DEF DownloadInv, DownloadTypes, OfflineInv
<1>8. ActiveInv' /\ AloneDownload'
  BY <1>1, <1>2, <1>3, <1>4, <1>5, <1>6, DownloadsAssumption DEF DownloadInv, ActiveInv,
     AloneDownload, StageInv, Alone, Stage, Starting, Sought, Reading, Framed, Asking, Ending,
     Refused, DownloadTypes, OfflineInv, NewInv, StartInv
<1>9. SlotInv' /\ HandlerInv'
  BY <1>1, <1>2, <1>3, <1>4, <1>5, <1>6 DEF DownloadInv, SlotInv, HandlerInv
<1>10. ResolvedIsTheFile'
  BY <1>1, <1>2, <1>3, <1>4, <1>5, <1>6 DEF DownloadInv, ResolvedIsTheFile, DownloadTypes
<1>11. OffsetInv'
  <2>1. \A x \in Downloads : Len(file[x]) \in Nat
    BY DownloadContentType DEF DownloadInv, DownloadTypes
  <2>2. \A x \in Downloads : offset'[x] <= Len(file[x])
    <3> SUFFICES ASSUME NEW x \in Downloads
                 PROVE  offset'[x] <= Len(file[x])
      OBVIOUS
    <3>1. offset[x] <= Len(file[x]) /\ Len(file[x]) \in Nat
      BY <2>1 DEF DownloadInv, OffsetInv
    <3>2. CASE x = c.id
      BY <1>1, <1>2, <1>3, <1>4, <1>5, <1>6, <3>1, <3>2
    <3>3. CASE x # c.id
      BY <1>1, <1>2, <1>3, <1>4, <1>5, <1>6, <3>1, <3>3
    <3> QED
      BY <3>2, <3>3
  <2>3. \A k \in handlers' : k.at < Len(file[k.id])
    BY <1>1, <1>2, <1>3, <1>4, <1>5, <1>6, <2>1 DEF DownloadInv, DownloadTypes, OffsetInv
  <2> QED
    BY <1>1, <1>2, <1>3, <1>4, <1>5, <1>6, <2>2, <2>3 DEF OffsetInv
<1>12. NewInv'
  <2> SUFFICES ASSUME NEW x \in Downloads, status'[x] = "new"
               PROVE  /\ Unknown(x)' /\ Silent(toServer, x)' /\ activeDownload' # x
                      /\ chunks'[x] = <<>> /\ hitches'[x] = {}
    BY DEF NewInv
  <2>1. /\ status[x] = "new" /\ activeDownload # x /\ chunks[x] = <<>> /\ hitches[x] = {}
        /\ Unknown(x) /\ Silent(toServer, x)
    BY <1>1, <1>2, <1>3, <1>4, <1>5, <1>6 DEF DownloadInv, NewInv
  <2>2. x # c.id
    BY <1>1, <1>2, <1>3, <1>4, <1>5, <1>6, <2>1 DEF Unknown
  <2>3. Unknown(x)'
    BY <1>1, <1>2, <1>3, <1>4, <1>5, <1>6, <2>1, <2>2, DownloadsAssumption DEF Unknown
  <2>4. Silent(toServer, x)'
    BY <1>1, <1>2, <1>3, <1>4, <1>5, <1>6, <2>1, <2>2
  <2> QED
    BY <1>1, <1>2, <1>3, <1>4, <1>5, <1>6, <2>1, <2>2, <2>3, <2>4
<1>13. StartInv'
  <2> SUFFICES ASSUME NEW i \in DOMAIN toServer', toServer'[i].type = "start"
               PROVE  /\ Alive(toServer[i].id)' /\ Unknown(toServer[i].id)'
                      /\ \A j \in DOMAIN toServer' : toServer'[j] = toServer'[i] => j = i
    BY DEF StartInv
  <2>1. PICK e : e = toServer'[i].id
    OBVIOUS
  <2>2. i \in DOMAIN toServer /\ toServer[i].type = "start" /\ e = toServer[i].id
    BY <1>1, <1>2, <1>3, <1>4, <1>5, <1>6, <2>1
  <2>3. Alive(e) /\ Unknown(e) /\ e \in Downloads
    BY <2>2 DEF DownloadInv, DownloadTypes, StartInv, ServerMessage
  <2>4. \A j \in DOMAIN toServer' : toServer'[j] = toServer'[i] => j = i
    BY <1>1, <1>2, <1>3, <1>4, <1>5, <1>6, <2>2 DEF DownloadInv, StartInv
  <2>5. e # c.id
    BY <1>1, <1>2, <1>3, <1>4, <1>5, <1>6, <2>2, <2>3 DEF Unknown
  <2>6. Alive(e)'
    BY <1>1, <1>2, <1>3, <1>4, <1>5, <1>6, <2>3, <2>5
  <2>7. Unknown(e)'
    BY <1>1, <1>2, <1>3, <1>4, <1>5, <1>6, <2>3, <2>5, DownloadsAssumption DEF Unknown
  <2> QED
    BY <2>1, <2>4, <2>6, <2>7 DEF Unknown
<1>14. StageInv'
  <2> SUFFICES ASSUME NEW x \in Downloads, Pure(x)'
               PROVE  Stage(x)'
    BY DEF StageInv
  <2>1. Pure(x) /\ Alone(x) /\ Stage(x)
    BY <1>1, <1>2, <1>3, <1>4, <1>5, <1>6 DEF DownloadInv, AloneDownload, StageInv
  <2>2. x = c.id
    BY <1>1, <1>2, <1>3, <1>4, <1>5, <1>6, <2>1 DEF Alone
  <2>3. Reading(x)
    BY <1>1, <1>2, <1>3, <1>4, <1>5, <1>6, <2>1
      DEF Stage, Starting, Sought, Reading, Framed, Asking, Ending, Refused
  <2>4. c.at = Got(x) /\ handlers' = {} /\ Part(x)
    BY <1>1, <1>2, <1>3, <1>4, <1>5, <1>6, <2>3 DEF Reading
  <2>5. toClient' = <<Frame(file[x][Got(x) + 1]), Done(x)>>
    <3>1. toClient' = Append(Append(<<>>, f), Done(x))
      BY <1>1, <1>2, <1>3, <1>4, <1>5, <1>6, <2>2, <2>3 DEF Reading
    <3>2. f \in ClientMessage /\ Done(x) \in ClientMessage
      BY <1>1, <1>2, <1>3, <1>4, <1>5, <1>6 DEF ClientMessage
    <3>3. f = Frame(file[x][Got(x) + 1])
      BY <2>2, <2>4 DEF f
    <3>4. Append(Append(<<>>, f), Done(x)) = <<f, Done(x)>>
      <4> HIDE DEF f, Done
      <4> QED
        BY <3>2, Short
    <3> QED
      BY <3>1, <3>3, <3>4
  <2> QED
    BY <1>1, <1>2, <1>3, <1>4, <1>5, <1>6, <2>2, <2>3, <2>4, <2>5 DEF Stage, Reading, Framed
<1> QED
  BY <1>7, <1>8, <1>9, <1>10, <1>11, <1>12, <1>13, <1>14 DEF DownloadInv

LEMMA ReadMoreKeeps ==
    ASSUME DownloadInv, NEW c \in handlers, Read(c), ~Through(c.id, c.at + 1)
    PROVE  DownloadInv'
<1>1. c.id \in Downloads /\ c.at \in Nat \cup {-1} /\ file[c.id] \in Seq(ContentChunk) /\ Len(file[c.id]) \in Nat
      /\ c.at < Len(file[c.id]) /\ online
  BY DownloadContentType DEF DownloadInv, DownloadTypes, OffsetInv, OfflineInv, Handler
<1> DEFINE f == Frame(file[c.id][c.at + 1])
<1>2. /\ c.at # -1 /\ c.at \in Nat /\ c.at + 1 \in 1 .. Len(file[c.id])
      /\ handlers' = handlers \ {c}
      /\ UNCHANGED <<file, status, chunks, activeDownload, online, toServer, losses, hitches>>
  BY <1>1 DEF Read, Finding, tabState
<1>3. offset' \in [Downloads -> Nat] /\ offset'[c.id] = c.at + 1 /\ \A x \in Downloads : x # c.id => offset'[x] = offset[x]
  BY <1>1, <1>2 DEF Read, DownloadInv, DownloadTypes
<1>4. f \in ClientMessage /\ f.type = "raw" /\ f.chunk = file[c.id][c.at + 1]
  BY <1>1, <1>2 DEF Frame, ClientMessage
<1>5. /\ toClient' \in Seq(ClientMessage) /\ toClient' # <<>>
      /\ Len(toClient) + 1 \in DOMAIN toClient' /\ toClient'[Len(toClient) + 1] = f
      /\ \A i \in DOMAIN toClient : i \in DOMAIN toClient' /\ toClient'[i] = toClient[i] /\ i # Len(toClient) + 1
      /\ \A i \in DOMAIN toClient' : i \in DOMAIN toClient \/ i = Len(toClient) + 1
      /\ toClient' = Append(toClient, f)
  <2>1. toClient \in Seq(ClientMessage) /\ toClient' = Append(toClient, f)
    BY DEF Read, Sends, DownloadInv, DownloadTypes
  <2> HIDE DEF f
  <2> QED
    BY <1>4, <2>1, Pushed
<1>6. UNCHANGED slot /\ c.at + 1 < Len(file[c.id])
  BY <1>1, <1>2 DEF Read, Through
<1> USE DEF Alive, Waiting, Pure, Got, Part, Start, ContinueAt, Frame, Done, Failed, Finding,
           Unknown, Silent, Only
<1>7. StartInv' /\ ActiveInv'
  BY <1>1, <1>2, <1>3, <1>4, <1>5, <1>6 DEF DownloadInv, StartInv, ActiveInv
<1>8. AloneDownload' /\ SlotInv'
  BY <1>1, <1>2, <1>3, <1>4, <1>5, <1>6 DEF DownloadInv, AloneDownload, Alone, SlotInv
<1>9. HandlerInv' /\ ResolvedIsTheFile'
  BY <1>1, <1>2, <1>3, <1>4, <1>5, <1>6 DEF DownloadInv, HandlerInv, ResolvedIsTheFile,
     DownloadTypes
<1>10. DownloadTypes' /\ OfflineInv'
  BY <1>1, <1>2, <1>3, <1>4, <1>5, <1>6 DEF DownloadInv, DownloadTypes, OfflineInv
<1>11. NewInv'
  BY <1>1, <1>2, <1>3, <1>4, <1>5, <1>6 DEF DownloadInv, NewInv
<1>12. OffsetInv'
  <2>1. \A x \in Downloads : Len(file[x]) \in Nat
    BY DownloadContentType DEF DownloadInv, DownloadTypes
  <2>2. \A x \in Downloads : offset'[x] <= Len(file[x])
    <3> SUFFICES ASSUME NEW x \in Downloads
                 PROVE  offset'[x] <= Len(file[x])
      OBVIOUS
    <3>1. offset[x] <= Len(file[x]) /\ Len(file[x]) \in Nat
      BY <2>1 DEF DownloadInv, OffsetInv
    <3>2. CASE x = c.id
      BY <1>1, <1>2, <1>3, <1>4, <1>5, <1>6, <3>1, <3>2
    <3>3. CASE x # c.id
      BY <1>1, <1>2, <1>3, <1>4, <1>5, <1>6, <3>1, <3>3
    <3> QED
      BY <3>2, <3>3
  <2>3. \A k \in handlers' : k.at < Len(file[k.id])
    BY <1>1, <1>2, <1>3, <1>4, <1>5, <1>6, <2>1 DEF DownloadInv, DownloadTypes, OffsetInv
  <2> QED
    BY <1>1, <1>2, <1>3, <1>4, <1>5, <1>6, <2>2, <2>3 DEF OffsetInv
<1>13. StageInv'
  <2> SUFFICES ASSUME NEW x \in Downloads, Pure(x)'
               PROVE  Stage(x)'
    BY DEF StageInv
  <2>1. Pure(x) /\ Alone(x) /\ Stage(x)
    BY <1>1, <1>2, <1>3, <1>4, <1>5, <1>6 DEF DownloadInv, AloneDownload, StageInv
  <2>2. x = c.id
    BY <1>1, <1>2, <1>3, <1>4, <1>5, <1>6, <2>1 DEF Alone
  <2>3. Reading(x)
    BY <1>1, <1>2, <1>3, <1>4, <1>5, <1>6, <2>1
      DEF Stage, Starting, Sought, Reading, Framed, Asking, Ending, Refused
  <2>4. c.at = Got(x) /\ handlers' = {} /\ Part(x)
    BY <1>1, <1>2, <1>3, <1>4, <1>5, <1>6, <2>3 DEF Reading
  <2>5. toClient' = <<Frame(file[x][Got(x) + 1])>>
    <3>1. toClient' = Append(<<>>, f)
      BY <1>1, <1>2, <1>3, <1>4, <1>5, <1>6, <2>3 DEF Reading
    <3>2. f = Frame(file[x][Got(x) + 1])
      BY <2>2, <2>4 DEF f
    <3> QED
      BY <3>1, <3>2
  <2> QED
    BY <1>1, <1>2, <1>3, <1>4, <1>5, <1>6, <2>2, <2>3, <2>4, <2>5 DEF Stage, Reading, Framed
<1> QED
  BY <1>7, <1>8, <1>9, <1>10, <1>11, <1>12, <1>13 DEF DownloadInv

LEMMA ReadFailsKeeps ==
    ASSUME DownloadInv, NEW c \in handlers, ReadFails(c)
    PROVE  DownloadInv'
<1>1. c.id \in Downloads /\ c.at \in Nat \cup {-1} /\ file[c.id] \in Seq(ContentChunk) /\ Len(file[c.id]) \in Nat
      /\ c.at < Len(file[c.id]) /\ online
  BY DownloadContentType DEF DownloadInv, DownloadTypes, OffsetInv, OfflineInv, Handler
<1>2. /\ toClient' \in Seq(ClientMessage) /\ toClient' # <<>>
      /\ Len(toClient) + 1 \in DOMAIN toClient' /\ toClient'[Len(toClient) + 1] = Failed(c.id)
      /\ \A i \in DOMAIN toClient : i \in DOMAIN toClient' /\ toClient'[i] = toClient[i] /\ i # Len(toClient) + 1
      /\ \A i \in DOMAIN toClient' : i \in DOMAIN toClient \/ i = Len(toClient) + 1
      /\ toClient' = Append(toClient, Failed(c.id))
  <2>1. Failed(c.id) \in ClientMessage
    BY <1>1 DEF ClientMessage, Failed
  <2>2. toClient \in Seq(ClientMessage) /\ toClient' = Append(toClient, Failed(c.id))
    BY DEF ReadFails, Sends, DownloadInv, DownloadTypes
  <2> QED
    BY <2>1, <2>2, Pushed
<1>3. /\ c.at # -1 /\ handlers' = handlers \ {c} /\ losses' \in 0 .. MaxLosses
      /\ hitches' \in [Downloads -> SUBSET {"crossed", "closed", "unread"}]
      /\ "unread" \in hitches'[c.id] /\ hitches[c.id] \subseteq hitches'[c.id]
      /\ hitches'[c.id] \subseteq hitches[c.id] \cup {"unread"}
      /\ \A x \in Downloads : x # c.id => hitches'[x] = hitches[x]
      /\ UNCHANGED <<file, status, chunks, activeDownload, online, toServer, slot, offset>>
  BY <1>1, DownloadsAssumption DEF ReadFails, tabState, Finding, DownloadInv, DownloadTypes
<1> USE DEF Alive, Waiting, Pure, Got, Part, Start, ContinueAt, Frame, Done, Failed, Finding,
           Unknown, Silent, Only
<1>4. ActiveInv' /\ AloneDownload' /\ ResolvedIsTheFile'
  BY <1>1, <1>2, <1>3 DEF DownloadInv, ActiveInv, AloneDownload, Alone, ResolvedIsTheFile
<1>5. DownloadTypes' /\ OffsetInv'
  BY <1>1, <1>2, <1>3 DEF DownloadInv, DownloadTypes, OffsetInv
<1>6. OfflineInv' /\ NewInv'
  BY <1>1, <1>2, <1>3 DEF DownloadInv, OfflineInv, NewInv
<1>7. StartInv'
  <2> SUFFICES ASSUME NEW i \in DOMAIN toServer', toServer'[i].type = "start"
               PROVE  /\ Alive(toServer[i].id)' /\ Unknown(toServer[i].id)'
                      /\ \A j \in DOMAIN toServer' : toServer'[j] = toServer'[i] => j = i
    BY DEF StartInv
  <2>1. PICK e : e = toServer'[i].id
    OBVIOUS
  <2>2. i \in DOMAIN toServer /\ toServer[i].type = "start" /\ e = toServer[i].id
    BY <1>1, <1>2, <1>3, <2>1
  <2>3. Alive(e) /\ Unknown(e) /\ e \in Downloads
    BY <2>2 DEF DownloadInv, DownloadTypes, StartInv, ServerMessage
  <2>4. \A j \in DOMAIN toServer' : toServer'[j] = toServer'[i] => j = i
    BY <1>1, <1>2, <1>3, <2>2 DEF DownloadInv, StartInv
  <2>5. e # c.id
    BY <1>1, <1>2, <1>3, <2>2, <2>3 DEF Unknown
  <2>6. Alive(e)'
    BY <1>1, <1>2, <1>3, <2>3, <2>5
  <2>7. Unknown(e)'
    BY <1>1, <1>2, <1>3, <2>3, <2>5, DownloadsAssumption DEF Unknown
  <2> QED
    BY <2>1, <2>4, <2>6, <2>7 DEF Unknown
<1>8. StageInv'
  <2> SUFFICES ASSUME NEW x \in Downloads, Pure(x)'
               PROVE  Stage(x)'
    BY DEF StageInv
  <2>1. Pure(x) /\ Alone(x) /\ Stage(x)
    BY <1>1, <1>2, <1>3 DEF DownloadInv, AloneDownload, StageInv
  <2> QED
    BY <1>1, <1>2, <1>3, <2>1 DEF Alone
<1>9. SlotInv'
  <2> SUFFICES ASSUME slot' # NoDownload
               PROVE  Pure(slot)' \/ hitches'[slot'] \cap {"crossed", "unread"} # {}
    BY DEF SlotInv
  <2>1. slot \in Downloads /\ slot' = slot
    BY <1>1, <1>2, <1>3 DEF DownloadInv, DownloadTypes
  <2>2. CASE slot = c.id
    BY <1>1, <1>2, <1>3, <2>1, <2>2
  <2>3. CASE slot # c.id
    BY <1>1, <1>2, <1>3, <2>1, <2>3 DEF DownloadInv, SlotInv
  <2> QED
    BY <2>2, <2>3
<1>10. HandlerInv'
  <2> SUFFICES ASSUME NEW k \in handlers'
               PROVE  Pure(k.id)' \/ hitches'[k.id] \cap {"crossed", "unread"} # {}
    BY DEF HandlerInv
  <2>1. k \in handlers /\ k.id \in Downloads
    BY <1>1, <1>2, <1>3 DEF DownloadInv, DownloadTypes, Handler
  <2>2. CASE k.id = c.id
    BY <1>1, <1>2, <1>3, <2>2
  <2>3. CASE k.id # c.id
    BY <1>1, <1>2, <1>3, <2>1, <2>3 DEF DownloadInv, HandlerInv
  <2> QED
    BY <2>2, <2>3
<1> QED
  BY <1>4, <1>5, <1>6, <1>7, <1>8, <1>9, <1>10 DEF DownloadInv

-----------------------------------------------------------------------------
(* The specification.                                                      *)

LEMMA InitKeeps ==
    ASSUME DownloadInit
    PROVE  DownloadInv
<1> USE DEF DownloadInit
<1>1. DownloadTypes
  <2>1. toServer \in Seq(ServerMessage) /\ toClient \in Seq(ClientMessage)
    OBVIOUS
  <2>2. chunks \in [Downloads -> Seq(ContentChunk)]
    OBVIOUS
  <2> QED
    BY <2>1, <2>2, DownloadsAssumption DEF DownloadTypes
<1>2. OffsetInv
  BY DownloadContentType DEF OffsetInv
<1>3. OfflineInv /\ ActiveInv /\ SlotInv /\ HandlerInv /\ ResolvedIsTheFile
  BY DEF OfflineInv, ActiveInv, SlotInv, HandlerInv, ResolvedIsTheFile
<1>4. NewInv /\ StartInv
  BY DownloadsAssumption DEF NewInv, StartInv, Unknown, Silent
<1>5. AloneDownload /\ StageInv
  BY DEF AloneDownload, StageInv, Pure, Waiting
<1> QED
  BY <1>1, <1>2, <1>3, <1>4, <1>5 DEF DownloadInv

LEMMA StutterKeeps ==
    ASSUME DownloadInv, UNCHANGED downloadVars
    PROVE  DownloadInv'
<1> USE DEF downloadVars
<1>1. (DownloadTypes /\ OffsetInv /\ OfflineInv)'
  BY DEF DownloadInv, DownloadTypes, OffsetInv, OfflineInv
<1>2. (NewInv /\ StartInv /\ ActiveInv /\ ResolvedIsTheFile)'
  BY DEF DownloadInv, NewInv, StartInv, ActiveInv, ResolvedIsTheFile, Unknown, Silent, Alive, Waiting
<1>3. (AloneDownload /\ SlotInv /\ HandlerInv)'
  BY DEF DownloadInv, AloneDownload, SlotInv, HandlerInv, Alone, Pure, Alive, Waiting, Silent
<1>4. StageInv'
  BY DEF DownloadInv, StageInv, Pure, Waiting, Stage, Starting, Sought, Reading, Framed, Asking,
         Ending, Refused, Part, Got, Silent, Only
<1> QED
  BY <1>1, <1>2, <1>3, <1>4 DEF DownloadInv

LEMMA DownloadNextKeeps ==
    ASSUME DownloadInv, [DownloadNext]_downloadVars
    PROVE  DownloadInv'
<1>1. CASE UNCHANGED downloadVars
  BY <1>1, StutterKeeps
<1>2. ASSUME NEW d \in Downloads, Download(d)
      PROVE  DownloadInv'
  BY <1>2, DownloadKeeps
<1>3. CASE ReceiveFrame
  BY <1>3, FrameDroppedKeeps, FrameCountedKeeps
<1>4. CASE ReceiveDone
  BY <1>4, DoneKeeps
<1>5. CASE ReceiveError
  BY <1>5, ErrorKeeps
<1>6. CASE SendTimesOut
  BY <1>6, SendTimesOutKeeps
<1>7. CASE Lose
  BY <1>7, LoseKeeps
<1>8. CASE Reopen
  BY <1>8, ReopenKeeps
<1>9. CASE StartDownload
  BY <1>9, StartRefusedKeeps, StartTakenKeeps
<1>10. CASE ContinueDownload
  <2>1. toServer[1] = Head(toServer)
    <3>1. toServer \in Seq(ServerMessage) /\ toServer # <<>>
      BY <1>10 DEF ContinueDownload, Handles, DownloadInv, DownloadTypes
    <3> QED
      BY <3>1, Popped
  <2> QED
    BY <1>10, <2>1, ContinueIgnoredKeeps, ContinueEndKeeps, ContinueReadKeeps
<1>11. ASSUME NEW c \in handlers, RefuseDownload(c)
       PROVE  DownloadInv'
  BY <1>11, RefuseDownloadKeeps
<1>12. ASSUME NEW c \in handlers, FindFile(c)
       PROVE  DownloadInv'
  BY <1>12, FindEmptyKeeps, FindFirstKeeps
<1>13. ASSUME NEW c \in handlers, Read(c)
       PROVE  DownloadInv'
  BY <1>13, ReadLastKeeps, ReadMoreKeeps
<1>14. ASSUME NEW c \in handlers, ReadFails(c)
       PROVE  DownloadInv'
  BY <1>14, ReadFailsKeeps
<1> QED
  BY <1>1, <1>2, <1>3, <1>4, <1>5, <1>6, <1>7, <1>8, <1>9, <1>10, <1>11, <1>12, <1>13, <1>14
  DEF DownloadNext

LEMMA AlwaysDownloadInv == DownloadSpec => []DownloadInv
<1>1. DownloadInit => DownloadInv
  BY InitKeeps
<1>2. DownloadInv /\ [DownloadNext]_downloadVars => DownloadInv'
  BY DownloadNextKeeps
<1> QED
  BY <1>1, <1>2, PTL DEF DownloadSpec

\* The state of the downloads is of the type stated, and while the socket is closed
\* no message is on its way to the tab, and nothing is left of it on the server.
THEOREM DownloadsTyped == DownloadSpec => []DownloadTypeOK
<1>1. DownloadInv => DownloadTypeOK
  <2> SUFFICES ASSUME DownloadInv
               PROVE  DownloadTypeOK
    OBVIOUS
  <2>1. ASSUME NEW d \in Downloads
        PROVE  offset[d] \in 0 .. Len(file[d])
    <3>1. file[d] \in Contents /\ offset[d] \in Nat /\ offset[d] <= Len(file[d])
      BY DEF DownloadInv, DownloadTypes, OffsetInv
    <3>2. Len(file[d]) \in Nat
      BY <3>1, DownloadContentType
    <3> QED
      BY <3>1, <3>2
  <2> QED
    BY <2>1 DEF DownloadInv, DownloadTypes, OffsetInv, OfflineInv, DownloadTypeOK
<1> QED
  BY <1>1, AlwaysDownloadInv, PTL

\* A download that resolves alone has its file, chunk for chunk, however many
\* requests, refusals, failed reads and lost connections came before it.
THEOREM ResolvedDownloadsAreWhole == DownloadSpec => []ResolvedIsTheFile
<1>1. DownloadInv => ResolvedIsTheFile
  BY DEF DownloadInv
<1> QED
  BY <1>1, AlwaysDownloadInv, PTL

\* When every message is handled, no download waits and the server is free for the
\* next, but for those that crossed, closed or could not be read.
THEOREM DownloadsComeToAnEnd == DownloadSpec => []DownloadsEnd
<1>1. DownloadInv => DownloadsEnd
  <2> SUFFICES ASSUME DownloadInv, toServer = <<>>, toClient = <<>>, handlers = {}
               PROVE  /\ \A d \in Downloads : Waiting(d) => hitches[d] # {}
                      /\ slot # NoDownload => hitches[slot] \cap {"crossed", "unread"} # {}
    BY DEF DownloadsEnd
  <2>1. ASSUME NEW d \in Downloads, Stage(d)
        PROVE  FALSE
    <3>1. ~Starting(d) /\ ~Asking(d)
      BY DEF Starting, Asking, Only
    <3>2. ~Sought(d) /\ ~Reading(d)
      BY DEF Sought, Reading
    <3>3. ~Framed(d) /\ ~Ending(d) /\ ~Refused(d)
      BY DEF Framed, Ending, Refused
    <3> QED
      BY <2>1, <3>1, <3>2, <3>3 DEF Stage
  <2>2. \A d \in Downloads : ~Pure(d)
    BY <2>1 DEF DownloadInv, StageInv
  <2>3. slot # NoDownload => slot \in Downloads
    BY DEF DownloadInv, DownloadTypes
  <2> QED
    BY <2>2, <2>3 DEF DownloadInv, SlotInv, Pure
<1> QED
  BY <1>1, AlwaysDownloadInv, PTL
=============================================================================
