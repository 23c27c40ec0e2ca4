----------------------------- MODULE FileUpload -----------------------------
(***************************************************************************)
(* The upload of files: packages/server-files and the upload half of       *)
(* packages/vue-files.  A tab announces a file, the server asks for it     *)
(* chunk by chunk, stores it and answers with a token; a file whose hash   *)
(* is known is linked to the stored copy instead.                          *)
(*                                                                         *)
(* The server handles the messages of all connections at once.  A call is  *)
(* one handler under way; its pc names what it does when its await         *)
(* returns.  Between any two steps a connection may close, and any await   *)
(* of storage or database may throw.                                       *)
(*                                                                         *)
(* A file is a sequence of chunks, and its hash is the file itself.  An    *)
(* upload is its message id, which is also its uploadId, the id of its     *)
(* row, and the name of the blob it stores: each is random in the code.    *)
(***************************************************************************)
EXTENDS Naturals, Sequences, Functions

CONSTANTS
    Uploads,     \* calls of upload() in the tabs
    Clients,     \* connections; none opens again
    Files,       \* contents a tab may upload, sequences of chunks
    MaxFaults,   \* how many awaits may throw
    None

ASSUME FilesAssumption ==
    /\ MaxFaults \in Nat /\ Files # {}
    /\ \A f \in Files : f \in Seq({f[i] : i \in DOMAIN f})
    /\ None \notin Uploads \cup Clients

VARIABLES
    tab,         \* the tab's Map: new, waiting, or taken out with done or error
    job,         \* what each upload() was given
    held,        \* what keeps the tab from going on with an upload, if anything
    wire,        \* messages on the open connections
    open,        \* connections that are open
    active,      \* the server's Map uploads, from clients to uploads
    progress,    \* the server's upload objects: offset and running hash
    tmp, blobs,  \* the storage's files: tmp/<uploadId>.tmp and files/<name>
    rows,        \* the table file
    calls,       \* handlers under way
    faults,      \* awaits that have thrown
    lapses       \* ghost: which of the known lapses have happened

tabVars == <<tab, job, held>>
stored  == <<tmp, blobs>>
vars == <<tab, job, held, wire, open, active, progress, tmp, blobs, rows, calls,
          faults, lapses>>

\* overlap: an upload takes the place of another of its client in the Map.
\* evicted: an upload that ends removes another one from the Map.
\* late:    an upload enters the Map after its client closed.
\* stray:   a chunk that one upload sent is counted to another.
\* cut:     a client closes while a call works on its upload.
\* swallowed: what failUpload does fails, silently.
\* unlogged: the row of a new upload is written, and api.add then fails.
Lapse == {"overlap", "evicted", "stray", "late", "cut", "swallowed", "unlogged"}

\* applying: the row of a finished upload is on its way to the tab's cache.
\* refused:  the cache refused it.  unread: a chunk of the file could not be read.
Holdup == {"none", "applying", "refused", "unread"}

NoJob == [client |-> None, file |-> <<>>, hashed |-> FALSE]
NoRow == [status |-> "none", key |-> None, size |-> 0, sha |-> <<>>]

Job == [client : Clients \cup {None}, file : Files \cup {<<>>}, hashed : BOOLEAN]
Message == [type : {"start", "chunk", "next", "done", "error", "close"},
            u : Uploads \cup {None}, client : Clients, at : Nat]
\* A pc is named for the step that comes next.
Pc == {"lookup", "link", "linked", "clear", "add", "write", "written", "finish", "find",
       "remove", "update", "updated", "load", "abort", "mark"}
Call == [by : Message, pc : Pc, u : Uploads, key : Uploads, size : Nat]
Chunk == UNION {{f[i] : i \in DOMAIN f} : f \in Files}

TypeOK ==
    /\ tab \in [Uploads -> {"new", "waiting", "done", "error"}]
    /\ job \in [Uploads -> Job] /\ held \in [Uploads -> Holdup]
    /\ wire \subseteq Message
    /\ open \subseteq Clients
    /\ active \in [Clients -> Uploads \cup {None}]
    /\ \A u \in Uploads :
        /\ progress[u].offset \in 0 .. Len(job[u].file)
        /\ progress[u].hash \in Seq(Chunk) /\ progress[u].digested \in BOOLEAN
        /\ rows[u].status \in {"none", "uploading", "ready", "failed"}
        /\ rows[u].status = "ready" => rows[u].key \in Uploads
    /\ \A storage \in {tmp, blobs} :
        DOMAIN storage \subseteq Uploads /\ \A u \in DOMAIN storage : storage[u] \in Seq(Chunk)
    /\ calls \subseteq Call
    /\ faults \in 0 .. MaxFaults
    /\ lapses \subseteq Lapse

Init ==
    /\ tab = [u \in Uploads |-> "new"]
    /\ job = [u \in Uploads |-> NoJob] /\ held = [u \in Uploads |-> "none"]
    /\ wire = {} /\ open = Clients
    /\ active = [c \in Clients |-> None]
    /\ progress = [u \in Uploads |-> [offset |-> 0, hash |-> <<>>, digested |-> FALSE]]
    /\ tmp = <<>> /\ blobs = <<>>
    /\ rows = [u \in Uploads |-> NoRow]
    /\ calls = {}
    /\ faults = 0
    /\ lapses = {}

Msg(type, u, at) == [type |-> type, u |-> u, client |-> job[u].client, at |-> at]
\* What is on the wire once the server has sent m; sending to a closed client is
\* in vain.
Sent(m) == IF m.client \in open THEN wire \cup {m} ELSE wire

Goto(k, pc) == calls' = (calls \ {k}) \cup {[k EXCEPT !.pc = pc]}
End(k) == calls' = calls \ {k}
With(storage, u, content) ==
    [x \in DOMAIN storage \cup {u} |-> IF x = u THEN content ELSE storage[x]]
Without(storage, u) == Restrict(storage, DOMAIN storage \ {u})
Lapsed(cond, lapse) == IF cond THEN {lapse} ELSE {}
Size(u) == Len(job[u].file)

-----------------------------------------------------------------------------
(* The tab.                                                                *)

\* upload: with or without a hash (hash: false, hashMaxSize, no crypto.subtle).
Upload(u) ==
    /\ tab[u] = "new"
    /\ \E c \in open, f \in Files, hashed \in BOOLEAN :
        /\ job' = [job EXCEPT ![u] = [client |-> c, file |-> f, hashed |-> hashed]]
        /\ wire' = wire \cup {[type |-> "start", u |-> u, client |-> c, at |-> 0]}
    /\ tab' = [tab EXCEPT ![u] = "waiting"]
    /\ UNCHANGED <<held, open, active, progress, stored, rows, calls, faults, lapses>>

\* The handlers of the tab.  An upload that is settled is no longer in the tab's
\* own Map, and they ignore it.
SendUploadChunk(m) ==
    /\ m \in wire /\ m.type = "next"
    /\ wire' = (wire \ {m}) \cup
                 (IF tab[m.u] = "waiting" THEN {Msg("chunk", m.u, m.at)} ELSE {})
    /\ UNCHANGED <<tabVars, open, active, progress, stored, rows, calls, faults, lapses>>

\* The part of the file cannot be read : nobody
\* is told.
UnreadChunk(m) ==
    /\ m \in wire /\ m.type = "next" /\ tab[m.u] = "waiting"
    /\ faults < MaxFaults /\ faults' = faults + 1
    /\ wire' = wire \ {m}
    /\ held' = [held EXCEPT ![m.u] = "unread"]
    /\ UNCHANGED <<tab, job, open, active, progress, stored, rows, calls, lapses>>

Settled(m) ==
    /\ wire' = wire \ {m}
    /\ tab' = IF tab[m.u] = "waiting" THEN [tab EXCEPT ![m.u] = m.type] ELSE tab
    /\ UNCHANGED <<job, open, active, progress, stored, rows, calls, faults, lapses>>
UploadDone(m) ==
    /\ m \in wire /\ m.type = "done"
    /\ Settled(m)
    /\ held' = IF tab[m.u] = "waiting" THEN [held EXCEPT ![m.u] = "applying"] ELSE held
UploadError(m) == m \in wire /\ m.type = "error" /\ Settled(m) /\ UNCHANGED held

\* state.applyChange of the new row ends, and the promise is resolved; or the cache
\* refuses the row, and it never is.
Resolve(u) ==
    /\ held[u] = "applying"
    /\ held' = [held EXCEPT ![u] = "none"]
    /\ UNCHANGED <<tab, job, wire, open, active, progress, stored, rows, calls, faults, lapses>>
RowRefused(u) ==
    /\ held[u] = "applying"
    /\ faults < MaxFaults /\ faults' = faults + 1
    /\ held' = [held EXCEPT ![u] = "refused"]
    /\ UNCHANGED <<tab, job, wire, open, active, progress, stored, rows, calls, lapses>>

-----------------------------------------------------------------------------
(* The server: messages that arrive.                                       *)

\* startUpload up to its first await.  Only here is the Map looked at.
StartUpload(m) ==
    /\ m \in wire /\ m.type = "start"
    /\ active[m.client] = None
    /\ wire' = wire \ {m}
    /\ calls' = calls \cup
        {[by |-> m, pc |-> IF job[m.u].hashed THEN "lookup" ELSE "clear",
          u |-> m.u, key |-> m.u, size |-> 0]}
    /\ UNCHANGED <<tabVars, open, active, progress, stored, rows, faults, lapses>>

\* Upload already active; or not signed in, or not an acceptable size.
Refuse(m) ==
    /\ m \in wire /\ m.type = "start"
    /\ wire' = (wire \ {m}) \cup {Msg("error", m.u, 0)}
    /\ UNCHANGED <<tabVars, open, active, progress, stored, rows, calls, faults, lapses>>

\* failUpload, and the delete of finishUpload: the client's entry goes, whatever
\* upload it names.
Forget(c, u) ==
    /\ active' = [active EXCEPT ![c] = None]
    /\ lapses' = lapses \cup Lapsed(active[c] \notin {u, None}, "evicted")

\* handleRawMessage: a binary frame belongs to the upload the client has now.
Belongs(c) == active[c]
TakeChunk(m) ==
    /\ m \in wire /\ m.type = "chunk"
    /\ wire' = wire \ {m}
    /\ LET u == Belongs(m.client)
           k == [by |-> m, pc |-> "write", u |-> u, key |-> u, size |-> 0]
       IN  IF u = None THEN UNCHANGED <<active, calls, lapses>>
           ELSE /\ lapses' = lapses \cup Lapsed(m.u # u, "stray")
                /\ IF progress[u].offset + 1 > Size(u)
                   THEN /\ active' = [active EXCEPT ![m.client] = None]
                        /\ calls' = calls \cup {[k EXCEPT !.pc = "abort"]}
                   ELSE /\ calls' = calls \cup {k}
                        /\ UNCHANGED active
    /\ UNCHANGED <<tabVars, open, progress, stored, rows, faults>>

\* A connection closes: handleClose.
\* Seeded defect: the entry goes and the upload is not failed.
Orphaned_Ignored(c) == {}
Orphaned(c) ==
    IF active[c] = None THEN {}
    ELSE {[by |-> [type |-> "close", u |-> None, client |-> c, at |-> 0], pc |-> "abort",
           u |-> active[c], key |-> active[c], size |-> 0]}
Close(c) ==
    /\ c \in open
    /\ open' = open \ {c}
    /\ wire' = {m \in wire : m.client # c}
    /\ active' = [active EXCEPT ![c] = None]
    /\ calls' = calls \cup Orphaned(c)
    /\ lapses' = lapses \cup Lapsed(\E k \in calls : k.u = active[c], "cut")
    /\ UNCHANGED <<tabVars, progress, stored, rows, faults>>

-----------------------------------------------------------------------------
(* The server: the rest of startUpload, and linkExisting.                  *)

\* findOne({ sha256, size, status: "ready" })
Twins(sha, size) ==
    {u \in Uploads : rows[u].status = "ready" /\ rows[u].sha = sha /\ rows[u].size = size}

LookUp(k) ==
    /\ k.pc = "lookup"
    /\ LET twins == Twins(job[k.u].file, Size(k.u))
       IN  \/ /\ twins = {}
              /\ Goto(k, "clear")
           \/ \E t \in twins :
                calls' = (calls \ {k}) \cup {[k EXCEPT !.pc = "link", !.key = rows[t].key]}
    /\ UNCHANGED <<tabVars, wire, open, active, progress, stored, rows, faults, lapses>>

LinkedRow(k) ==
    [status |-> "ready", key |-> k.key, size |-> Size(k.u), sha |-> job[k.u].file]
Link(k) ==
    /\ k.pc = "link"
    /\ rows' = [rows EXCEPT ![k.u] = LinkedRow(k)]
    /\ Goto(k, "linked")
    /\ UNCHANGED <<tabVars, wire, open, active, progress, stored, faults, lapses>>

Clear(k) ==
    /\ k.pc = "clear"
    /\ tmp' = Without(tmp, k.u)
    /\ Goto(k, "add")
    /\ UNCHANGED <<tabVars, wire, open, active, progress, blobs, rows, faults, lapses>>

\* The row is added and the upload enters the Map.  An empty file is finished at
\* once, and its hash cannot be wrong.
FirstAsk(u) == Sent(Msg("next", u, 0))
Add(k) ==
    /\ k.pc = "add"
    /\ LET c == job[k.u].client
       IN  /\ rows' = [rows EXCEPT ![k.u].status = "uploading"]
           /\ active' = [active EXCEPT ![c] = k.u]
           /\ lapses' = lapses \cup Lapsed(active[c] # None, "overlap")
                               \cup Lapsed(c \notin open, "late")
    /\ IF Size(k.u) = 0
       THEN /\ progress' = [progress EXCEPT ![k.u].digested = TRUE]
            /\ Goto(k, "finish") /\ UNCHANGED wire
       ELSE /\ wire' = FirstAsk(k.u)
            /\ End(k) /\ UNCHANGED progress
    /\ UNCHANGED <<tabVars, open, stored, faults>>

-----------------------------------------------------------------------------
(* The server: receiveUploadChunk and finishUpload.                        *)

\* The chunk's file is that of the upload that sent it.
ChunkOf(m) == job[m.u].file[m.at + 1]

\* writeChunk appends; it makes the file if there is none.
WriteChunk(k) ==
    /\ k.pc = "write"
    /\ LET before == IF k.u \in DOMAIN tmp THEN tmp[k.u] ELSE <<>>
       IN  tmp' = With(tmp, k.u, Append(before, ChunkOf(k.by)))
    /\ Goto(k, "written")
    /\ UNCHANGED <<tabVars, wire, open, active, progress, blobs, rows, faults, lapses>>

FailCall(k) == Forget(job[k.u].client, k.u) /\ Goto(k, "abort")

\* The claimed hash is another than that of the chunks received.
\* Seeded defect: the claim is trusted.
WrongHash_Never(u, hash) == FALSE
WrongHash(u, hash) == job[u].hashed /\ hash # job[u].file

\* After the write: the hash goes on (and throws if it has been taken), the next
\* chunk is asked for or the upload is finished.
CountChunk(k) ==
    /\ k.pc = "written"
    /\ LET p == progress[k.u]
           hash == Append(p.hash, ChunkOf(k.by))
           offset == p.offset + 1
       IN  IF p.digested
           THEN FailCall(k) /\ UNCHANGED <<progress, wire>>
           ELSE /\ progress' = [progress EXCEPT ![k.u] =
                        [offset |-> offset, hash |-> hash, digested |-> offset >= Size(k.u)]]
                /\ IF offset < Size(k.u)
                   THEN wire' = Sent(Msg("next", k.u, offset)) /\ End(k) /\ UNCHANGED <<active, lapses>>
                   ELSE /\ UNCHANGED wire
                        /\ IF WrongHash(k.u, hash) THEN FailCall(k)
                           ELSE Goto(k, "finish") /\ UNCHANGED <<active, lapses>>
    /\ UNCHANGED <<tabVars, open, stored, rows, faults>>

\* storage.finish: an empty file is stored if there is no temporary one.
Finish(k) ==
    /\ k.pc = "finish"
    /\ LET content == IF k.u \in DOMAIN tmp THEN tmp[k.u] ELSE <<>>
       IN  /\ blobs' = With(blobs, k.u, content)
           /\ calls' = (calls \ {k}) \cup {[k EXCEPT !.pc = "find", !.size = Len(content)]}
    /\ tmp' = Without(tmp, k.u)
    /\ UNCHANGED <<tabVars, wire, open, active, progress, rows, faults, lapses>>

Find(k) ==
    /\ k.pc = "find"
    /\ LET twins == Twins(progress[k.u].hash, k.size)
       IN  \/ /\ twins = {}
              /\ Goto(k, "update")
           \/ \E t \in twins :
                calls' = (calls \ {k}) \cup {[k EXCEPT !.pc = "remove", !.key = rows[t].key]}
    /\ UNCHANGED <<tabVars, wire, open, active, progress, stored, rows, faults, lapses>>

\* The second copy goes, and the row will name the first.
\* Seeded defect: the copy to go is the one the row will name.
Superfluous_Shared(k) == k.key
Superfluous(k) == k.u
RemoveCopy(k) ==
    /\ k.pc = "remove"
    /\ blobs' = Without(blobs, Superfluous(k))
    /\ Goto(k, "update")
    /\ UNCHANGED <<tabVars, wire, open, active, progress, tmp, rows, faults, lapses>>

\* Seeded defect: the row is not told where its bytes are.
ReadyRow_NoKey(k) ==
    [status |-> "ready", key |-> None, size |-> k.size, sha |-> progress[k.u].hash]
ReadyRow(k) ==
    [status |-> "ready", key |-> k.key, size |-> k.size, sha |-> progress[k.u].hash]
UpdateRow(k) ==
    /\ k.pc = "update"
    /\ rows' = [rows EXCEPT ![k.u] = ReadyRow(k)]
    /\ Goto(k, "updated")
    /\ UNCHANGED <<tabVars, wire, open, active, progress, stored, faults, lapses>>

LeaveMap(k) ==
    /\ k.pc = "updated"
    /\ Forget(job[k.u].client, k.u)
    /\ Goto(k, "load")
    /\ UNCHANGED <<tabVars, wire, open, progress, stored, rows, faults>>

\* The row is read back and upload_done sent, here and in linkExisting.
Answer(k) ==
    /\ k.pc \in {"load", "linked"}
    /\ wire' = Sent(Msg("done", k.u, 0))
    /\ End(k)
    /\ UNCHANGED <<tabVars, open, active, progress, stored, rows, faults, lapses>>

-----------------------------------------------------------------------------
(* The server: failUpload, and awaits that throw.                          *)

Abort(k) ==
    /\ k.pc = "abort"
    /\ tmp' = Without(tmp, k.u)
    /\ Goto(k, "mark")
    /\ UNCHANGED <<tabVars, wire, open, active, progress, blobs, rows, faults, lapses>>

\* handleClose has nobody to answer.
\* Seeded defect: nobody is answered.
Regret_Never(k) == wire
Regret(k) == IF k.by.type = "close" THEN wire ELSE Sent(Msg("error", k.u, 0))

MarkFailed(k) ==
    /\ k.pc = "mark"
    /\ rows' = [rows EXCEPT ![k.u].status = "failed"]
    /\ wire' = Regret(k)
    /\ End(k)
    /\ UNCHANGED <<tabVars, open, active, progress, stored, faults, lapses>>

Throw(k) ==
    /\ faults < MaxFaults
    /\ faults' = faults + 1
    /\ \/ /\ k.pc \in {"lookup", "link", "linked", "clear", "add"}
          /\ wire' = Sent(Msg("error", k.u, 0))
          /\ End(k) /\ UNCHANGED <<active, lapses>>
       \/ /\ k.pc \in {"write", "finish", "find", "remove", "update", "load"}
          /\ FailCall(k) /\ UNCHANGED wire
       \/ /\ k.pc = "abort"
          /\ lapses' = lapses \cup {"swallowed"}
          /\ Goto(k, "mark") /\ UNCHANGED <<active, wire>>
       \/ /\ k.pc = "mark"
          /\ lapses' = lapses \cup {"swallowed"}
          /\ wire' = Regret(k)
          /\ End(k) /\ UNCHANGED active
    /\ UNCHANGED <<tabVars, open, progress, stored, rows>>

\* A write of the table that throws when the row is written: the log does not take
\* the change, or a hook afterWrite fails.  (In failUpload nobody sees the difference
\* to MarkFailed.)
ThrowSaved(k) ==
    /\ faults < MaxFaults
    /\ faults' = faults + 1
    /\ \/ /\ k.pc = "link"
          /\ rows' = [rows EXCEPT ![k.u] = LinkedRow(k)]
          /\ wire' = Sent(Msg("error", k.u, 0))
          /\ End(k) /\ UNCHANGED <<active, lapses>>
       \/ /\ k.pc = "add"
          /\ rows' = [rows EXCEPT ![k.u].status = "uploading"]
          /\ lapses' = lapses \cup {"unlogged"}
          /\ wire' = Sent(Msg("error", k.u, 0))
          /\ End(k) /\ UNCHANGED active
       \/ /\ k.pc = "update"
          /\ rows' = [rows EXCEPT ![k.u] = ReadyRow(k)]
          /\ FailCall(k) /\ UNCHANGED wire
    /\ UNCHANGED <<tabVars, open, progress, stored>>

CallStep(k) ==
    \/ LookUp(k) \/ Link(k) \/ Clear(k) \/ Add(k)
    \/ WriteChunk(k) \/ CountChunk(k)
    \/ Finish(k) \/ Find(k) \/ RemoveCopy(k) \/ UpdateRow(k) \/ LeaveMap(k) \/ Answer(k)
    \/ Abort(k) \/ MarkFailed(k) \/ Throw(k) \/ ThrowSaved(k)

Next ==
    \/ \E k \in calls : CallStep(k)
    \/ \E m \in wire : StartUpload(m) \/ Refuse(m) \/ TakeChunk(m)
    \/ \E m \in wire : SendUploadChunk(m) \/ UnreadChunk(m) \/ UploadDone(m) \/ UploadError(m)
    \/ \E u \in Uploads : Upload(u) \/ Resolve(u) \/ RowRefused(u)
    \/ \E c \in Clients : Close(c)

Spec == Init /\ [][Next]_vars

-----------------------------------------------------------------------------
(* Properties.                                                             *)

\* The bytes a ready row names are stored, and have the size and the hash the
\* server computed for it, however uploads share blobs, fail and remove copies;
\* unless a connection closed in the middle of a chunk, or a chunk was counted to
\* another upload than its own: then chunks may be written in another order than
\* they are hashed.
ReadyIsWhole ==
    \/ lapses \cap {"stray", "cut"} # {}
    \/ \A u \in Uploads : rows[u].status = "ready" =>
        LET r == rows[u]
        IN  r.key \in DOMAIN blobs /\ blobs[r.key] = r.sha /\ r.size = Len(r.sha)

\* A caller of upload() that is told it succeeded has a ready row with the hash of
\* its own file; even if chunks went astray, provided it sent a hash.
DoneIsMine ==
    \A u \in Uploads : tab[u] = "done" =>
        /\ rows[u].status = "ready" \/ "stray" \in lapses
        /\ rows[u].sha = job[u].file \/ (~job[u].hashed /\ "stray" \in lapses)

\* "An interrupted upload is marked failed and its temporary file is removed":
\* once the calls a closed connection left are over, no row of it is still
\* uploading and no temporary file is left, unless one of the lapses named here
\* happened.
InterruptedIsFailed ==
    \A u \in Uploads :
        job[u].client \notin open \cup {None} /\ (\A k \in calls : k.u # u) =>
            /\ rows[u].status = "uploading" =>
                lapses \cap {"overlap", "evicted", "late", "swallowed", "unlogged"} # {}
            /\ u \in DOMAIN tmp =>
                lapses \cap {"overlap", "evicted", "cut", "swallowed"} # {}

\* The promise of upload() is neither resolved nor rejected.
Pending(u) == tab[u] = "waiting" \/ held[u] \in {"applying", "refused"}

\* Nobody waits for ever: when no call is under way, nothing is on the wire and no
\* row on its way to a cache, a caller of upload() has its answer, unless its
\* connection closed (nobody tells it, then), uploads of one connection got in each
\* other's way, its own file could not be read, or its own cache refused the new row.
\* Calls and messages are finitely many, so such a moment comes unless somebody
\* uploads again and again.
NobodyWaits ==
    calls = {} /\ wire = {} /\ (\A u \in Uploads : held[u] # "applying") =>
        \A u \in Uploads : Pending(u) =>
            \/ job[u].client \notin open
            \/ lapses \cap {"overlap", "evicted"} # {}
            \/ held[u] \in {"unread", "refused"}

=============================================================================
