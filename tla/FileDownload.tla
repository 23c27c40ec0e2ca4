----------------------------- MODULE FileDownload -----------------------------
(***************************************************************************)
(* The downloads of one tab: download and its handlers in                  *)
(* packages/vue-files/src/index.js, and startDownload, continueDownload,   *)
(* sendDownloadChunk and finishDownload of packages/server-files.          *)
(*                                                                         *)
(* The server remembers one download per connection and answers each       *)
(* request of the tab with a raw frame; a frame does not say which         *)
(* download it is of, and the tab counts it to the one it began last.      *)
(* A file is a sequence of chunks, and a frame one chunk of it.  The info  *)
(* message, which only feeds the progress callback, is left out, and which *)
(* downloads a policy refuses is a nondeterministic choice.                *)
(***************************************************************************)
EXTENDS Integers, Sequences

CONSTANTS
    Downloads,  \* the calls of download()
    Contents,   \* what files may hold: sequences of chunks
    MaxLosses,  \* bound on lost connections and failing reads
    NoDownload

ASSUME DownloadsAssumption ==
    /\ MaxLosses \in Nat /\ NoDownload \notin Downloads
    /\ \A f \in Contents : f \in Seq({f[i] : i \in DOMAIN f})

VARIABLES
    file,           \* the content of the file a download asks for
    status,         \* the promise of download()
    chunks,         \* download.chunks; download.loaded is their number
    activeDownload, \* the download begun last, as long as it has not succeeded
    online,         \* the socket is open
    toServer,       \* messages of the tab, sent or waiting for the socket to open
    toClient,       \* messages and frames on their way to the tab
    slot,           \* downloads.get(client) on the server
    offset,         \* the offset of the server's download object
    handlers,       \* handlers that await the database or the storage
    losses,         \* connections lost and reads failed
    hitches         \* ghost: per download, the known ways to spoil it

downloadVars == <<file, status, chunks, activeDownload, online, toServer, toClient, slot,
                  offset, handlers, losses, hitches>>
tabState == <<file, status, chunks, activeDownload>>
server == <<slot, offset, handlers>>

Min2(m, n) == IF m < n THEN m ELSE n

ContentChunk == UNION {{content[i] : i \in DOMAIN content} : content \in Contents}
Handler == [id : Downloads, at : Nat \cup {-1}]

\* at: the chunk being read, or Finding.
Finding == -1

Start(d) == [type |-> "start", id |-> d]
ContinueAt(d, n) == [type |-> "next", id |-> d, offset |-> n]
Frame(c) == [type |-> "raw", chunk |-> c]
Done(d) == [type |-> "done", id |-> d]
Failed(d) == [type |-> "error", id |-> d]

Waiting(d) == status[d] = "waiting"

\* The download has a part in what happens on the present connection.
Alive(d) == Waiting(d) /\ "closed" \notin hitches[d]

DownloadTypeOK ==
    /\ file \in [Downloads -> Contents]
    /\ status \in [Downloads -> {"new", "waiting", "resolved", "rejected"}]
    /\ chunks \in [Downloads -> Seq(ContentChunk)]
    /\ activeDownload \in Downloads \cup {NoDownload} /\ slot \in Downloads \cup {NoDownload}
    /\ online \in BOOLEAN
    /\ ~online => toClient = <<>> /\ handlers = {} /\ slot = NoDownload
    /\ handlers \subseteq Handler
    /\ \A d \in Downloads : offset[d] \in 0 .. Len(file[d])
    /\ \A c \in handlers : c.at < Len(file[c.id])
    /\ losses \in 0 .. MaxLosses
    /\ hitches \in [Downloads -> SUBSET {"crossed", "closed", "unread"}]

DownloadInit ==
    /\ file \in [Downloads -> Contents]
    /\ status = [d \in Downloads |-> "new"]
    /\ chunks = [d \in Downloads |-> <<>>]
    /\ activeDownload = NoDownload /\ online = TRUE
    /\ toServer = <<>> /\ toClient = <<>>
    /\ slot = NoDownload /\ offset = [d \in Downloads |-> 0] /\ handlers = {}
    /\ losses = 0 /\ hitches = [d \in Downloads |-> {}]

-----------------------------------------------------------------------------
(* The tab.                                                                *)

\* A download is under way, in the tab or, though settled there, on the server.
Busy ==
    \/ \E d \in Downloads : Alive(d)
    \/ handlers # {} \/ toClient # <<>>
    \/ \E i \in DOMAIN toServer : toServer[i].id = slot

\* download(): later frames count to this one, whichever they are of.
Download(d) ==
    /\ status[d] = "new"
    /\ status' = [status EXCEPT ![d] = "waiting"]
    /\ activeDownload' = d
    /\ toServer' = Append(toServer, Start(d))
    /\ hitches' = [x \in Downloads |->
            IF Busy /\ (x = d \/ Alive(x))
            THEN hitches[x] \cup {"crossed"} ELSE hitches[x]]
    /\ UNCHANGED <<file, chunks, online, toClient, server, losses>>

Receives(type) ==
    /\ toClient # <<>> /\ Head(toClient).type = type
    /\ toClient' = Tail(toClient)
    /\ UNCHANGED <<file, online, server, losses, hitches>>

\* A frame that comes when there is no download is dropped.
ReceiveFrame ==
    /\ Receives("raw")
    /\ IF activeDownload = NoDownload THEN UNCHANGED <<chunks, toServer>>
       ELSE /\ chunks' = [chunks EXCEPT ![activeDownload] = Append(@, Head(toClient).chunk)]
            /\ toServer' = Append(toServer, ContinueAt(activeDownload, Len(chunks[activeDownload]) + 1))
    /\ UNCHANGED <<status, activeDownload>>

ReceiveDone ==
    /\ Receives("done")
    /\ LET d == Head(toClient).id IN
       IF Waiting(d)
       THEN /\ status' = [status EXCEPT ![d] = "resolved"]
            /\ activeDownload' = IF activeDownload = d THEN NoDownload ELSE activeDownload
       ELSE UNCHANGED <<status, activeDownload>>
    /\ UNCHANGED <<chunks, toServer>>

\* A download that failed stays activeDownload.
ReceiveError ==
    /\ Receives("error")
    /\ LET d == Head(toClient).id IN
       status' = IF Waiting(d) THEN [status EXCEPT ![d] = "rejected"] ELSE status
    /\ UNCHANGED <<chunks, activeDownload, toServer>>

\* The socket does not open in time for a request that waits for it.
SendTimesOut ==
    /\ ~online /\ toServer # <<>>
    /\ toServer' = Tail(toServer)
    /\ status' = [status EXCEPT ![Head(toServer).id] = "rejected"]
    /\ UNCHANGED <<file, chunks, activeDownload, online, toClient, server, losses, hitches>>

-----------------------------------------------------------------------------
(* The connection.                                                         *)

\* handleClose forgets the download; handlers that go on do so for a client nobody
\* hears of again.  Nothing settles the promises of the tab.
Lose ==
    /\ online /\ losses < MaxLosses
    /\ losses' = losses + 1
    /\ online' = FALSE /\ toServer' = <<>> /\ toClient' = <<>>
    /\ slot' = NoDownload /\ handlers' = {}
    /\ hitches' = [d \in Downloads |->
            IF Waiting(d) THEN hitches[d] \cup {"closed"} ELSE hitches[d]]
    /\ UNCHANGED <<tabState, offset>>

Reopen ==
    /\ ~online
    /\ online' = TRUE
    /\ UNCHANGED <<tabState, toServer, toClient, server, losses, hitches>>

-----------------------------------------------------------------------------
(* The server.                                                             *)

\* Seeded defect: the last chunk is taken to be sent when it is reached.
Through_Early(d, n) == n + 1 >= Len(file[d])
Through(d, n) == n >= Len(file[d])

\* Whatever download the connection has is forgotten.
\* Seeded defect: it is not.
FinishDownload_Remembers(d, frames) ==
    /\ slot' = d
    /\ toClient' = toClient \o frames \o <<Done(d)>>
FinishDownload(d, frames) ==
    /\ slot' = NoDownload
    /\ toClient' = toClient \o frames \o <<Done(d)>>

Sends(message) == toClient' = Append(toClient, message)

\* sendDownloadChunk, up to the read.
SendChunk(d, n, others) ==
    IF Through(d, n) THEN FinishDownload(d, <<>>) /\ handlers' = others
    ELSE slot' = d /\ handlers' = others \cup {[id |-> d, at |-> n]} /\ UNCHANGED toClient

Handles(type) ==
    /\ online /\ toServer # <<>> /\ Head(toServer).type = type
    /\ toServer' = Tail(toServer)
    /\ UNCHANGED <<tabState, online, losses, hitches>>

StartDownload ==
    /\ Handles("start")
    /\ LET d == Head(toServer).id IN
       IF slot # NoDownload THEN Sends(Failed(d)) /\ UNCHANGED handlers
       ELSE handlers' = handlers \cup {[id |-> d, at |-> Finding]} /\ UNCHANGED toClient
    /\ UNCHANGED <<slot, offset>>

\* There is no such file, or its policy refuses this user.
RefuseDownload(c) ==
    /\ c.at = Finding
    /\ handlers' = handlers \ {c}
    /\ Sends(Failed(c.id))
    /\ UNCHANGED <<tabState, online, toServer, slot, offset, losses, hitches>>

\* The file is found; another download of the connection is not looked for again.
FindFile(c) ==
    /\ c.at = Finding
    /\ offset' = [offset EXCEPT ![c.id] = 0]
    /\ SendChunk(c.id, 0, handlers \ {c})
    /\ UNCHANGED <<tabState, online, toServer, losses, hitches>>

\* Seeded defect: an offset past the end of the file is taken as it is.
Bounded_Never(d, n) == n
Bounded(d, n) == Min2(n, Len(file[d]))

ContinueDownload ==
    /\ Handles("next")
    /\ LET d == Head(toServer).id
           n == Bounded(d, Head(toServer).offset)
       IN  IF slot # d THEN UNCHANGED <<server, toClient>>
           ELSE /\ offset' = [offset EXCEPT ![d] = n]
                /\ SendChunk(d, n, handlers)

Read(c) ==
    /\ c.at # Finding
    /\ handlers' = handlers \ {c}
    /\ offset' = [offset EXCEPT ![c.id] = c.at + 1]
    /\ LET frame == Frame(file[c.id][c.at + 1]) IN
       IF Through(c.id, c.at + 1) THEN FinishDownload(c.id, <<frame>>)
       ELSE Sends(frame) /\ UNCHANGED slot
    /\ UNCHANGED <<tabState, online, toServer, losses, hitches>>

\* The tab is told, but the server goes on holding the download.
ReadFails(c) ==
    /\ c.at # Finding /\ losses < MaxLosses
    /\ losses' = losses + 1
    /\ handlers' = handlers \ {c}
    /\ Sends(Failed(c.id))
    /\ hitches' = [hitches EXCEPT ![c.id] = @ \cup {"unread"}]
    /\ UNCHANGED <<tabState, online, toServer, slot, offset>>

DownloadNext ==
    \/ \E d \in Downloads : Download(d)
    \/ ReceiveFrame \/ ReceiveDone \/ ReceiveError \/ SendTimesOut
    \/ Lose \/ Reopen
    \/ StartDownload \/ ContinueDownload
    \/ \E c \in handlers : RefuseDownload(c) \/ FindFile(c) \/ Read(c) \/ ReadFails(c)

DownloadSpec == DownloadInit /\ [][DownloadNext]_downloadVars

-----------------------------------------------------------------------------
(* Properties.                                                             *)

\* A download that succeeds has the whole file and nothing else, over closed
\* connections, refusals and failed reads, unless another was under way with it,
\* when frames are counted to the wrong one (vue-files index.js:63 and 128,
\* server-files index.js:284-301).
ResolvedIsTheFile ==
    \A d \in Downloads :
        status[d] = "resolved" /\ hitches[d] = {} => chunks[d] = file[d]

\* When all messages are handled, no download waits, and the server is free for the
\* next, unless downloads crossed, the connection of a download was lost (its
\* promise is never settled) or its file could not be read (the server refuses
\* every later download of the connection; server-files index.js:284 and 323).
DownloadsEnd ==
    online /\ toServer = <<>> /\ toClient = <<>> /\ handlers = {} =>
        /\ \A d \in Downloads : Waiting(d) => hitches[d] # {}
        /\ slot # NoDownload => hitches[slot] \cap {"crossed", "unread"} # {}
=============================================================================
