------------------------------- MODULE Session -------------------------------
(***************************************************************************)
(* The life of one tab's connection: socket.js, autoAuth, authByHash,      *)
(* login, logout and the wake-ups of packages/vue, against the hub and the *)
(* auth handlers of packages/server-mongo.  Which changes a sync carries   *)
(* is the business of module Sync; here a tab is current or not, so the    *)
(* number of writes is not bounded.                                        *)
(*                                                                         *)
(* What the server sends on a connection arrives in order, or is lost with *)
(* the connection.  A request whose answer is lost ends in the timeout of  *)
(* rpcTimeout, which a reconnection does not cut short: reconnectDelay is  *)
(* 1 s, rpcTimeout 15 s.  A request on a connection that lives is answered *)
(* in time.                                                                *)
(***************************************************************************)
EXTENDS Integers, Sequences, SequencesExt

CONSTANTS
    Logins,          \* whether the user calls login
    Logouts,         \* whether the user calls logout
    Rotations,       \* whether the server's hash may change
    SyncErrors       \* whether the server may answer sync with an error

ASSUME SessionFlags == {Logins, Logouts, Rotations, SyncErrors} \subseteq BOOLEAN

VARIABLES
    link,       \* the WebSocket: "open" or "closed"
    wire,       \* what the server has sent on it and the tab has not received
    user,       \* whether the server knows who the connection's user is
    valid,      \* whether the saved hash is the user's hash on the server
    saved,      \* state.auth.userId and hash, and their copy in authStorage
    status,     \* state.auth.status
    auth,       \* the authByHash in progress (autoAuthPromise)
    login,      \* the login in progress
    logout,     \* the logout in progress
    sync,       \* the syncNow in progress (syncPromise)
    current,    \* what the tab holds has every change
    covers,     \* the answer of the sync in progress has every change
    due,        \* the broadcaster's timer is set
    lapses      \* ghost: known ways to miss a change that have happened

server == <<user, valid, due>>
runs == <<auth, login, logout, sync>>
vars == <<link, wire, server, saved, status, runs, current, covers, lapses>>

Message == {"hello", "ping", "authOk", "authNo", "loginOk", "loginNo", "logoutOk",
            "syncOk", "syncNo"}

\* sent: the request is on its way; served: the answer is; lost: neither will
\* arrive; waiting: for the socket to open.
Request == {"idle", "waiting", "sent", "served", "lost"}

TypeOK ==
    /\ link \in {"open", "closed"}
    /\ wire \in Seq(Message)
    /\ {user, valid, saved, current, covers, due} \subseteq BOOLEAN
    /\ status \in {"anonymous", "restored", "authorizing", "authorized"}
    /\ auth \in Request \cup {"syncing", "retrying"}
    /\ login \in Request \cup {"clearing"}
    /\ logout \in Request
    /\ sync \in Request \cup {"read", "applying"}
    /\ lapses \subseteq {"coalesced", "syncFailed", "loginOutlived"}

\* A page opened with or without a saved sign-in, that has been away.
Init ==
    /\ link = "closed" /\ wire = <<>> /\ user = FALSE /\ valid = TRUE
    /\ saved \in BOOLEAN
    /\ status = IF saved THEN "restored" ELSE "anonymous"
    /\ auth = "idle" /\ login = "idle" /\ logout = "idle" /\ sync = "idle"
    /\ current = FALSE /\ covers = FALSE /\ due = FALSE
    /\ lapses = {}

-----------------------------------------------------------------------------
(* Pieces of the handlers.                                                 *)

\* rpc and system: wait for the socket to open, then send.
Send == IF link = "open" THEN "sent" ELSE "waiting"

\* syncNow joins the run in progress, whatever became of its request and whatever
\* has been written since its window was decided.
Coalesces == sync \in {"read", "served", "applying"} /\ ~covers

SyncNow ==
    /\ sync' = IF sync = "idle" THEN Send ELSE sync
    /\ lapses' = IF Coalesces THEN lapses \cup {"coalesced"} ELSE lapses

\* syncWhenReady, on open and on hello: authByHash, unless one is in progress, or
\* a sync if the tab is authorized already.  A sync that waited is sent.
SyncWhenReady ==
    LET authorized == status = "authorized"
        starts == ~authorized /\ saved /\ auth = "idle"
    IN  /\ auth' = IF starts THEN "sent" ELSE auth
        /\ status' = IF starts THEN "authorizing" ELSE status
        /\ sync' = IF sync = "waiting" \/ (authorized /\ sync = "idle")
                   THEN "sent" ELSE sync

\* catch of authByHash, and the end of logout.
\* Seeded defect: the status is the server's error, which no caller knows.
SignedOut_AsError == saved' = FALSE /\ status' = "unauthorized"
SignedOut == saved' = FALSE /\ status' = "anonymous"

\* What becomes of a request when its connection is lost.
LostWith(request) ==
    IF request \in {"sent", "read", "served"} THEN "lost" ELSE request

Receives(message) == wire # <<>> /\ Head(wire) = message /\ wire' = Tail(wire)
Answers(message) == link = "open" /\ wire' = Append(wire, message)

\* The request fails at the tab: the answer is an error, or does not come in
\* time.
\* Seeded defect: there is no timeout.
Fails_WithoutTimeout(request, error) == request = "served" /\ Receives(error)
Fails(request, error) ==
    \/ request = "served" /\ Receives(error)
    \/ request \in {"lost", "waiting"} /\ wire' = wire

-----------------------------------------------------------------------------
(* The connection.                                                         *)

\* The socket opens (addClient sends hello), and the requests that waited go out,
\* before anything else on this connection; logout is handled as it arrives.
Open ==
    /\ link = "closed"
    /\ link' = "open"
    /\ wire' = IF logout = "waiting" THEN <<"hello", "logoutOk">> ELSE <<"hello">>
    /\ logout' = IF logout = "waiting" THEN "served" ELSE logout
    /\ login' = IF login = "waiting" THEN "sent" ELSE login
    /\ SyncWhenReady
    /\ UNCHANGED <<server, saved, current, covers, lapses>>

ReceiveHello ==
    /\ Receives("hello")
    /\ SyncWhenReady
    /\ UNCHANGED <<link, server, saved, login, logout, current, covers, lapses>>

\* A login whose answer is on its way or has come goes on to set authorized, after
\* its user is logged out or its connection lost.
LoginOutlived(stages) == IF login \in stages THEN {"loginOutlived"} ELSE {}

\* The status after socketClose.
\* Seeded defect: a tab that is authorized stays so.
Downgraded_Authorizing == IF status = "authorizing" THEN "restored" ELSE status
Downgraded ==
    IF status \notin {"authorized", "authorizing"} THEN status
    ELSE IF saved THEN "restored" ELSE "anonymous"

Close ==
    /\ link = "open"
    /\ link' = "closed" /\ wire' = <<>> /\ user' = FALSE
    /\ status' = Downgraded
    /\ auth' = LostWith(auth) /\ login' = LostWith(login)
    /\ logout' = LostWith(logout) /\ sync' = LostWith(sync)
    /\ lapses' = lapses \cup LoginOutlived({"clearing"})
    /\ UNCHANGED <<valid, due, saved, current, covers>>

-----------------------------------------------------------------------------
(* authByHash: the request, the sync it awaits, and retryUnloadedTables.   *)

ServeAuth ==
    /\ auth = "sent"
    /\ auth' = "served"
    /\ user' = (user \/ valid)
    /\ Answers(IF valid THEN "authOk" ELSE "authNo")
    /\ UNCHANGED <<link, valid, due, saved, status, login, logout, sync, current,
                   covers, lapses>>

\* Seeded defect: no sync after the sign-in.
AfterAuth_NoSync == auth' = "retrying" /\ UNCHANGED <<sync, lapses>>
AfterAuth == auth' = "syncing" /\ SyncNow

AuthSucceeds ==
    /\ Receives("authOk") /\ auth = "served"
    /\ status' = "authorized"
    /\ AfterAuth
    /\ UNCHANGED <<link, server, saved, login, logout, current, covers>>

AuthFails ==
    /\ Fails(auth, "authNo")
    /\ SignedOut
    /\ auth' = "idle"
    /\ UNCHANGED <<link, server, login, logout, sync, current, covers, lapses>>

\* The loads and queries that were retried have all ended, one way or another.
AuthEnds ==
    /\ auth = "retrying"
    /\ auth' = "idle"
    /\ UNCHANGED <<link, wire, server, saved, status, login, logout, sync, current,
                   covers, lapses>>

-----------------------------------------------------------------------------
(* syncNow.                                                                *)

\* The server refuses, or decides the window and begins to read the log ...
ServeSync ==
    /\ sync = "sent"
    /\ \/ user /\ sync' = "read" /\ covers' = TRUE /\ wire' = wire
       \/ ~user /\ sync' = "served" /\ covers' = covers /\ Answers("syncNo")
    /\ UNCHANGED <<link, server, saved, status, auth, login, logout, current, lapses>>

\* ... and answers when it has read it, or when that has failed.
AnswerSync ==
    /\ sync = "read"
    /\ sync' = "served"
    /\ Answers("syncOk") \/ (SyncErrors /\ Answers("syncNo"))
    /\ UNCHANGED <<link, server, saved, status, auth, login, logout, current, covers,
                   lapses>>

\* The changes are applied one by one, each with an await of the cache.
SyncApplies ==
    /\ Receives("syncOk") /\ sync = "served"
    /\ sync' = "applying"
    /\ UNCHANGED <<link, server, saved, status, auth, login, logout, current, covers,
                   lapses>>

SyncSucceeds ==
    /\ sync = "applying"
    /\ current' = (current \/ covers)
    /\ lapses' = IF covers THEN lapses \ {"coalesced", "syncFailed"} ELSE lapses
    /\ sync' = "idle"
    /\ auth' = IF auth = "syncing" THEN "retrying" ELSE auth
    /\ UNCHANGED <<link, wire, server, saved, status, login, logout, covers>>

\* Nobody retries it; an authByHash that awaits it fails with it.
SyncFails ==
    /\ Fails(sync, "syncNo")
    /\ sync' = "idle"
    /\ IF auth = "syncing" THEN SignedOut /\ auth' = "idle"
                           ELSE UNCHANGED <<saved, status, auth>>
    /\ lapses' = lapses \cup {"syncFailed"}
    /\ UNCHANGED <<link, server, login, logout, current, covers>>

-----------------------------------------------------------------------------
(* login and logout, called by the user at any time.                       *)

StartLogin ==
    /\ Logins /\ login = "idle"
    /\ login' = Send
    /\ UNCHANGED <<link, wire, server, saved, status, auth, logout, sync, current,
                   covers, lapses>>

ServeLogin ==
    /\ login = "sent"
    /\ login' = "served"
    /\ \/ Answers("loginOk") /\ user' = TRUE
       \/ Answers("loginNo") /\ user' = user
    /\ UNCHANGED <<link, valid, due, saved, status, auth, logout, sync, current,
                   covers, lapses>>

\* resetLocalState awaits cache.clear(), and empties the records ...
LoginClears ==
    /\ Receives("loginOk") /\ login = "served"
    /\ login' = "clearing"
    /\ UNCHANGED <<link, server, saved, status, auth, logout, sync, current, covers,
                   lapses>>

\* ... which retryUnloadedTables reads again from the server.
LoginSucceeds ==
    /\ login = "clearing"
    /\ login' = "idle"
    /\ saved' = TRUE /\ valid' = TRUE /\ status' = "authorized"
    /\ current' = TRUE
    /\ UNCHANGED <<link, wire, user, due, auth, logout, sync, covers, lapses>>

LoginFails ==
    /\ Fails(login, "loginNo")
    /\ login' = "idle"
    /\ UNCHANGED <<link, server, saved, status, auth, logout, sync, current, covers,
                   lapses>>

StartLogout ==
    /\ Logouts /\ logout = "idle"
    /\ logout' = Send
    /\ UNCHANGED <<link, wire, server, saved, status, auth, login, sync, current,
                   covers, lapses>>

ServeLogout ==
    /\ logout = "sent"
    /\ logout' = "served"
    /\ user' = FALSE
    /\ Answers("logoutOk")
    /\ lapses' = lapses \cup LoginOutlived({"served", "clearing"})
    /\ UNCHANGED <<link, valid, due, saved, status, auth, login, sync, current,
                   covers>>

\* With or without the server's answer.
LogoutEnds ==
    /\ Fails(logout, "logoutOk")
    /\ logout' = "idle"
    /\ SignedOut
    /\ UNCHANGED <<link, server, auth, login, sync, current, covers, lapses>>

-----------------------------------------------------------------------------
(* Changes and wake-ups.                                                   *)

\* Somebody writes, and the broadcaster's timer is set (again).
WriteSomewhere ==
    /\ current' = FALSE /\ covers' = FALSE
    /\ due' = TRUE
    /\ UNCHANGED <<link, wire, user, valid, saved, status, runs, lapses>>

\* The wave reaches this tab, if the hub knows it.  (One ping at a time is on the
\* wire: a bound of the model.)
Broadcast ==
    /\ due /\ ~Contains(wire, "ping")
    /\ due' = FALSE
    /\ wire' = IF link = "open" THEN Append(wire, "ping") ELSE wire
    /\ UNCHANGED <<link, user, valid, saved, status, runs, current, covers, lapses>>

ReceivePing ==
    /\ Receives("ping")
    /\ IF status = "authorized" THEN SyncNow ELSE UNCHANGED <<sync, lapses>>
    /\ UNCHANGED <<link, server, saved, status, auth, login, logout, current, covers>>

\* The administrator rotates the user's hash.
Rotate ==
    /\ Rotations /\ login \notin {"served", "clearing"}
    /\ valid' = FALSE
    /\ UNCHANGED <<link, wire, user, due, saved, status, runs, current, covers, lapses>>

-----------------------------------------------------------------------------
ServerSteps ==
    ServeAuth \/ ServeSync \/ AnswerSync \/ ServeLogin \/ ServeLogout \/ Broadcast

TabSteps ==
    \/ ReceiveHello \/ ReceivePing
    \/ AuthSucceeds \/ AuthFails \/ AuthEnds
    \/ SyncApplies \/ SyncSucceeds \/ SyncFails
    \/ LoginClears \/ LoginSucceeds \/ LoginFails \/ LogoutEnds

Next ==
    \/ Open \/ Close
    \/ ServerSteps \/ TabSteps
    \/ StartLogin \/ StartLogout \/ WriteSomewhere \/ Rotate

Spec == Init /\ [][Next]_vars

\* What is sent arrives or is lost with the connection, timers expire, and the
\* socket is opened again reconnectDelay after it closes.
Fairness ==
    /\ WF_vars(Open)
    /\ WF_vars(ServeAuth) /\ WF_vars(ServeSync) /\ WF_vars(AnswerSync)
    /\ WF_vars(ServeLogin) /\ WF_vars(ServeLogout) /\ WF_vars(Broadcast)
    /\ WF_vars(ReceiveHello \/ ReceivePing)
    /\ WF_vars(AuthSucceeds \/ AuthFails) /\ WF_vars(AuthEnds)
    /\ WF_vars(SyncApplies \/ SyncFails) /\ WF_vars(SyncSucceeds)
    /\ WF_vars(LoginClears \/ LoginFails) /\ WF_vars(LoginSucceeds)
    /\ WF_vars(LogoutEnds)

FairSpec == Spec /\ Fairness

-----------------------------------------------------------------------------
(* Properties.                                                             *)

\* Connected, signed in, and nothing under way on either side.
Quiet ==
    /\ link = "open" /\ wire = <<>> /\ ~due
    /\ status = "authorized"
    /\ auth = "idle" /\ sync = "idle" /\ login = "idle" /\ logout = "idle"

\* When all is quiet the tab has every change, whatever connections were lost and
\* however sign-ins, wake-ups and syncs overlapped, unless, since the last sync
\* that brought everything, a ping or a sign-in joined a sync whose window was
\* decided before or a sync failed, or a login ended after its sign-in was over:
\* there is no further way to stay behind.
QuietIsCurrent == Quiet /\ lapses = {} => current

\* authorized means that the server knows this connection's user, whatever
\* sign-ins and logouts overlapped (unless a login ended after its sign-in was
\* over).
AuthorizedIsKnown == Quiet /\ "loginOutlived" \notin lapses => user

\* The saved sign-in is dropped by a logout or because the server rejects it, by
\* nothing else.
SavedUntilRejected ==
    [][saved /\ ~saved' => LogoutEnds \/ (wire # <<>> /\ Head(wire) = "authNo")]_vars

\* Every run of authByHash ends, so that a later connection can start another:
\* whatever it waits for is answered, refused or given up.
AuthRunsEnd == auth # "idle" ~> auth = "idle"

=============================================================================
