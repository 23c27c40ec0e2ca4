----------------------------- MODULE Broadcaster -----------------------------
(***************************************************************************)
(* Wake-up waves: createChangesBroadcaster and the broadcast of the socket *)
(* hub of packages/server-mongo.  A write schedules a wave; a newer write  *)
(* cancels the wave that is under way and schedules another; a wave sends  *)
(* changes_available to the clients that were connected when it began, in  *)
(* the order they connected, one at a time with a pause between them.      *)
(*                                                                         *)
(* Writes are not counted, only who has not been told since the last one.  *)
(***************************************************************************)
EXTENDS Naturals, Sequences, SequencesExt

CONSTANTS
    Clients,     \* sockets that may connect
    Writers      \* slots for writes between their log row and schedule()

VARIABLES
    clients,     \* the hub's clients, in the order they connected
    timer,       \* the debounce timer is set
    wave,        \* the clients the current wave has yet to reach
    logged,      \* writes whose row is in the log and that have not called schedule
    untold       \* ghost: connected clients not sent to since the last row

vars == <<clients, timer, wave, logged, untold>>

TypeOK ==
    /\ clients \in Seq(Clients)
    /\ timer \in BOOLEAN
    /\ wave \in Seq(Clients)
    /\ logged \subseteq Writers
    /\ untold \subseteq Clients

Init ==
    /\ clients = <<>> /\ wave = <<>>
    /\ timer = FALSE
    /\ logged = {} /\ untold = {}

-----------------------------------------------------------------------------
\* addClient.  The tab signs in next and synchronises, so it needs no wave.
Connect(c) ==
    /\ c \notin ToSet(clients)
    /\ clients' = Append(clients, c)
    /\ UNCHANGED <<timer, wave, logged, untold>>

\* handleClose.  The client stays in the wave under way; sending to it is in
\* vain.
\* Seeded defect: the client's place in the list is kept.
Gone == "gone"
Disconnect_LeavesHole(c) ==
    \E i \in DOMAIN clients :
        /\ clients[i] = c
        /\ clients' = [clients EXCEPT ![i] = Gone]
        /\ untold' = untold \ {c}
        /\ UNCHANGED <<timer, wave, logged>>
Disconnect(c) ==
    \E i \in DOMAIN clients :
        /\ clients[i] = c
        /\ clients' = RemoveAt(clients, i)
        /\ untold' = untold \ {c}
        /\ UNCHANGED <<timer, wave, logged>>

\* write() in runWrite: the row is there for everyone's next sync ...
LogRow(w) ==
    /\ w \notin logged
    /\ logged' = logged \cup {w}
    /\ untold' = ToSet(clients)
    /\ UNCHANGED <<clients, timer, wave>>

\* ... and schedule() follows: the wave under way is cancelled, the timer set
\* again.
\* Seeded defect: no timer is set while a wave is under way.
Schedule_Forgets(w) ==
    /\ w \in logged
    /\ logged' = logged \ {w}
    /\ wave' = <<>> /\ timer' = (wave = <<>>)
    /\ UNCHANGED <<clients, untold>>
Schedule(w) ==
    /\ w \in logged
    /\ logged' = logged \ {w}
    /\ wave' = <<>> /\ timer' = TRUE
    /\ UNCHANGED <<clients, untold>>

\* One client of the wave is sent to, and the rest are left for later.
\* Seeded defect: the loop does not move on.
SendTo_Stays(seq) == untold' = untold \ {Head(seq)} /\ wave' = seq
SendTo(seq) == untold' = untold \ {Head(seq)} /\ wave' = Tail(seq)

\* The timer fires: broadcast takes the clients of this moment and sends to the
\* first without a pause.
Fire ==
    /\ timer
    /\ timer' = FALSE
    /\ IF clients = <<>> THEN UNCHANGED <<wave, untold>> ELSE SendTo(clients)
    /\ UNCHANGED <<clients, logged>>

\* The pause is over: the next client of the wave.
SendNext ==
    /\ wave # <<>>
    /\ SendTo(wave)
    /\ UNCHANGED <<clients, timer, logged>>

Next ==
    \/ \E c \in Clients : Connect(c) \/ Disconnect(c)
    \/ \E w \in Writers : LogRow(w) \/ Schedule(w)
    \/ Fire \/ SendNext

Spec == Init /\ [][Next]_vars

\* The timer fires, the loop of broadcast goes on, and runWrite goes on after its
\* write.
FairSpec ==
    /\ Spec
    /\ WF_vars(Fire) /\ WF_vars(SendNext)
    /\ \A w \in Writers : WF_vars(Schedule(w))

-----------------------------------------------------------------------------
(* Properties.                                                             *)

\* A client that has not been told of the last change will be: a write is about
\* to schedule a wave, the timer is set, or the wave under way has yet to reach
\* it.  However waves are cancelled, and clients come and go, nobody is
\* forgotten.
NobodyForgotten ==
    logged # {} \/ timer \/ untold \subseteq ToSet(wave)

\* Once writes stop, every connected client is told.
ToldOnceQuiet == <>[][\A w \in Writers : ~LogRow(w)]_vars => <>[](untold = {})

-----------------------------------------------------------------------------
(* The inductive invariant behind NobodyForgotten.                         *)

\* A disconnected client is no longer owed anything, so a wave over the connected
\* ones is enough.
OnlyConnectedUntold == untold \subseteq ToSet(clients)

IInv == TypeOK /\ OnlyConnectedUntold /\ NobodyForgotten

=============================================================================
