----------------------------- MODULE ChangeFeed ------------------------------
(***************************************************************************)
(* What synchronisation promises a session, said without windows, requests,*)
(* resets and races: the changes of others come to it in the order of      *)
(* their times and each once; and up to its cursor it holds all of them,   *)
(* back to the moment it last began anew.  Only a change that landed on a  *)
(* time that was still being written when it was read may be missing.      *)
(* Module Sync implements this.                                            *)
(***************************************************************************)
EXTENDS Integers

CONSTANT Sessions

VARIABLES
    now,       \* the server's clock
    pending,   \* the times of changes made and not in the log yet
    log,       \* the changes in the log
    cursor,    \* where each session is in time
    since,     \* the moment it began anew
    held,      \* the changes it was given since
    loose,     \* those of them it was given before it gave up
    excused    \* the times it read while changes could still land on them

sessionVars == <<cursor, since, held, loose, excused>>
vars == <<now, pending, log, sessionVars>>

Due(s) ==
    {r \in log : /\ r.by # s
                 /\ since[s] < r.createdAt /\ r.createdAt <= cursor[s]
                 /\ r.createdAt \notin excused[s]}

Promise == \A s \in Sessions : held[s] \subseteq log /\ Due(s) \subseteq held[s]

MayLand(t) == t >= now \/ t \in pending

Init ==
    /\ pending = {} /\ log = {}
    /\ cursor = [s \in Sessions |-> 0] /\ since = [s \in Sessions |-> 0]
    /\ held = [s \in Sessions |-> {}] /\ loose = [s \in Sessions |-> {}]
    /\ excused = [s \in Sessions |-> {}]

\* Changes are made at the present time, and land at the time they were made.
LogMoves ==
    /\ now <= now'
    /\ pending' \subseteq pending \cup {now}
    /\ log \subseteq log' /\ \A r \in log' \ log : r.createdAt \in pending
    /\ UNCHANGED sessionVars

\* A read of the log excuses the times that changes may still land on.
Read(s) ==
    /\ \A t \in excused'[s] \ excused[s] : MayLand(t)
    /\ \A x \in Sessions \ {s} : excused'[x] = excused[x]
    /\ UNCHANGED <<now, pending, log, cursor, since, held, loose>>

\* What is given is new, and no older than all that was.
Deliver(s) ==
    \E r \in log :
        /\ r.by # s /\ r \notin held[s] \ loose[s]
        /\ \A h \in held[s] \ loose[s] : h.createdAt <= r.createdAt
        /\ held' = [held EXCEPT ![s] = @ \cup {r}]
        /\ UNCHANGED <<now, pending, log, cursor, since, loose, excused>>

\* The cursor moves on over what was given.
MoveOn(s) ==
    /\ \A h \in held[s] \ loose[s] : h.createdAt <= cursor'[s]
    /\ loose' = [loose EXCEPT ![s] = {h \in @ : h.createdAt > cursor'[s]}]
    /\ \A x \in Sessions \ {s} : cursor'[x] = cursor[x]
    /\ UNCHANGED <<now, pending, log, since, held, excused>>

\* A session gives up before the cursor has moved over all it was given: the rest will
\* come again.  What was read comes to nothing, and so do its excuses.
GiveUp(s) ==
    /\ loose' = [loose EXCEPT ![s] =
          {h \in held[s] : cursor[s] # 0 /\ h.createdAt > cursor[s]}]
    /\ excused'[s] \subseteq excused[s]
    /\ \A x \in Sessions \ {s} : excused'[x] = excused[x]
    /\ UNCHANGED <<now, pending, log, cursor, since, held>>

\* A session asks for everything again.
Rewind(s) ==
    /\ cursor' = [cursor EXCEPT ![s] = 0]
    /\ UNCHANGED <<now, pending, log, since, held, loose, excused>>

\* It drops what it holds and reads records as they are now, or were when the
\* server told it to.
BeginAnew(s) ==
    /\ held' = [held EXCEPT ![s] = {}]
    /\ loose' = [loose EXCEPT ![s] = {}]
    /\ since'[s] <= now
    /\ \A t \in excused'[s] \ excused[s] : MayLand(t)
    /\ \A x \in Sessions \ {s} :
        cursor'[x] = cursor[x] /\ since'[x] = since[x] /\ excused'[x] = excused[x]
    /\ UNCHANGED <<now, pending, log>>

Step ==
    \/ LogMoves
    \/ \E s \in Sessions :
        Read(s) \/ Deliver(s) \/ MoveOn(s) \/ GiveUp(s) \/ Rewind(s) \/ BeginAnew(s)

Next == Step /\ Promise'

Spec == Init /\ [][Next]_vars
=============================================================================
