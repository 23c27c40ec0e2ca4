------------------------------ MODULE FileCache -------------------------------
(***************************************************************************)
(* One hook file or one method file of an application, edited while the    *)
(* server runs: loadHook of packages/server-mongo/src/hooks-dir.js and the *)
(* resolver of methods-dir.js, which keep the loaded function by the       *)
(* file's mtime and look at the file again after an interval.  Calls       *)
(* overlap: each reads the cache, awaits stat, may await import, and then  *)
(* writes to the cache, or to the entry it read at first.                  *)
(*                                                                         *)
(* The interpreter keeps what it imported by the URL, which has the mtime. *)
(* A file system gives every edit an mtime of its own.                     *)
(***************************************************************************)
EXTENDS Integers

CONSTANTS
    Callers,     \* calls that may overlap
    Every,       \* reloadCheckMs
    MaxLoad,     \* the longest a load is under way
    MaxClock,    \* bound on the clock
    MaxEdits,    \* bound on the edits of the file
    Broken       \* the versions of the file that export no function

ASSUME FileBounds ==
    /\ Every \in Nat /\ MaxLoad \in Nat \ {0} /\ MaxClock \in Nat /\ MaxEdits \in Nat \ {0}
    /\ Broken \subseteq Nat

VARIABLES
    kind,        \* a hook file or a method file
    clock,
    file,        \* whether the file is there, and its version
    gone,        \* ghost: when each version was replaced or deleted
    scanned,     \* __hooksDirPromise: what the scan of the directory found
    imported,    \* the interpreter: the version it imported for each mtime
    entry,       \* the cache's entry
    call,        \* the calls under way
    answer       \* the answer of the last call that ended

fileVars == <<kind, clock, file, gone, scanned, imported, entry, call, answer>>

\* The mtime of a version is its number.
None == 0
Version == 1 .. MaxEdits
Never == MaxClock + 1

\* unseen: ghost, last prolonged when the file could not be looked at.
NoEntry == [mtime |-> None, checkedAt |-> 0, version |-> None, unseen |-> FALSE]
Entry == [mtime : Version, checkedAt : 0 .. MaxClock, version : Version, unseen : BOOLEAN]

\* held: the entry read at the start.  live: it is the cache's still.
NotCalling == [stage |-> "idle", began |-> 0, held |-> NoEntry, live |-> FALSE, mtime |-> None]

NoAnswer == [what |-> "none", version |-> None, began |-> 0, unseen |-> FALSE]

FileTypeOK ==
    /\ kind \in {"hook", "method"}
    /\ clock \in 0 .. MaxClock
    /\ file \in [there : BOOLEAN, version : Version]
    /\ gone \in [Version -> 0 .. Never]
    /\ scanned \in {"unread", "found", "absent", "failed"}
    /\ imported \in [Version -> Version \cup {None}]
    /\ entry \in Entry \cup {NoEntry}
    /\ call \in [Callers -> [stage : {"idle", "stat", "import"}, began : 0 .. MaxClock,
                             held : Entry \cup {NoEntry}, live : BOOLEAN,
                             mtime : Version \cup {None}]]
    /\ answer \in [what : {"none", "ran", "threw", "passed"}, version : Version \cup {None},
                   began : 0 .. MaxClock, unseen : BOOLEAN]
    /\ kind = "method" => scanned = "unread"
    /\ \A c \in Callers : call[c].stage # "idle" => clock - call[c].began <= MaxLoad

FileInit ==
    /\ kind \in {"hook", "method"}
    /\ clock = 0
    /\ file \in [there : BOOLEAN, version : {1}]
    /\ gone = [v \in Version |-> IF v = 1 /\ ~file.there THEN 0 ELSE Never]
    /\ scanned = "unread" /\ imported = [v \in Version |-> None]
    /\ entry = NoEntry /\ call = [c \in Callers |-> NotCalling] /\ answer = NoAnswer

-----------------------------------------------------------------------------
(* The file, the clock, and the process.                                   *)

memory == <<scanned, imported, entry, call, answer>>

PutFile ==
    /\ file.version < MaxEdits
    /\ file' = [there |-> TRUE, version |-> file.version + 1]
    /\ gone' = IF file.there THEN [gone EXCEPT ![file.version] = clock] ELSE gone
    /\ UNCHANGED <<kind, clock, memory>>

DeleteFile ==
    /\ file.there
    /\ file' = [file EXCEPT !.there = FALSE]
    /\ gone' = [gone EXCEPT ![file.version] = clock]
    /\ UNCHANGED <<kind, clock, memory>>

ClockTicks ==
    /\ clock < MaxClock
    /\ \A c \in Callers : call[c].stage # "idle" => clock - call[c].began < MaxLoad
    /\ clock' = clock + 1
    /\ UNCHANGED <<kind, file, gone, memory>>

Restart ==
    /\ scanned' = "unread" /\ imported' = [v \in Version |-> None]
    /\ entry' = NoEntry /\ call' = [c \in Callers |-> NotCalling] /\ answer' = NoAnswer
    /\ UNCHANGED <<kind, clock, file, gone>>

\* The directory is read once; a failure is kept like any other answer.
ScanHooksDir ==
    /\ kind = "hook" /\ scanned = "unread"
    /\ scanned' \in {IF file.there THEN "found" ELSE "absent", "failed"}
    /\ UNCHANGED <<kind, clock, file, gone, imported, entry, call, answer>>

-----------------------------------------------------------------------------
(* A call.                                                                 *)

Answered(c, what, version, unseen) ==
    /\ answer' = [what |-> what, version |-> version, unseen |-> unseen,
                  began |-> IF call[c].stage = "idle" THEN clock ELSE call[c].began]
    /\ call' = [call EXCEPT ![c] = NotCalling]

\* A hook that the scan did not find is not called; without a scan nothing is.
CallNoHook(c) ==
    /\ kind = "hook" /\ scanned \in {"absent", "failed"} /\ call[c].stage = "idle"
    /\ Answered(c, IF scanned = "absent" THEN "passed" ELSE "threw", None, FALSE)
    /\ UNCHANGED <<kind, clock, file, gone, scanned, imported, entry>>

Callable(c) == call[c].stage = "idle" /\ (kind = "method" \/ scanned = "found")

IsFresh == entry # NoEntry /\ clock - entry.checkedAt < Every

\* Seeded defect: every use prolongs the entry.
CallCached_Slides(c) ==
    /\ Callable(c) /\ IsFresh
    /\ Answered(c, "ran", entry.version, entry.unseen)
    /\ entry' = [entry EXCEPT !.checkedAt = clock]
    /\ UNCHANGED <<kind, clock, file, gone, scanned, imported>>
CallCached(c) ==
    /\ Callable(c) /\ IsFresh
    /\ Answered(c, "ran", entry.version, entry.unseen)
    /\ UNCHANGED <<kind, clock, file, gone, scanned, imported, entry>>

CallStat(c) ==
    /\ Callable(c) /\ ~IsFresh
    /\ call' = [call EXCEPT ![c] = [NotCalling EXCEPT !.stage = "stat", !.began = clock,
                                                      !.held = entry, !.live = entry # NoEntry]]
    /\ UNCHANGED <<kind, clock, file, gone, scanned, imported, entry, answer>>

\* cached.checkedAt = Date.now()
Checked(c, unseen) ==
    entry' = IF call[c].live THEN [entry EXCEPT !.checkedAt = clock, !.unseen = unseen] ELSE entry

\* The file is gone, or cannot be looked at now.  A loaded hook stays; a method does not.
\* Seeded defect: a hook whose file is gone is not called.
StatFails_Passes(c) ==
    /\ call[c].stage = "stat"
    /\ Answered(c, "passed", None, FALSE) /\ UNCHANGED entry
    /\ UNCHANGED <<kind, clock, file, gone, scanned, imported>>
StatFails(c) ==
    /\ call[c].stage = "stat"
    /\ IF kind = "method" THEN Answered(c, "passed", None, FALSE) /\ UNCHANGED entry
       ELSE IF call[c].held = NoEntry THEN Answered(c, "threw", None, FALSE) /\ UNCHANGED entry
       ELSE Answered(c, "ran", call[c].held.version, TRUE) /\ Checked(c, TRUE)
    /\ UNCHANGED <<kind, clock, file, gone, scanned, imported>>

StatSame(c) ==
    /\ call[c].stage = "stat" /\ file.there /\ call[c].held.mtime = file.version
    /\ Answered(c, "ran", call[c].held.version, FALSE)
    /\ Checked(c, FALSE)
    /\ UNCHANGED <<kind, clock, file, gone, scanned, imported>>

StatNew(c) ==
    /\ call[c].stage = "stat" /\ file.there /\ call[c].held.mtime # file.version
    /\ call' = [call EXCEPT ![c].stage = "import", ![c].mtime = file.version]
    /\ UNCHANGED <<kind, clock, file, gone, scanned, imported, entry, answer>>

\* What is read may be newer than the mtime says.
Imports(mtime) == IF imported[mtime] # None THEN imported[mtime] ELSE file.version

\* An older file imported late replaces a newer one.
Import(c) ==
    /\ call[c].stage = "import"
    /\ LET mtime == call[c].mtime
           version == Imports(mtime)
       IN  /\ imported[mtime] # None \/ file.there
           /\ imported' = [imported EXCEPT ![mtime] = version]
           /\ version \notin Broken
           /\ entry' = [mtime |-> mtime, checkedAt |-> clock, version |-> version,
                        unseen |-> FALSE]
           /\ answer' = [what |-> "ran", version |-> version, began |-> call[c].began,
                         unseen |-> FALSE]
           /\ call' = [d \in Callers |-> IF d = c THEN NotCalling
                                         ELSE [call[d] EXCEPT !.live = FALSE]]
    /\ UNCHANGED <<kind, clock, file, gone, scanned>>

\* The file exports no function, or has gone since the stat.
ImportFails(c) ==
    /\ call[c].stage = "import"
    /\ LET mtime == call[c].mtime IN
       IF imported[mtime] # None \/ file.there
       THEN Imports(mtime) \in Broken /\ imported' = [imported EXCEPT ![mtime] = Imports(mtime)]
       ELSE UNCHANGED imported
    /\ Answered(c, "threw", None, FALSE)
    /\ UNCHANGED <<kind, clock, file, gone, scanned, entry>>

FileNext ==
    \/ PutFile \/ DeleteFile \/ ClockTicks \/ Restart \/ ScanHooksDir
    \/ \E c \in Callers :
        \/ CallNoHook(c) \/ CallCached(c) \/ CallStat(c)
        \/ StatFails(c) \/ StatSame(c) \/ StatNew(c)
        \/ Import(c) \/ ImportFails(c)

FileSpec == FileInit /\ [][FileNext]_fileVars

-----------------------------------------------------------------------------
(* Properties.                                                             *)

\* An operation goes ahead without a hook only if the hook's file was not there when
\* the directory was scanned; deletions, edits and failures of the file system stop
\* operations, or leave the last good hook, but never take a hook away
\* (hooks-dir.js:118).
HookNeverSilenced == kind = "hook" /\ answer.what = "passed" => scanned = "absent"

\* An edit applies within the interval: what a call runs was replaced at most the
\* interval and one load before the call began, also where loads overlap and an
\* older one ends last; unless the file could not be looked at (hooks-dir.js:112-138,
\* methods-dir.js:42-65).
EditsApply ==
    answer.what = "ran" /\ ~answer.unseen =>
        gone[answer.version] > answer.began - Every - MaxLoad
=============================================================================
