------------------------------ MODULE NumericIds ------------------------------
(***************************************************************************)
(* The numeric _ids of one table (numericIds): nextNumericId of            *)
(* packages/server-mongo/src/numeric-id.js, and add, which takes the _id a *)
(* client sent or asks for a number.  The counter is a document that the   *)
(* first request creates; an upsert that found none may lose to another,   *)
(* and is then tried again.                                                *)
(***************************************************************************)
EXTENDS Integers, FiniteSets

CONSTANTS
    Adds,        \* calls of add that may be under way at once
    Retries,     \* RETRIES
    MaxNumber    \* bound on the numbers

ASSUME NumericBounds == Retries \in Nat \ {0} /\ MaxNumber \in Nat \ {0}

VARIABLES
    counter,     \* seq of the counter's document, or NoCounter
    records,     \* the _ids of the documents of the table
    adding,      \* per call of add, where it is
    issued,      \* ghost: how often each number was issued
    chosen,      \* ghost: the numbers clients sent
    refused,     \* ghost: numbers issued whose document was refused as a duplicate
    gaveUp       \* ghost: an add failed for want of a number, the database sound

idVars == <<counter, records, adding, issued, chosen, refused, gaveUp>>

NoCounter == 0
Number == 1 .. MaxNumber

NotAdding == [stage |-> "idle", attempt |-> 0, id |-> 0, own |-> FALSE]

AddCall == [stage : {"idle", "asking", "creating", "inserting"}, attempt : 0 .. Retries,
            id : Number \cup {0}, own : BOOLEAN]

IdsTypeOK ==
    /\ counter \in Number \cup {NoCounter}
    /\ records \subseteq Number /\ chosen \subseteq Number /\ refused \subseteq Number
    /\ adding \in [Adds -> AddCall]
    /\ \A c \in Adds : adding[c].stage = "creating" /\ counter # NoCounter => issued[1] > 0
    /\ issued \in [Number -> Nat] /\ gaveUp \in BOOLEAN

IdsInit ==
    /\ counter = NoCounter /\ records = {}
    /\ adding = [c \in Adds |-> NotAdding]
    /\ issued = [n \in Number |-> 0] /\ chosen = {} /\ refused = {} /\ gaveUp = FALSE

-----------------------------------------------------------------------------
At(c, stage) == adding[c].stage = stage
Goes(c, stage) == adding' = [adding EXCEPT ![c].stage = stage]
Ends(c) == adding' = [adding EXCEPT ![c] = NotAdding]

\* add with an _id of the client's.
AddChosen(c, n) ==
    /\ At(c, "idle")
    /\ adding' = [adding EXCEPT ![c] = [NotAdding EXCEPT !.stage = "inserting", !.id = n,
                                                         !.own = TRUE]]
    /\ chosen' = chosen \cup {n}
    /\ UNCHANGED <<counter, records, issued, refused, gaveUp>>

AddNumbered(c) ==
    /\ At(c, "idle")
    /\ Goes(c, "asking")
    /\ UNCHANGED <<counter, records, issued, chosen, refused, gaveUp>>

Issues(c, n) ==
    /\ counter' = n
    /\ issued' = [issued EXCEPT ![n] = @ + 1]
    /\ adding' = [adding EXCEPT ![c].stage = "inserting", ![c].id = n]
    /\ UNCHANGED <<records, chosen, refused, gaveUp>>

\* $inc of the counter that is there.
Increment(c) ==
    /\ At(c, "asking") /\ counter \in 1 .. MaxNumber - 1
    /\ Issues(c, counter + 1)

\* The upsert has found no counter, and will insert one.
FindNone(c) ==
    /\ At(c, "asking") /\ counter = NoCounter
    /\ Goes(c, "creating")
    /\ UNCHANGED <<counter, records, issued, chosen, refused, gaveUp>>

\* Seeded defect: the counter is put down whether or not there is one.
Create_Over(c) == At(c, "creating") /\ Issues(c, 1)
Create(c) == At(c, "creating") /\ counter = NoCounter /\ Issues(c, 1)

\* Another request has created it: a duplicate key.
LoseRace(c) ==
    /\ At(c, "creating") /\ counter # NoCounter
    /\ IF adding[c].attempt < Retries
       THEN /\ adding' = [adding EXCEPT ![c].stage = "asking", ![c].attempt = @ + 1]
            /\ UNCHANGED gaveUp
       ELSE Ends(c) /\ gaveUp' = TRUE
    /\ UNCHANGED <<counter, records, issued, chosen, refused>>

\* The request fails in another way; the counter may have moved.
AskFails(c) ==
    /\ At(c, "asking")
    /\ \/ UNCHANGED <<counter, issued>>
       \/ /\ counter \in 1 .. MaxNumber - 1
          /\ counter' = counter + 1 /\ issued' = [issued EXCEPT ![counter + 1] = @ + 1]
    /\ Ends(c)
    /\ UNCHANGED <<records, chosen, refused, gaveUp>>

\* insertOne, which refuses an _id that is there; before it a hook or the access may deny.
Insert(c) ==
    /\ At(c, "inserting")
    /\ records' = records \cup {adding[c].id}
    /\ refused' = IF adding[c].id \in records /\ ~adding[c].own
                  THEN refused \cup {adding[c].id} ELSE refused
    /\ Ends(c)
    /\ UNCHANGED <<counter, issued, chosen, gaveUp>>

Deny(c) ==
    /\ At(c, "inserting")
    /\ Ends(c)
    /\ UNCHANGED <<counter, records, issued, chosen, refused, gaveUp>>

RemoveRecord(n) ==
    /\ n \in records
    /\ records' = records \ {n}
    /\ UNCHANGED <<counter, adding, issued, chosen, refused, gaveUp>>

IdsNext ==
    \/ \E c \in Adds :
        \/ \E n \in Number : AddChosen(c, n)
        \/ AddNumbered(c) \/ Increment(c) \/ FindNone(c) \/ Create(c) \/ LoseRace(c)
        \/ AskFails(c) \/ Insert(c) \/ Deny(c)
    \/ \E n \in Number : RemoveRecord(n)

IdsSpec == IdsInit /\ [][IdsNext]_idVars

-----------------------------------------------------------------------------
\* Numbers come one after the other and never again, not after failures, refusals
\* or removals; a document with an issued number is refused only where a client chose
\* that number itself; and no race for the first number costs an add (numeric-id.js:19-39).
NumbersAreFresh ==
    /\ \A n \in Number : issued[n] = IF n <= counter THEN 1 ELSE 0
    /\ refused \subseteq chosen
    /\ ~gaveUp

-----------------------------------------------------------------------------
(* The inductive invariant behind it.                                      *)

\* The call is about to insert a document with a number it was issued.
Numbered(c) == At(c, "inserting") /\ ~adding[c].own

\* Who has lost the race once finds the counter.
AskingInv ==
    \A c \in Adds :
        /\ ~At(c, "inserting") => ~adding[c].own
        /\ adding[c].attempt > 0 => counter # NoCounter /\ ~At(c, "creating")

InsertingInv ==
    \A c \in Adds :
        /\ At(c, "inserting") /\ adding[c].own => adding[c].id \in chosen
        /\ Numbered(c) =>
            /\ adding[c].id \in 1 .. counter
            /\ adding[c].id \in records => adding[c].id \in chosen
            /\ \A d \in Adds \ {c} : Numbered(d) => adding[d].id # adding[c].id

RecordsInv == records \subseteq chosen \cup 1 .. counter

IdsInv == IdsTypeOK /\ NumbersAreFresh /\ AskingInv /\ InsertingInv /\ RecordsInv
=============================================================================
