--------------------------- MODULE WritePathProofs ----------------------------
(***************************************************************************)
(* Numbers are fresh for any number of concurrent adds and any numbers;    *)
(* and what holds of the write path as a whole (module MCChangeLog).       *)
(***************************************************************************)
EXTENDS MCChangeLog, ChangeLogProofs

USE NumericBounds DEF NoCounter, Number

\* A call that is not under way is a call.
LEMMA NotAddingIsACall == NotAdding \in AddCall
BY DEF NotAdding, AddCall

\* Before the first add all five parts hold.
LEMMA IdsInitially == IdsInit => IdsInv
<1> SUFFICES ASSUME IdsInit PROVE IdsInv
  OBVIOUS
<1> USE DEF IdsInit
<1>1. IdsTypeOK
  <2>1. \A c \in Adds : adding[c] = NotAdding /\ ~At(c, "creating")
    BY DEF At, NotAdding
  <2> QED
    BY <2>1, NotAddingIsACall DEF IdsTypeOK
<1>2. NumbersAreFresh
  BY DEF NumbersAreFresh
<1>3. AskingInv /\ InsertingInv /\ RecordsInv
  BY DEF AskingInv, InsertingInv, RecordsInv, At, Numbered, NotAdding
<1> QED
  BY <1>1, <1>2, <1>3 DEF IdsInv

\* Every step leaves calls behind.
LEMMA CallsStayCalls == IdsTypeOK /\ [IdsNext]_idVars => adding' \in [Adds -> AddCall]
<1> SUFFICES ASSUME IdsTypeOK, [IdsNext]_idVars PROVE adding' \in [Adds -> AddCall]
  OBVIOUS
<1> USE NotAddingIsACall DEF IdsTypeOK, Goes, Ends
<1>1. ASSUME NEW c \in Adds, NEW n \in Number, AddChosen(c, n)
      PROVE  adding' \in [Adds -> AddCall]
  <2>1. [NotAdding EXCEPT !.stage = "inserting", !.id = n, !.own = TRUE] \in AddCall
    BY DEF NotAdding, AddCall
  <2> QED
    BY <1>1, <2>1 DEF AddChosen
<1>2. ASSUME NEW c \in Adds, NEW stage \in {"asking", "creating"},
             adding' = [adding EXCEPT ![c].stage = stage]
      PROVE  adding' \in [Adds -> AddCall]
  <2>1. [adding[c] EXCEPT !.stage = stage] \in AddCall
    BY DEF AddCall
  <2> QED
    BY <1>2, <2>1
<1>3. ASSUME NEW c \in Adds, NEW n \in Number, Issues(c, n)
      PROVE  adding' \in [Adds -> AddCall]
  <2>1. [adding[c] EXCEPT !.stage = "inserting", !.id = n] \in AddCall
    BY DEF AddCall
  <2> QED
    BY <1>3, <2>1 DEF Issues
<1>4. ASSUME NEW c \in Adds, LoseRace(c) PROVE adding' \in [Adds -> AddCall]
  <2>1. CASE adding[c].attempt < Retries
    <3>1. adding[c].attempt \in 0 .. Retries /\ adding[c].attempt + 1 \in 0 .. Retries
      BY <2>1 DEF AddCall
    <3>2. [adding[c] EXCEPT !.stage = "asking", !.attempt = @ + 1] \in AddCall
      BY <3>1 DEF AddCall
    <3> QED
      BY <1>4, <2>1, <3>2 DEF LoseRace
  <2>2. CASE ~(adding[c].attempt < Retries)
    BY <1>4, <2>2 DEF LoseRace
  <2> QED
    BY <2>1, <2>2
<1>5. ASSUME NEW c \in Adds, Ends(c) PROVE adding' \in [Adds -> AddCall]
  BY <1>5
<1>6. CASE UNCHANGED adding
  BY <1>6
<1>7. ASSUME NEW c \in Adds, Increment(c) PROVE adding' \in [Adds -> AddCall]
  <2>1. counter + 1 \in Number
    BY <1>7 DEF Increment
  <2> QED
    BY <1>7, <1>3, <2>1 DEF Increment
<1>8. ASSUME NEW c \in Adds, Create(c) PROVE adding' \in [Adds -> AddCall]
  BY <1>8, <1>3 DEF Create
<1> QED
  BY <1>1, <1>2, <1>4, <1>5, <1>6, <1>7, <1>8
     DEF IdsNext, idVars, AddNumbered, FindNone, AskFails, Insert, Deny, RemoveRecord

\* Every step of the calls and the table keeps the invariant.
LEMMA IdsStep == IdsInv /\ [IdsNext]_idVars => IdsInv'
<1> SUFFICES ASSUME IdsInv, [IdsNext]_idVars PROVE IdsInv'
  OBVIOUS
<1>0. adding' \in [Adds -> AddCall] /\ adding \in [Adds -> AddCall]
  BY CallsStayCalls DEF IdsInv, IdsTypeOK
<1> USE <1>0 DEF IdsInv, IdsTypeOK, NumbersAreFresh, AskingInv, InsertingInv, RecordsInv, At,
                 Numbered
<1>1. ASSUME NEW c \in Adds, NEW n \in Number, AddChosen(c, n) PROVE IdsInv'
  <2>1. /\ adding'[c].stage = "inserting" /\ adding'[c].attempt = 0
        /\ adding'[c].id = n /\ adding'[c].own = TRUE
    BY <1>1 DEF AddChosen, NotAdding
  <2>2. \A d \in Adds \ {c} : adding'[d] = adding[d]
    BY <1>1 DEF AddChosen
  <2>10. IdsTypeOK'
    BY <1>1, <2>1, <2>2 DEF AddChosen
  <2>11. NumbersAreFresh'
    BY <1>1, <2>1, <2>2 DEF AddChosen
  <2>12. AskingInv'
    BY <1>1, <2>1, <2>2 DEF AddChosen
  <2>13. InsertingInv'
    BY <1>1, <2>1, <2>2 DEF AddChosen
  <2>14. RecordsInv'
    BY <1>1, <2>1, <2>2 DEF AddChosen
  <2> QED
    BY <2>10, <2>11, <2>12, <2>13, <2>14
<1>2. ASSUME NEW c \in Adds, AddNumbered(c) PROVE IdsInv'
  <2>1. /\ adding'[c].stage = "asking" /\ adding'[c].attempt = adding[c].attempt
        /\ adding'[c].own = adding[c].own
    BY <1>2 DEF AddNumbered, Goes, AddCall
  <2>2. \A d \in Adds \ {c} : adding'[d] = adding[d]
    BY <1>2 DEF AddNumbered, Goes
  <2> QED
    BY <1>2, <2>1, <2>2 DEF AddNumbered
<1>3. ASSUME NEW c \in Adds, Increment(c) PROVE IdsInv'
  <2>1. /\ adding'[c].stage = "inserting" /\ adding'[c].attempt = adding[c].attempt
        /\ adding'[c].own = adding[c].own /\ adding'[c].id = counter + 1
    BY <1>3 DEF Increment, Issues, AddCall
  <2>2. \A d \in Adds \ {c} : adding'[d] = adding[d]
    BY <1>3 DEF Increment, Issues
  <2>3. counter \in Nat /\ counter' = counter + 1 /\ counter + 1 \in Number
    BY <1>3 DEF Increment, Issues
  <2>4. issued' = [issued EXCEPT ![counter + 1] = @ + 1]
    BY <1>3 DEF Increment, Issues
  <2>5. UNCHANGED <<records, chosen, refused, gaveUp>>
    BY <1>3 DEF Increment, Issues
  <2>6. \A n \in Number : issued'[n] = IF n <= counter' THEN 1 ELSE 0
    BY <2>3, <2>4
  <2>10. IdsTypeOK'
    BY <1>3, <2>1, <2>2, <2>3, <2>4, <2>5, <2>6 DEF Increment
  <2>11. NumbersAreFresh'
    BY <1>3, <2>1, <2>2, <2>3, <2>4, <2>5, <2>6 DEF Increment
  <2>12. AskingInv'
    BY <1>3, <2>1, <2>2, <2>3, <2>4, <2>5, <2>6 DEF Increment
  <2>13. InsertingInv'
    BY <1>3, <2>1, <2>2, <2>3, <2>4, <2>5, <2>6 DEF Increment
  <2>14. RecordsInv'
    BY <1>3, <2>1, <2>2, <2>3, <2>4, <2>5, <2>6 DEF Increment
  <2> QED
    BY <2>10, <2>11, <2>12, <2>13, <2>14
<1>4. ASSUME NEW c \in Adds, FindNone(c) PROVE IdsInv'
  <2>1. /\ adding'[c].stage = "creating" /\ adding'[c].attempt = adding[c].attempt
        /\ adding'[c].own = adding[c].own
    BY <1>4 DEF FindNone, Goes, AddCall
  <2>2. \A d \in Adds \ {c} : adding'[d] = adding[d]
    BY <1>4 DEF FindNone, Goes
  <2>10. IdsTypeOK'
    BY <1>4, <2>1, <2>2 DEF FindNone, AddCall
  <2>11. NumbersAreFresh'
    BY <1>4, <2>1, <2>2 DEF FindNone, AddCall
  <2>12. AskingInv'
    BY <1>4, <2>1, <2>2 DEF FindNone, AddCall
  <2>13. InsertingInv'
    BY <1>4, <2>1, <2>2 DEF FindNone, AddCall
  <2>14. RecordsInv'
    BY <1>4, <2>1, <2>2 DEF FindNone, AddCall
  <2> QED
    BY <2>10, <2>11, <2>12, <2>13, <2>14
<1>5. ASSUME NEW c \in Adds, Create(c) PROVE IdsInv'
  <2>1. /\ adding'[c].stage = "inserting" /\ adding'[c].attempt = adding[c].attempt
        /\ adding'[c].own = adding[c].own /\ adding'[c].id = 1
    BY <1>5 DEF Create, Issues, AddCall
  <2>2. \A d \in Adds \ {c} : adding'[d] = adding[d]
    BY <1>5 DEF Create, Issues
  <2>3. counter = 0 /\ counter' = 1 /\ 1 \in Number
    BY <1>5 DEF Create, Issues
  <2>4. issued' = [issued EXCEPT ![1] = @ + 1]
    BY <1>5 DEF Create, Issues
  <2>5. UNCHANGED <<records, chosen, refused, gaveUp>>
    BY <1>5 DEF Create, Issues
  <2>6. \A n \in Number : issued'[n] = IF n <= counter' THEN 1 ELSE 0
    BY <2>3, <2>4
  <2> QED
    BY <1>5, <2>1, <2>2, <2>3, <2>4, <2>5, <2>6 DEF Create
<1>6. ASSUME NEW c \in Adds, LoseRace(c) PROVE IdsInv'
  <2>1. adding[c].attempt = 0
    BY <1>6 DEF LoseRace, AddCall
  <2>2. adding' = [adding EXCEPT ![c].stage = "asking", ![c].attempt = @ + 1] /\ UNCHANGED gaveUp
    BY <1>6, <2>1 DEF LoseRace
  <2>3. adding'[c].stage = "asking" /\ adding'[c].own = adding[c].own
    BY <2>2 DEF AddCall
  <2>4. \A d \in Adds \ {c} : adding'[d] = adding[d]
    BY <2>2
  <2> QED
    BY <1>6, <2>2, <2>3, <2>4 DEF LoseRace
<1>7. ASSUME NEW c \in Adds, Ends(c),
             UNCHANGED <<counter, issued, chosen, gaveUp>>,
             refused' \subseteq refused \cup (chosen \cap Number),
             records' \subseteq Number,
             records' \subseteq records \cup {adding[c].id},
             adding[c].id \in records' \ records => At(c, "inserting")
      PROVE  IdsInv'
  <2>1. adding'[c] = NotAdding /\ NotAdding.stage = "idle" /\ NotAdding.attempt = 0
        /\ NotAdding.own = FALSE
    BY <1>7 DEF Ends, NotAdding
  <2>2. \A d \in Adds \ {c} : adding'[d] = adding[d]
    BY <1>7 DEF Ends
  <2>3. records' \subseteq chosen \cup 1 .. counter
    BY <1>7
  <2>4. \A d \in Adds : Numbered(d) /\ d # c /\ adding[d].id \in records'
                => adding[d].id \in chosen
    BY <1>7
  <2> QED
    BY <1>7, <2>1, <2>2, <2>3, <2>4
<1>8. ASSUME NEW c \in Adds, Insert(c) PROVE IdsInv'
  <2>1. refused' \subseteq refused \cup (chosen \cap Number)
    BY <1>8 DEF Insert
  <2>2. adding[c].id \in Number
    <3>1. CASE adding[c].own
      BY <1>8, <3>1 DEF Insert
    <3>2. CASE ~adding[c].own
      <4>1. adding[c].id \in 1 .. counter /\ counter \in Number
        BY <1>8, <3>2 DEF Insert
      <4> QED
        BY <4>1
    <3> QED
      BY <3>1, <3>2
  <2> QED
    BY <1>7, <1>8, <2>1, <2>2 DEF Insert
<1>9. ASSUME NEW c \in Adds, Deny(c) PROVE IdsInv'
  BY <1>7, <1>9 DEF Deny
<1>10. ASSUME NEW c \in Adds, AskFails(c) PROVE IdsInv'
  <2>1. CASE UNCHANGED <<counter, issued>>
    BY <1>7, <1>10, <2>1 DEF AskFails
  <2>2. CASE /\ counter \in 1 .. MaxNumber - 1 /\ counter' = counter + 1
             /\ issued' = [issued EXCEPT ![counter + 1] = @ + 1]
    <3>1. adding'[c] = NotAdding /\ NotAdding.stage = "idle" /\ NotAdding.attempt = 0
          /\ NotAdding.own = FALSE
      BY <1>10 DEF AskFails, Ends, NotAdding
    <3>2. \A d \in Adds \ {c} : adding'[d] = adding[d]
      BY <1>10 DEF AskFails, Ends
    <3>3. counter \in Nat /\ counter + 1 \in Number
      BY <2>2
    <3>4. \A n \in Number : issued'[n] = IF n <= counter' THEN 1 ELSE 0
      BY <2>2, <3>3
    <3>10. IdsTypeOK'
      BY <1>10, <2>2, <3>1, <3>2, <3>3, <3>4 DEF AskFails
    <3>11. NumbersAreFresh'
      BY <1>10, <2>2, <3>1, <3>2, <3>3, <3>4 DEF AskFails
    <3>12. AskingInv'
      BY <1>10, <2>2, <3>1, <3>2, <3>3, <3>4 DEF AskFails
    <3>13. InsertingInv'
      BY <1>10, <2>2, <3>1, <3>2, <3>3, <3>4 DEF AskFails
    <3>14. RecordsInv'
      BY <1>10, <2>2, <3>1, <3>2, <3>3, <3>4 DEF AskFails
    <3> QED
      BY <3>10, <3>11, <3>12, <3>13, <3>14
  <2> QED
    BY <1>10, <2>1, <2>2 DEF AskFails
<1>11. ASSUME NEW n \in Number, RemoveRecord(n) PROVE IdsInv'
  BY <1>11 DEF RemoveRecord
<1>12. CASE UNCHANGED idVars
  BY <1>12 DEF idVars
<1> QED
  BY <1>1, <1>2, <1>3, <1>4, <1>5, <1>6, <1>8, <1>9, <1>10, <1>11, <1>12 DEF IdsNext

\* However many adds run at once, fail or are denied, and whichever documents are
\* removed: numbers come in order and once, and only an _id a client chose itself can
\* stand in the way of one (numeric-id.js:19-39).
THEOREM NumbersStayFresh == IdsSpec => []NumbersAreFresh
<1>1. IdsInv => NumbersAreFresh
  BY DEF IdsInv
<1> QED
  BY <1>1, IdsInitially, IdsStep, PTL DEF IdsSpec

-----------------------------------------------------------------------------
(* Documents, log and numbers together.                                    *)

LEMMA WritePathParts == WritePathSpec => ReplayableSpec /\ IdsSpec
<1>1. WritePathInit => LogInit /\ IdsInit
  BY DEF WritePathInit
<1>2. [WritePathNext]_<<part, logVars, idVars>> => [ReplayableNext]_logVars /\ [IdsNext]_idVars
  BY DEF WritePathNext
<1> QED
  BY <1>1, <1>2, PTL DEF WritePathSpec, ReplayableSpec, IdsSpec

\* Every state of the write path, the documents, the log and the numbers of new
\* documents, is of its type, whatever writes and adds are under way.
THEOREM WritePathTyped == WritePathSpec => []AllTypeOK
<1>1. ReplayableSpec => []LogTypeOK
  <2>1. ReplayInv => LogTypeOK
    BY DEF ReplayInv
  <2> QED
    BY <2>1, ReplayInvInit, ReplayInvStep, PTL DEF ReplayableSpec
<1>2. IdsSpec => []IdsTypeOK
  <2>1. IdsInv => IdsTypeOK
    BY DEF IdsInv
  <2> QED
    BY <2>1, IdsInitially, IdsStep, PTL DEF IdsSpec
<1>3. LogTypeOK /\ IdsTypeOK => AllTypeOK
  BY DEF AllTypeOK
<1> QED
  BY <1>1, <1>2, <1>3, WritePathParts, PTL
=============================================================================
