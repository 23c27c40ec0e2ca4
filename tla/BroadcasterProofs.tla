-------------------------- MODULE BroadcasterProofs --------------------------
(* Proofs about module Broadcaster: nobody is forgotten by a wake-up wave,  *)
(* for any set of clients and any number of writes.                         *)
EXTENDS Broadcaster, TLAPS

\* The elements of the sequences that Broadcaster builds.
LEMMA ToSetIndex ==
    ASSUME NEW S, NEW s \in Seq(S)
    PROVE  ToSet(s) = {s[i] : i \in 1 .. Len(s)}
<1>1. DOMAIN s = 1 .. Len(s)
  OBVIOUS
<1> QED
  BY <1>1 DEF ToSet

LEMMA ToSetAppend ==
    ASSUME NEW S, NEW s \in Seq(S), NEW x \in S
    PROVE  ToSet(s) \subseteq ToSet(Append(s, x))
<1>1. /\ Append(s, x) \in Seq(S) /\ Len(Append(s, x)) = Len(s) + 1
      /\ \A i \in 1 .. Len(s) : Append(s, x)[i] = s[i]
  OBVIOUS
<1>2. ASSUME NEW i \in 1 .. Len(s) PROVE s[i] \in ToSet(Append(s, x))
  <2>1. i \in 1 .. Len(Append(s, x)) /\ Append(s, x)[i] = s[i]
    BY <1>1
  <2> QED
    BY <1>1, <2>1, ToSetIndex
<1> QED
  BY <1>2, ToSetIndex

LEMMA ToSetTail ==
    ASSUME NEW S, NEW s \in Seq(S), s # <<>>
    PROVE  ToSet(s) \ {Head(s)} \subseteq ToSet(Tail(s))
<1> SUFFICES ASSUME NEW i \in 1 .. Len(s), s[i] # Head(s)
             PROVE  s[i] \in ToSet(Tail(s))
  BY ToSetIndex
<1>1. i # 1 /\ i - 1 \in 1 .. Len(Tail(s)) /\ Tail(s) \in Seq(S)
  OBVIOUS
<1>2. Tail(s)[i - 1] = s[i]
  BY <1>1
<1> QED
  BY <1>1, <1>2, ToSetIndex

LEMMA ToSetConcat ==
    ASSUME NEW S, NEW s \in Seq(S), NEW t \in Seq(S)
    PROVE  ToSet(s) \cup ToSet(t) \subseteq ToSet(s \o t)
<1>1. s \o t \in Seq(S) /\ Len(s \o t) = Len(s) + Len(t)
  OBVIOUS
<1>2. ASSUME NEW i \in 1 .. Len(s) PROVE s[i] \in ToSet(s \o t)
  <2>1. (s \o t)[i] = s[i] /\ i \in 1 .. Len(s \o t)
    BY <1>1
  <2> QED
    BY <1>1, <2>1, ToSetIndex
<1>3. ASSUME NEW i \in 1 .. Len(t) PROVE t[i] \in ToSet(s \o t)
  <2>1. (s \o t)[Len(s) + i] = t[i] /\ Len(s) + i \in 1 .. Len(s \o t)
    BY <1>1
  <2> QED
    BY <1>1, <2>1, ToSetIndex
<1>4. ToSet(s) \subseteq ToSet(s \o t)
  BY <1>2, ToSetIndex
<1>5. ToSet(t) \subseteq ToSet(s \o t)
  BY <1>3, ToSetIndex
<1> QED
  BY <1>4, <1>5

LEMMA ToSetRemoveAt ==
    ASSUME NEW S, NEW s \in Seq(S), NEW i \in 1 .. Len(s)
    PROVE  /\ RemoveAt(s, i) \in Seq(S)
           /\ ToSet(s) \ {s[i]} \subseteq ToSet(RemoveAt(s, i))
<1> DEFINE before == SubSeq(s, 1, i - 1)
           after == SubSeq(s, i + 1, Len(s))
<1>1. before \in Seq(S) /\ Len(before) = i - 1
      /\ \A j \in 1 .. i - 1 : before[j] = s[j]
  OBVIOUS
<1>2. after \in Seq(S) /\ Len(after) = Len(s) - i
      /\ \A j \in 1 .. Len(s) - i : after[j] = s[i + j]
  OBVIOUS
<1>3. RemoveAt(s, i) = before \o after
  BY DEF RemoveAt
<1> HIDE DEF before, after
<1>4. ASSUME NEW j \in 1 .. Len(s), s[j] # s[i]
      PROVE  s[j] \in ToSet(before) \cup ToSet(after)
  <2>1. CASE j < i
    BY <1>1, <2>1, ToSetIndex
  <2>2. CASE j > i
    <3>1. j - i \in 1 .. Len(after) /\ after[j - i] = s[j]
      BY <1>2, <2>2
    <3> QED
      BY <1>2, <3>1, ToSetIndex
  <2> QED
    BY <1>4, <2>1, <2>2
<1>5. ToSet(before) \cup ToSet(after) \subseteq ToSet(before \o after)
  BY <1>1, <1>2, ToSetConcat
<1>6. before \o after \in Seq(S)
  BY <1>1, <1>2
<1> QED
  BY <1>3, <1>4, <1>5, <1>6, ToSetIndex

-----------------------------------------------------------------------------
LEMMA InitIInv == Init => IInv
<1> SUFFICES ASSUME Init PROVE IInv
  OBVIOUS
<1>1. TypeOK
  <2>1. /\ clients = <<>> /\ wave = <<>> /\ timer = FALSE
        /\ logged = {} /\ untold = {}
    BY DEF Init
  <2>2. <<>> \in Seq(Clients)
    OBVIOUS
  <2> QED
    BY <2>1, <2>2 DEF TypeOK
<1>2. untold = {}
  BY DEF Init
<1> QED
  BY <1>1, <1>2 DEF IInv, OnlyConnectedUntold, NobodyForgotten

\* What one send of a wave does, for Fire and SendNext.
LEMMA SendToIInv ==
    ASSUME TypeOK, NEW seq \in Seq(Clients), seq # <<>>, untold \subseteq ToSet(seq),
           SendTo(seq)
    PROVE  /\ wave' \in Seq(Clients) /\ untold' \subseteq untold
           /\ untold' \subseteq ToSet(wave')
<1>1. ToSet(seq) \ {Head(seq)} \subseteq ToSet(Tail(seq))
  BY ToSetTail
<1>2. Tail(seq) \in Seq(Clients)
  OBVIOUS
<1> QED
  BY <1>1, <1>2 DEF SendTo, TypeOK

\* Each action preserves the invariant.
LEMMA NextIInv == IInv /\ [Next]_vars => IInv'
<1> SUFFICES ASSUME IInv, [Next]_vars PROVE IInv'
  OBVIOUS
<1>t. TypeOK /\ OnlyConnectedUntold /\ NobodyForgotten
  BY DEF IInv
<1>1. ASSUME NEW c \in Clients, Connect(c) PROVE IInv'
  <2>1. clients' \in Seq(Clients) /\ ToSet(clients) \subseteq ToSet(clients')
    BY <1>1, <1>t, ToSetAppend DEF Connect, TypeOK
  <2> QED
    BY <1>1, <1>t, <2>1
       DEF Connect, IInv, TypeOK, OnlyConnectedUntold, NobodyForgotten
<1>2. ASSUME NEW c \in Clients, Disconnect(c) PROVE IInv'
  <2>1. PICK i \in DOMAIN clients :
            /\ clients[i] = c /\ clients' = RemoveAt(clients, i)
            /\ untold' = untold \ {c} /\ UNCHANGED <<timer, wave, logged>>
    BY <1>2 DEF Disconnect
  <2>2. i \in 1 .. Len(clients) /\ clients \in Seq(Clients)
    BY <1>t DEF TypeOK
  <2>3. /\ clients' \in Seq(Clients)
        /\ ToSet(clients) \ {c} \subseteq ToSet(clients')
    BY <2>1, <2>2, ToSetRemoveAt
  <2> QED
    BY <1>t, <2>1, <2>3
       DEF IInv, TypeOK, OnlyConnectedUntold, NobodyForgotten
<1>3. ASSUME NEW w \in Writers, LogRow(w) PROVE IInv'
  <2>1. ToSet(clients) \subseteq Clients
    BY <1>t, ToSetIndex DEF TypeOK
  <2> QED
    BY <1>3, <1>t, <2>1
       DEF LogRow, IInv, TypeOK, OnlyConnectedUntold, NobodyForgotten
<1>4. ASSUME NEW w \in Writers, Schedule(w) PROVE IInv'
  BY <1>4, <1>t DEF Schedule, IInv, TypeOK, OnlyConnectedUntold, NobodyForgotten
<1>5. ASSUME Fire PROVE IInv'
  <2>1. CASE clients = <<>>
    <3>1. untold = {}
      BY <1>t, <2>1 DEF OnlyConnectedUntold, ToSet
    <3> QED
      BY <1>5, <1>t, <2>1, <3>1
         DEF Fire, IInv, TypeOK, OnlyConnectedUntold, NobodyForgotten
  <2>2. CASE clients # <<>>
    <3>1. SendTo(clients) /\ clients \in Seq(Clients) /\ untold \subseteq ToSet(clients)
      BY <1>5, <1>t, <2>2 DEF Fire, TypeOK, OnlyConnectedUntold
    <3>2. /\ wave' \in Seq(Clients) /\ untold' \subseteq untold
          /\ untold' \subseteq ToSet(wave')
      BY <1>t, <2>2, <3>1, SendToIInv
    <3> QED
      BY <1>5, <1>t, <3>2
         DEF Fire, IInv, TypeOK, OnlyConnectedUntold, NobodyForgotten
  <2> QED
    BY <2>1, <2>2
<1>6. ASSUME SendNext PROVE IInv'
  <2>1. SendTo(wave) /\ wave # <<>> /\ UNCHANGED <<clients, timer, logged>>
    BY <1>6 DEF SendNext
  <2>2. wave' \in Seq(Clients) /\ untold' \subseteq untold
    BY <1>t, <2>1 DEF SendTo, TypeOK
  <2>3. CASE logged # {} \/ timer
    BY <1>t, <2>1, <2>2, <2>3
       DEF IInv, TypeOK, OnlyConnectedUntold, NobodyForgotten
  <2>4. CASE logged = {} /\ ~timer
    <3>1. untold \subseteq ToSet(wave) /\ wave \in Seq(Clients)
      BY <1>t, <2>4 DEF NobodyForgotten, TypeOK
    <3>2. untold' \subseteq ToSet(wave')
      BY <1>t, <2>1, <3>1, SendToIInv
    <3> QED
      BY <1>t, <2>1, <2>2, <3>2
         DEF IInv, TypeOK, OnlyConnectedUntold, NobodyForgotten
  <2> QED
    BY <2>3, <2>4
<1>7. CASE UNCHANGED vars
  BY <1>t, <1>7 DEF vars, IInv, TypeOK, OnlyConnectedUntold, NobodyForgotten
<1> QED
  BY <1>1, <1>2, <1>3, <1>4, <1>5, <1>6, <1>7 DEF Next

-----------------------------------------------------------------------------
\* The variables of the broadcaster and of the hub keep their types.
THEOREM TypeCorrect == Spec => []TypeOK
<1>1. IInv => TypeOK
  BY DEF IInv
<1> QED
  BY <1>1, InitIInv, NextIInv, PTL DEF Spec

\* createChangesBroadcaster and broadcast forget nobody: a connected client that
\* has not been told of the last change is always still to be told.
THEOREM NobodyIsForgotten == Spec => []NobodyForgotten
<1>1. IInv => NobodyForgotten
  BY DEF IInv
<1> QED
  BY <1>1, InitIInv, NextIInv, PTL DEF Spec
=============================================================================
