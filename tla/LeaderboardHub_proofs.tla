----------------------- MODULE LeaderboardHub_proofs -----------------------
(***************************************************************************)
(* The hub's safety for any numbers of submissions, clients, updates and   *)
(* any capacities: no channel is closed twice or sent on after it was      *)
(* closed by the hub, and a client the hub keeps is up to date, but for    *)
(* the three ways in which the service itself leaves it behind.            *)
(***************************************************************************)
EXTENDS LeaderboardHub, FiniteSetTheorems, TLAPS

Rows == [sub : Subs, ver : Nat \ {0}]

(* The types of what the two arguments look at.                            *)
ChanTypes ==
    /\ state \in [Subs -> Nat]
    /\ feed \in Seq(Rows) /\ broadcast \in Seq(Rows)
    /\ register \in Seq(Clients) /\ unregister \in Seq(Clients)
    /\ lost \subseteq Rows
GoroutineTypes ==
    /\ clients \in SUBSET Clients
    /\ hub \in [pc : {"select", "fanout", "drop"}, row : Rows \cup {NoRow},
                todo : SUBSET Clients, drop : Clients \cup {NoClient}]
    /\ initial \in [Clients -> [pc : {"none", "fetch", "send", "failed"}, rows : Seq(Rows)]]
    /\ missed \in [Clients -> SUBSET Rows]
ClientTypes ==
    /\ send \in [Clients -> Seq(Rows)] /\ closes \in [Clients -> Nat]
    /\ conn \in [Clients -> {"none", "open", "broken"}]
    /\ shown \in [Clients -> [Subs -> Rows \cup {NoRow}]]
    /\ overtaken \in [Clients -> SUBSET Rows]
HubTypes == ChanTypes /\ GoroutineTypes /\ ClientTypes

(* What the hub's goroutine holds while it fans a row out.                 *)
HubHolds ==
    /\ hub.pc = "select" => hub.todo = {}
    /\ hub.pc # "select" => hub.row \in Rows
    /\ IF hub.pc = "drop" THEN hub.drop \in Clients ELSE hub.drop = NoClient
    /\ hub.todo \subseteq clients

(* A client enters the hub's map once: while it waits in register it is    *)
(* not in the map and its channel is open, and before it connects it is    *)
(* nowhere.                                                                *)
EntersOnce ==
    /\ \A i \in DOMAIN register :
         /\ register[i] \notin clients /\ closes[register[i]] = 0
         /\ conn[register[i]] # "none"
         /\ \A j \in DOMAIN register : register[i] = register[j] => i = j
    /\ \A c \in Clients : conn[c] = "none" => c \notin clients /\ closes[c] = 0

ClosureInv == HubTypes /\ HubHolds /\ EntersOnce /\ ClosedOnce

(* The rows of submission s in a channel: none, or which one is the last.  *)
NoneOf(q, s) == \A i \in DOMAIN q : q[i].sub # s
LastOf(q, s, i) ==
    q[i].sub = s /\ \A j \in DOMAIN q : j > i => q[j].sub # s
NewestIn(q, s) == \E i \in DOMAIN q : LastOf(q, s, i) /\ q[i].ver = state[s]

(* Redis lost the newest version of a row.                                 *)
Lost(s) == Newest(s) \in lost

(* On the way to the clients the newest version of a row comes last.       *)
NewestLast ==
    \A s \in Subs :
        \/ NewestIn(feed, s) \/ Lost(s)
        \/ /\ NoneOf(feed, s)
           /\ \/ NewestIn(broadcast, s)
              \/ /\ NoneOf(broadcast, s)
                 /\ (hub.pc # "select" /\ hub.row.sub = s) => hub.row.ver = state[s]

(* A snapshot holds no version that was not published, and a browser shows *)
(* each row in its own place.                                              *)
SnapshotOld ==
    /\ \A c \in Clients : \A k \in DOMAIN initial[c].rows :
         initial[c].rows[k].ver <= state[initial[c].rows[k].sub]
    /\ \A c \in Clients, s \in Subs : shown[c][s] \in Rows => shown[c][s].sub = s

(* The hub has client c or will have it, and nothing that has failed will  *)
(* remove it.                                                              *)
Kept(c) ==
    /\ c \in clients \cup ToSet(register) /\ conn[c] = "open"
    /\ c \in clients => c \notin ToSet(unregister) \cup {hub.drop}

(* The newest version of row s is on its way to client c ...               *)
Coming(c, s) ==
    \/ NewestIn(feed, s) \/ NewestIn(broadcast, s)
    \/ c \in hub.todo /\ hub.row.sub = s /\ hub.row.ver = state[s]

(* ... or is the last one in its channel, or is shown, or waits in its     *)
(* snapshot, or the snapshot is yet to be read; or it is one of the rows   *)
(* that passed the client by.                                              *)
InChannel(c, s) == NewestIn(send[c], s)
OnScreen(c, s) == NoneOf(send[c], s) /\ shown[c][s].ver = state[s]
Pending(c, s) ==
    \/ initial[c].pc # "send"
    \/ \E k \in DOMAIN initial[c].rows :
          initial[c].rows[k].sub = s /\ initial[c].rows[k].ver = state[s]
PassedBy(c, s) == Newest(s) \in lost \cup missed[c] \cup overtaken[c]
Serves(c, s) ==
    \/ Coming(c, s) \/ InChannel(c, s) \/ OnScreen(c, s)
    \/ Pending(c, s) \/ PassedBy(c, s) \/ state[s] = 0
AllServed == \A c \in Clients, s \in Subs : Kept(c) => Serves(c, s)

DeliveryInv == ClosureInv /\ NewestLast /\ SnapshotOld /\ AllServed

-----------------------------------------------------------------------------
(* SetToSeqs lists every element of a finite set.                          *)
LEMMA ListsAll ==
    ASSUME NEW S, IsFiniteSet(S), NEW f \in SetToSeqs(S)
    PROVE  f \in Seq(S) /\ \A x \in S : \E k \in DOMAIN f : f[k] = x
<1> DEFINE n == Cardinality(S)
<1>1. n \in Nat /\ f \in [1..n -> S] /\ \A i, j \in 1..n : i # j => f[i] # f[j]
  BY FS_CardinalityType DEF SetToSeqs
<1> HIDE DEF n
<1>2. f \in Injection(1..n, S)
  BY <1>1 DEF Injection, IsInjective
<1>3. IsFiniteSet(1..n) /\ Cardinality(1..n) = n
  BY <1>1, FS_Interval
<1>4. f \in Surjection(1..n, S)
  BY <1>2, <1>3, FS_Injection DEF n
<1> QED BY <1>1, <1>4 DEF Surjection

(* A snapshot holds the newest row of every submission with a score, and   *)
(* no other row.                                                           *)
LEMMA SnapshotRows ==
    ASSUME HubTypes, NEW c \in Clients, Fetch(c)
    PROVE  \E rows \in Seq(Rows) :
             /\ initial' = [initial EXCEPT ![c] = [pc |-> "send", rows |-> rows]]
             /\ \A k \in DOMAIN rows : rows[k].ver = state[rows[k].sub]
             /\ \A s \in Subs : state[s] > 0 =>
                  \E k \in DOMAIN rows : rows[k].sub = s /\ rows[k].ver = state[s]
<1> DEFINE T == {t \in Subs : state[t] > 0}
           S == {Newest(s) : s \in T}
<1>1. PICK rows \in SetToSeqs(S) :
          initial' = [initial EXCEPT ![c] = [pc |-> "send", rows |-> rows]]
  BY DEF Fetch
<1>2. IsFiniteSet(S)
  <2> DEFINE f == [s \in T |-> Newest(s)]
  <2>1. IsFiniteSet(T)
    BY HubBounds, FS_Subset
  <2>2. f \in Surjection(T, S)
    BY DEF Surjection
  <2> QED BY <2>1, <2>2, FS_Surjection
<1>3. \A s \in T : Newest(s) \in Rows /\ Newest(s).sub = s /\ Newest(s).ver = state[s]
  BY DEF HubTypes, ChanTypes, Rows, Newest
<1>4. \A r \in S : r \in Rows /\ r.ver = state[r.sub]
  BY <1>3
<1>5. rows \in Seq(S) /\ \A x \in S : \E k \in DOMAIN rows : rows[k] = x
  BY <1>2, ListsAll
<1>6. \A s \in Subs : state[s] > 0 =>
        \E k \in DOMAIN rows : rows[k].sub = s /\ rows[k].ver = state[s]
  <2> SUFFICES ASSUME NEW s \in Subs, state[s] > 0
               PROVE  \E k \in DOMAIN rows : rows[k].sub = s /\ rows[k].ver = state[s]
    OBVIOUS
  <2>1. Newest(s) \in S /\ Newest(s).sub = s /\ Newest(s).ver = state[s]
    BY <1>3
  <2> HIDE DEF S
  <2> QED BY <1>5, <2>1
<1> HIDE DEF S
<1>7. rows \in Seq(Rows) /\ \A k \in DOMAIN rows : rows[k].ver = state[rows[k].sub]
  BY <1>4, <1>5
<1> QED BY <1>1, <1>6, <1>7

-----------------------------------------------------------------------------
(* The service starts in the invariant.                                    *)
LEMMA ClosureInit == Init => ClosureInv
<1> SUFFICES ASSUME Init PROVE ClosureInv
  OBVIOUS
<1>1. HubTypes
  BY DEF Init, HubTypes, ChanTypes, GoroutineTypes, ClientTypes, HubIdle, NoRow, NoClient
<1> QED BY <1>1 DEF Init, ClosureInv, HubHolds, EntersOnce, ClosedOnce, HubIdle

(* What receiving from a channel takes and leaves.                         *)
LEMMA HeadTail ==
    ASSUME NEW S, NEW q \in Seq(S), q # <<>>
    PROVE  /\ Head(q) \in S /\ Tail(q) \in Seq(S) /\ Len(q) \in Nat \ {0}
           /\ Head(q) = q[1] /\ Len(Tail(q)) = Len(q) - 1
           /\ \A i \in 1..(Len(q) - 1) : Tail(q)[i] = q[i + 1]
OBVIOUS

(* Every step keeps the types.                                             *)
LEMMA TypesStep == HubTypes /\ HubHolds /\ [Next]_vars => HubTypes'
<1> SUFFICES ASSUME HubTypes, HubHolds, [Next]_vars PROVE HubTypes'
  OBVIOUS
<1> USE HubBounds DEF redisVars, chanVars, hubVars, clientVars
<1>0. ChanTypes /\ GoroutineTypes /\ ClientTypes
  BY DEF HubTypes
<1> SUFFICES ChanTypes' /\ GoroutineTypes' /\ ClientTypes'
  BY DEF HubTypes
<1>1. ASSUME NEW s \in Subs, Score(s) PROVE ChanTypes' /\ GoroutineTypes' /\ ClientTypes'
  <2>1. state' \in [Subs -> Nat] /\ [sub |-> s, ver |-> state'[s]] \in Rows
    BY <1>0, <1>1 DEF Score, Rows, ChanTypes
  <2>2. ChanTypes'
    BY <1>0, <1>1, <2>1 DEF Score, ChanTypes
  <2> QED BY <1>0, <1>1, <2>2 DEF Score, GoroutineTypes, ClientTypes
<1>2. CASE Listen
  <2>1. ChanTypes'
    BY <1>0, <1>2, HeadTail DEF Listen, ChanTypes
  <2>2. GoroutineTypes'
    BY <1>0, <1>2 DEF Listen, GoroutineTypes
  <2>3. ClientTypes'
    BY <1>0, <1>2 DEF Listen, ClientTypes
  <2> QED BY <2>1, <2>2, <2>3
<1>2a. CASE LoseUpdate
  <2>1. ChanTypes'
    BY <1>0, <1>2a, HeadTail DEF LoseUpdate, ChanTypes
  <2>2. GoroutineTypes'
    BY <1>0, <1>2a DEF LoseUpdate, GoroutineTypes
  <2>3. ClientTypes'
    BY <1>0, <1>2a DEF LoseUpdate, ClientTypes
  <2> QED BY <2>1, <2>2, <2>3
<1>3. ASSUME NEW c \in Clients, Connect(c) PROVE ChanTypes' /\ GoroutineTypes' /\ ClientTypes'
  <2>1. ChanTypes'
    BY <1>0, <1>3 DEF Connect, ChanTypes
  <2>2. GoroutineTypes'
    BY <1>0, <1>3 DEF Connect, GoroutineTypes
  <2>3. ClientTypes'
    BY <1>0, <1>3 DEF Connect, ClientTypes
  <2> QED BY <2>1, <2>2, <2>3
<1>4. ASSUME NEW c \in Clients, Fetch(c) PROVE ChanTypes' /\ GoroutineTypes' /\ ClientTypes'
  <2>1. PICK rows \in Seq(Rows) :
            initial' = [initial EXCEPT ![c] = [pc |-> "send", rows |-> rows]]
    BY <1>4, SnapshotRows
  <2>2. ChanTypes'
    BY <1>0, <1>4 DEF Fetch, ChanTypes
  <2>3. GoroutineTypes'
    BY <1>0, <1>4, <2>1 DEF Fetch, GoroutineTypes
  <2>4. ClientTypes'
    BY <1>0, <1>4 DEF Fetch, ClientTypes
  <2> QED BY <2>2, <2>3, <2>4
<1>5. ASSUME NEW c \in Clients, SendInitial(c) PROVE ChanTypes' /\ GoroutineTypes' /\ ClientTypes'
  <2>1. Head(initial[c].rows) \in Rows /\ Tail(initial[c].rows) \in Seq(Rows)
    BY <1>0, <1>5, HeadTail DEF SendInitial, GoroutineTypes
  <2>2. ChanTypes'
    BY <1>0, <1>5 DEF SendInitial, ChanTypes
  <2>3. GoroutineTypes'
    BY <1>0, <1>5, <2>1 DEF SendInitial, GoroutineTypes
  <2>4. ClientTypes'
    <3>1. initial[c].rows \in Seq(Rows) /\ initial[c].rows # <<>>
      BY <1>0, <1>5 DEF SendInitial, GoroutineTypes
    <3>2. PICK h \in Rows : h = Head(initial[c].rows)
      BY <2>1
    <3>3. Newer(c, h) \subseteq Rows
      <4>1. ToSet(send[c]) \subseteq Rows
        BY <1>0 DEF ClientTypes, ToSet
      <4>2. h.sub \in Subs /\ h.ver \in Nat /\ NoRow.ver = 0
        BY DEF Rows, NoRow
      <4>3. shown[c][h.sub] \in Rows \/ shown[c][h.sub] = NoRow
        BY <1>0, <4>2 DEF ClientTypes
      <4> QED BY <4>1, <4>2, <4>3 DEF Newer
    <3>4. overtaken' \in [Clients -> SUBSET Rows]
      BY <1>0, <1>5, <3>2, <3>3 DEF SendInitial, ClientTypes
    <3> QED BY <1>0, <1>5, <2>1, <3>4 DEF SendInitial, ClientTypes
  <2> QED BY <2>2, <2>3, <2>4
<1>6. ASSUME NEW c \in Clients, PanicAndRestart(c) PROVE ChanTypes' /\ GoroutineTypes' /\ ClientTypes'
  <2>1. ChanTypes'
    BY <1>0, <1>6 DEF PanicAndRestart, ChanTypes
  <2>2. GoroutineTypes'
    BY <1>0, <1>6 DEF PanicAndRestart, GoroutineTypes, HubIdle, NoClient
  <2>3. ClientTypes'
    BY <1>0, <1>6 DEF PanicAndRestart, ClientTypes
  <2> QED BY <2>1, <2>2, <2>3
<1>7. ASSUME NEW c \in Clients, Write(c) PROVE ChanTypes' /\ GoroutineTypes' /\ ClientTypes'
  <2>1. Head(send[c]) \in Rows /\ Tail(send[c]) \in Seq(Rows)
    BY <1>0, <1>7, HeadTail DEF Write, ClientTypes
  <2>2. Head(send[c]).sub \in Subs
    BY <2>1 DEF Rows
  <2>3. ChanTypes'
    BY <1>0, <1>7 DEF Write, ChanTypes
  <2>4. GoroutineTypes'
    BY <1>0, <1>7 DEF Write, GoroutineTypes
  <2>5. ClientTypes'
    BY <1>0, <1>7, <2>1, <2>2 DEF Write, ClientTypes
  <2> QED BY <2>3, <2>4, <2>5
<1>8. ASSUME NEW c \in Clients, WriterEnds(c) PROVE ChanTypes' /\ GoroutineTypes' /\ ClientTypes'
  <2>1. ChanTypes'
    BY <1>0, <1>8 DEF WriterEnds, ChanTypes
  <2>2. GoroutineTypes'
    BY <1>0, <1>8 DEF WriterEnds, GoroutineTypes
  <2>3. ClientTypes'
    <3>1. send[c] # <<>> => Tail(send[c]) \in Seq(Rows)
      BY <1>0, HeadTail DEF ClientTypes
    <3>2. send' \in [Clients -> Seq(Rows)]
      BY <1>0, <1>8, <3>1 DEF WriterEnds, ClientTypes
    <3> QED BY <1>0, <1>8, <3>2 DEF WriterEnds, ClientTypes
  <2> QED BY <2>1, <2>2, <2>3
<1>9. ASSUME NEW c \in Clients, Leave(c) PROVE ChanTypes' /\ GoroutineTypes' /\ ClientTypes'
  <2>1. ChanTypes'
    BY <1>0, <1>9 DEF Leave, ChanTypes
  <2>2. GoroutineTypes'
    BY <1>0, <1>9 DEF Leave, GoroutineTypes
  <2>3. ClientTypes'
    BY <1>0, <1>9 DEF Leave, ClientTypes
  <2> QED BY <2>1, <2>2, <2>3
<1>10. CASE HubRegister
  <2>1. ChanTypes'
    BY <1>0, <1>10, HeadTail DEF HubRegister, ChanTypes
  <2>2. GoroutineTypes'
    BY <1>0, <1>10, HeadTail DEF HubRegister, GoroutineTypes, ChanTypes
  <2>3. ClientTypes'
    BY <1>0, <1>10 DEF HubRegister, ClientTypes
  <2> QED BY <2>1, <2>2, <2>3
<1>11. CASE HubUnregister
  <2>1. ChanTypes'
    BY <1>0, <1>11, HeadTail DEF HubUnregister, ChanTypes
  <2>2. GoroutineTypes'
    BY <1>0, <1>11 DEF HubUnregister, GoroutineTypes
  <2>3. ClientTypes'
    <3>1. Head(unregister) \in Clients
      BY <1>0, <1>11, HeadTail DEF HubUnregister, ChanTypes
    <3>2. closes' = closes \/ closes' = [closes EXCEPT ![Head(unregister)] = @ + 1]
      BY <1>11 DEF HubUnregister
    <3>3. closes' \in [Clients -> Nat]
      BY <1>0, <3>1, <3>2 DEF ClientTypes
    <3> QED BY <1>0, <1>11, <3>3 DEF HubUnregister, ClientTypes
  <2> QED BY <2>1, <2>2, <2>3
<1>12. CASE HubBroadcast
  <2>1. ChanTypes'
    BY <1>0, <1>12, HeadTail DEF HubBroadcast, ChanTypes
  <2>2. GoroutineTypes'
    <3>1. Head(broadcast) \in Rows
      BY <1>0, <1>12, HeadTail DEF HubBroadcast, ChanTypes
    <3>2. missed' \in [Clients -> SUBSET Rows]
      BY <1>0, <1>12, <3>1 DEF HubBroadcast, GoroutineTypes
    <3> QED BY <1>0, <1>12, <3>1, <3>2 DEF HubBroadcast, GoroutineTypes, HubIdle
  <2>3. ClientTypes'
    BY <1>0, <1>12 DEF HubBroadcast, ClientTypes
  <2> QED BY <2>1, <2>2, <2>3
<1>13. CASE DropSent
  <2>1. ChanTypes'
    BY <1>0, <1>13 DEF DropSent, ChanTypes, HubHolds
  <2>2. GoroutineTypes'
    BY <1>0, <1>13 DEF DropSent, GoroutineTypes
  <2>3. ClientTypes'
    BY <1>0, <1>13 DEF DropSent, ClientTypes
  <2> QED BY <2>1, <2>2, <2>3
<1>14. CASE FanOutDone
  <2>1. ChanTypes'
    BY <1>0, <1>14 DEF FanOutDone, ChanTypes
  <2>2. GoroutineTypes'
    BY <1>0, <1>14 DEF FanOutDone, GoroutineTypes, HubIdle, NoClient
  <2>3. ClientTypes'
    BY <1>0, <1>14 DEF FanOutDone, ClientTypes
  <2> QED BY <2>1, <2>2, <2>3
<1>15. ASSUME NEW c \in Clients, FanOut(c) PROVE ChanTypes' /\ GoroutineTypes' /\ ClientTypes'
  <2>1. ChanTypes'
    BY <1>0, <1>15 DEF FanOut, ChanTypes
  <2>2. GoroutineTypes'
    BY <1>0, <1>15 DEF FanOut, GoroutineTypes
  <2>3. ClientTypes'
    BY <1>0, <1>15 DEF FanOut, ClientTypes, HubHolds
  <2> QED BY <2>1, <2>2, <2>3
<1>16. ASSUME NEW c \in Clients, DropSlow(c) PROVE ChanTypes' /\ GoroutineTypes' /\ ClientTypes'
  <2>1. ChanTypes'
    BY <1>0, <1>16 DEF DropSlow, TooSlow, ChanTypes
  <2>2. GoroutineTypes'
    BY <1>0, <1>16 DEF DropSlow, TooSlow, GoroutineTypes
  <2>3. ClientTypes'
    BY <1>0, <1>16 DEF DropSlow, TooSlow, ClientTypes
  <2> QED BY <2>1, <2>2, <2>3
<1>17. ASSUME NEW c \in Clients, Break(c) \/ FetchFailed(c) PROVE ChanTypes' /\ GoroutineTypes' /\ ClientTypes'
  <2>1. ChanTypes'
    BY <1>0, <1>17 DEF Break, FetchFailed, ChanTypes
  <2>2. GoroutineTypes'
    <3>1. CASE Break(c)
      BY <1>0, <3>1 DEF Break, GoroutineTypes
    <3>2. CASE FetchFailed(c)
      BY <1>0, <3>2 DEF FetchFailed, GoroutineTypes
    <3> QED BY <1>17, <3>1, <3>2
  <2>3. ClientTypes'
    BY <1>0, <1>17 DEF Break, FetchFailed, ClientTypes
  <2> QED BY <2>1, <2>2, <2>3
<1>18. CASE UNCHANGED vars
  <2>1. ChanTypes'
    BY <1>0, <1>18 DEF vars, ChanTypes
  <2>2. GoroutineTypes'
    BY <1>0, <1>18 DEF vars, GoroutineTypes
  <2>3. ClientTypes'
    BY <1>0, <1>18 DEF vars, ClientTypes
  <2> QED BY <2>1, <2>2, <2>3
<1> QED
  BY <1>1, <1>2, <1>2a, <1>3, <1>4, <1>5, <1>6, <1>7, <1>8, <1>9, <1>10, <1>11, <1>12,
     <1>13, <1>14, <1>15, <1>16, <1>17, <1>18
     DEF Next, HubStep, PumpStep, WriterLeaves, ReaderLeaves

-----------------------------------------------------------------------------
(* Every step keeps HubHolds: the loop over the map ends before the map    *)
(* changes, for both are the hub's.                                        *)
LEMMA HoldsStep == HubTypes /\ HubHolds /\ [Next]_vars => HubHolds'
<1> SUFFICES ASSUME HubTypes, HubHolds, [Next]_vars PROVE HubHolds'
  OBVIOUS
<1>0. GoroutineTypes /\ ChanTypes
  BY DEF HubTypes
<1>1. CASE UNCHANGED hubVars
  BY <1>1 DEF hubVars, HubHolds
<1>2. CASE HubRegister \/ HubUnregister
  BY <1>2 DEF HubRegister, HubUnregister, HubHolds
<1>3. CASE HubBroadcast
  BY <1>0, <1>3, HeadTail DEF HubBroadcast, HubHolds, HubIdle, ChanTypes, GoroutineTypes
<1>4. CASE DropSent
  BY <1>0, <1>4 DEF DropSent, HubHolds, GoroutineTypes
<1>5. ASSUME NEW c \in Clients, FanOut(c) \/ DropSlow(c) PROVE HubHolds'
  <2>1. CASE FanOut(c)
    BY <1>0, <2>1 DEF FanOut, HubHolds, GoroutineTypes
  <2>2. CASE DropSlow(c)
    BY <1>0, <2>2 DEF DropSlow, TooSlow, HubHolds, GoroutineTypes
  <2> QED BY <1>5, <2>1, <2>2
<1>6. ASSUME NEW c \in Clients, PanicAndRestart(c) PROVE HubHolds'
  BY <1>6 DEF PanicAndRestart, HubHolds, HubIdle
<1>7. CASE FanOutDone
  BY <1>7 DEF FanOutDone, HubHolds, HubIdle
<1>8. CASE Listen \/ LoseUpdate \/ UNCHANGED vars \/ \E s \in Subs : Score(s)
  BY <1>1, <1>8 DEF Listen, LoseUpdate, Score, vars
<1>9. ASSUME NEW c \in Clients,
             \/ Connect(c) \/ Break(c) \/ PumpStep(c) \/ Write(c)
             \/ Fetch(c) \/ FetchFailed(c) \/ SendInitial(c)
      PROVE  UNCHANGED hubVars
  BY <1>9 DEF Connect, Break, PumpStep, Write, Fetch, FetchFailed, SendInitial,
              WriterEnds, WriterLeaves, ReaderLeaves, Leave
<1> QED
  BY <1>1, <1>2, <1>3, <1>4, <1>5, <1>6, <1>7, <1>8, <1>9 DEF Next, HubStep

(* Only a registration, a removal from the map, a connection and a restart *)
(* matter to ClosedOnce.                                                   *)
LEMMA ClosureStep == ClosureInv /\ [Next]_vars => ClosureInv'
<1> SUFFICES ASSUME ClosureInv, [Next]_vars PROVE ClosureInv'
  OBVIOUS
<1>1. HubTypes' /\ HubHolds'
  BY TypesStep, HoldsStep DEF ClosureInv
<1>2. /\ ChanTypes /\ GoroutineTypes /\ ClientTypes /\ EntersOnce /\ ClosedOnce
  BY DEF ClosureInv, HubTypes
<1> USE DEF EntersOnce, ClosedOnce
<1>3. CASE /\ UNCHANGED <<register, clients, closes>>
           /\ \A c \in Clients : conn'[c] = "none" => conn[c] = "none"
  <2>1. EntersOnce' /\ ClosedOnce'
    BY <1>2, <1>3 DEF ChanTypes
  <2> QED BY <1>1, <2>1 DEF ClosureInv
<1>4. ASSUME NEW c \in Clients, Connect(c) PROVE ClosureInv'
  <2>1. /\ register' = Append(register, c) /\ conn[c] = "none"
        /\ conn' = [conn EXCEPT ![c] = "open"] /\ UNCHANGED <<clients, closes>>
    BY <1>4 DEF Connect, hubVars
  <2>2. EntersOnce' /\ ClosedOnce'
    BY <1>2, <2>1 DEF ChanTypes, ClientTypes
  <2> QED BY <1>1, <2>2 DEF ClosureInv
<1>5. CASE HubRegister
  <2>1. /\ register # <<>> /\ register' = Tail(register)
        /\ clients' = clients \cup {register[1]} /\ UNCHANGED <<closes, conn>>
    BY <1>2, <1>5, HeadTail DEF HubRegister, ChanTypes, clientVars
  <2>2. /\ \A i \in DOMAIN register' : i + 1 \in DOMAIN register /\ register'[i] = register[i + 1]
        /\ \A i \in DOMAIN register' : i \in Nat \ {0}
        /\ 1 \in DOMAIN register /\ register[1] \in Clients
    BY <1>2, <2>1, HeadTail DEF ChanTypes
  <2>3. EntersOnce' /\ ClosedOnce'
    BY <1>2, <2>1, <2>2
  <2> QED BY <1>1, <2>3 DEF ClosureInv
<1>6. CASE HubUnregister
  <2>1. PICK c \in Clients :
            /\ UNCHANGED <<register, conn>>
            /\ IF c \in clients
               THEN clients' = clients \ {c} /\ closes' = [closes EXCEPT ![c] = @ + 1]
               ELSE UNCHANGED <<clients, closes>>
    BY <1>2, <1>6, HeadTail DEF HubUnregister, Present, ChanTypes
  <2>2. EntersOnce' /\ ClosedOnce'
    BY <1>2, <2>1 DEF ChanTypes, ClientTypes
  <2> QED BY <1>1, <2>2 DEF ClosureInv
<1>7. ASSUME NEW c \in Clients, PanicAndRestart(c) PROVE ClosureInv'
  <2>1. EntersOnce' /\ ClosedOnce'
    BY <1>7 DEF PanicAndRestart
  <2> QED BY <1>1, <2>1 DEF ClosureInv
<1>8. ASSUME NEW c \in Clients,
             \/ Break(c) \/ PumpStep(c) \/ Write(c)
             \/ Fetch(c) \/ FetchFailed(c) \/ SendInitial(c)
      PROVE  /\ UNCHANGED <<register, clients, closes>>
             /\ \A d \in Clients : conn'[d] = "none" => conn[d] = "none"
  <2>1. UNCHANGED <<register, clients, closes>>
    BY <1>8 DEF Break, PumpStep, Write, Fetch, FetchFailed, SendInitial, WriterEnds,
                WriterLeaves, ReaderLeaves, Leave, chanVars, hubVars
  <2>2. conn' = conn \/ conn' = [conn EXCEPT ![c] = "broken"]
    BY <1>8 DEF Break, PumpStep, Write, Fetch, FetchFailed, SendInitial, WriterEnds,
                WriterLeaves, ReaderLeaves, Leave
  <2> QED BY <1>2, <2>1, <2>2 DEF ClientTypes
<1>9. CASE \/ Listen \/ LoseUpdate \/ HubBroadcast \/ DropSent \/ FanOutDone \/ UNCHANGED vars
           \/ (\E s \in Subs : Score(s)) \/ \E c \in Clients : FanOut(c) \/ DropSlow(c)
  <2>1. UNCHANGED <<register, clients, closes, conn>>
    BY <1>9 DEF Listen, LoseUpdate, HubBroadcast, DropSent, FanOutDone, Score, FanOut, DropSlow,
                vars, chanVars, hubVars, clientVars
  <2> QED BY <1>3, <2>1
<1> QED
  BY <1>3, <1>4, <1>5, <1>6, <1>7, <1>8, <1>9 DEF Next, HubStep

(* A client's channel is closed once, and never while the client is in the *)
(* hub's map, however often its pumps and the hub unregister it: close of  *)
(* closed channel and send on closed channel cannot happen in hub.go, for  *)
(* any numbers of clients and updates and any capacities.                  *)
THEOREM ChannelClosedOnce == Spec => []ClosedOnce
<1>1. ClosureInv => ClosedOnce
  BY DEF ClosureInv
<1> QED BY <1>1, ClosureInit, ClosureStep, PTL DEF Spec

-----------------------------------------------------------------------------
(* What a send and a receive do to the rows of a submission.               *)
LEMMA AppendRow ==
    ASSUME NEW q \in Seq(Rows), NEW r \in Rows, NEW s
    PROVE  LET qr == Append(q, r)
           IN  /\ r.sub = s => \E i \in DOMAIN qr : LastOf(qr, s, i) /\ qr[i] = r
               /\ r.sub # s =>
                    /\ NoneOf(q, s) => NoneOf(qr, s)
                    /\ \A i \in DOMAIN q : LastOf(q, s, i) =>
                         i \in DOMAIN qr /\ LastOf(qr, s, i) /\ qr[i] = q[i]
<1> DEFINE qr == Append(q, r)
<1>1. /\ Len(q) \in Nat /\ DOMAIN q = 1..Len(q) /\ DOMAIN qr = 1..(Len(q) + 1)
      /\ qr[Len(q) + 1] = r /\ \A i \in 1..Len(q) : qr[i] = q[i]
  OBVIOUS
<1> HIDE DEF qr
<1>2. r.sub = s => LastOf(qr, s, Len(q) + 1)
  BY <1>1 DEF LastOf
<1>3. ASSUME r.sub # s, NoneOf(q, s) PROVE NoneOf(qr, s)
  BY <1>1, <1>3 DEF NoneOf
<1>4. ASSUME r.sub # s, NEW i \in DOMAIN q, LastOf(q, s, i)
      PROVE  i \in DOMAIN qr /\ LastOf(qr, s, i) /\ qr[i] = q[i]
  BY <1>1, <1>4 DEF LastOf
<1>5. Len(q) + 1 \in DOMAIN qr
  BY <1>1
<1> QED BY <1>1, <1>2, <1>3, <1>4, <1>5 DEF qr

(* Taking the first row of a queue leaves the last row of a submission     *)
(* last, unless it is the one taken.                                       *)
LEMMA TailRow ==
    ASSUME NEW q \in Seq(Rows), q # <<>>, NEW s
    PROVE  /\ NoneOf(q, s) => Head(q).sub # s /\ NoneOf(Tail(q), s)
           /\ \A i \in DOMAIN q : LastOf(q, s, i) =>
                \/ i = 1 /\ q[i] = Head(q) /\ Head(q).sub = s /\ NoneOf(Tail(q), s)
                \/ /\ i - 1 \in DOMAIN Tail(q) /\ LastOf(Tail(q), s, i - 1)
                   /\ Tail(q)[i - 1] = q[i]
<1> DEFINE t == Tail(q)
<1>1. /\ Len(q) \in Nat \ {0} /\ DOMAIN q = 1..Len(q) /\ DOMAIN t = 1..(Len(q) - 1)
      /\ Head(q) = q[1] /\ \A i \in 1..(Len(q) - 1) : t[i] = q[i + 1]
  OBVIOUS
<1> HIDE DEF t
<1>2. NoneOf(q, s) => Head(q).sub # s /\ NoneOf(t, s)
  BY <1>1 DEF NoneOf
<1>3. ASSUME NEW i \in DOMAIN q, LastOf(q, s, i), i = 1
      PROVE  Head(q).sub = s /\ NoneOf(t, s)
  BY <1>1, <1>3 DEF LastOf, NoneOf
<1>4. ASSUME NEW i \in DOMAIN q, LastOf(q, s, i), i # 1
      PROVE  i - 1 \in DOMAIN t /\ LastOf(t, s, i - 1) /\ t[i - 1] = q[i]
  <2>1. i - 1 \in 1..(Len(q) - 1) /\ (i - 1) + 1 = i
    BY <1>1, <1>4
  <2>2. i - 1 \in DOMAIN t /\ t[i - 1] = q[i]
    BY <1>1, <2>1
  <2>3. ASSUME NEW j \in DOMAIN t, j > i - 1 PROVE t[j].sub # s
    <3>1. j + 1 \in DOMAIN q /\ j + 1 > i /\ t[j] = q[j + 1]
      BY <1>1, <2>1, <2>3
    <3> QED BY <1>4, <3>1 DEF LastOf
  <2> QED BY <1>4, <2>2, <2>3 DEF LastOf
<1> QED BY <1>1, <1>2, <1>3, <1>4 DEF t

(* A row appended is the last one of its submission.                       *)
LEMMA AppendLast ==
    ASSUME NEW q \in Seq(Rows), NEW s, NEW r \in Rows, r.sub = s
    PROVE  \E i \in DOMAIN Append(q, r) : LastOf(Append(q, r), s, i) /\ Append(q, r)[i] = r
BY AppendRow

(* The last row of a submission is either the one taken or still the last. *)
LEMMA TailLast ==
    ASSUME NEW q \in Seq(Rows), NEW s, q # <<>>, NEW i \in DOMAIN q, LastOf(q, s, i)
    PROVE  \/ q[i] = Head(q) /\ Head(q).sub = s /\ NoneOf(Tail(q), s)
           \/ /\ i - 1 \in DOMAIN Tail(q) /\ LastOf(Tail(q), s, i - 1)
              /\ Tail(q)[i - 1] = q[i]
BY TailRow

(* A client whose channel, browser and snapshot are left alone is served   *)
(* as before, if what was coming to it still is.                           *)
LEMMA ServesFrame ==
    ASSUME NEW c \in Clients, NEW s \in Subs, Serves(c, s), Coming(c, s) => Coming(c, s)',
           send'[c] = send[c], shown'[c] = shown[c], initial'[c] = initial[c],
           state'[s] = state[s], PassedBy(c, s) => PassedBy(c, s)'
    PROVE  Serves(c, s)'
BY DEF Serves, InChannel, OnScreen, Pending, NewestIn, NoneOf, LastOf

(* The rows that were lost are history ...                                 *)
LEMMA LostKept ==
    ASSUME [Next]_vars, NEW s \in Subs, state'[s] = state[s]
    PROVE  lost \subseteq lost' /\ (Lost(s) => Lost(s)')
<1>1. lost \subseteq lost'
  BY DEF Next, vars, redisVars, Score, LoseUpdate, Listen, HubStep, HubRegister, HubUnregister,
         HubBroadcast, DropSent, FanOutDone, FanOut, DropSlow, Connect, Break, PumpStep,
         WriterEnds, WriterLeaves, ReaderLeaves, Leave, Write, Fetch, FetchFailed, SendInitial,
         PanicAndRestart
<1>2. Newest(s)' = Newest(s)
  BY DEF Newest
<1> QED BY <1>1, <1>2 DEF Lost

(* ... and so are those that passed a client by.                           *)
LEMMA PassedByKept ==
    ASSUME HubTypes, [Next]_vars, NEW c \in Clients, NEW s \in Subs, state'[s] = state[s]
    PROVE  PassedBy(c, s) => PassedBy(c, s)'
<1>1. ChanTypes /\ GoroutineTypes /\ ClientTypes
  BY DEF HubTypes
<1>2. lost \subseteq lost'
  BY LostKept
<1>3. missed[c] \subseteq missed'[c]
  <2>1. CASE HubBroadcast
    BY <1>1, <2>1 DEF HubBroadcast, GoroutineTypes
  <2>2. CASE missed' = missed
    BY <2>2
  <2>3. CASE ~HubBroadcast
    BY <2>2, <2>3 DEF Next, vars, hubVars, Score, LoseUpdate, Listen, HubStep, HubRegister,
           HubUnregister, DropSent, FanOutDone, FanOut, DropSlow, Connect, Break, PumpStep,
           WriterEnds, WriterLeaves, ReaderLeaves, Leave, Write, Fetch, FetchFailed,
           SendInitial, PanicAndRestart
  <2> QED BY <2>1, <2>3
<1>4. overtaken[c] \subseteq overtaken'[c]
  <2>1. CASE \E d \in Clients : SendInitial(d)
    BY <1>1, <2>1 DEF SendInitial, ClientTypes
  <2>2. CASE overtaken' = overtaken
    BY <2>2
  <2>3. CASE ~\E d \in Clients : SendInitial(d)
    BY <2>2, <2>3 DEF Next, vars, clientVars, Score, LoseUpdate, Listen, HubStep, HubRegister,
           HubUnregister, HubBroadcast, DropSent, FanOutDone, FanOut, DropSlow, Connect, Break,
           PumpStep, WriterEnds, WriterLeaves, ReaderLeaves, Leave, Write, Fetch, FetchFailed,
           PanicAndRestart
  <2> QED BY <2>1, <2>3
<1>5. Newest(s)' = Newest(s)
  BY DEF Newest
<1> QED BY <1>2, <1>3, <1>4, <1>5 DEF PassedBy
-----------------------------------------------------------------------------
(* Channels are first in, first out: the newest version of a row stays     *)
(* behind the older ones from Redis to the hub's goroutine, or is lost.    *)
LEMMA NewestStep == ClosureInv /\ NewestLast /\ [Next]_vars => NewestLast'
<1> SUFFICES ASSUME ClosureInv, NewestLast, [Next]_vars, NEW s \in Subs
             PROVE  \/ NewestIn(feed, s)' \/ Lost(s)'
                    \/ /\ NoneOf(feed', s)
                       /\ \/ NewestIn(broadcast, s)'
                          \/ /\ NoneOf(broadcast', s)
                             /\ (hub'.pc # "select" /\ hub'.row.sub = s) => hub'.row.ver = state'[s]
  BY DEF NewestLast
<1> DEFINE Goal == \/ NewestIn(feed, s)' \/ Lost(s)'
                   \/ /\ NoneOf(feed', s)
                      /\ \/ NewestIn(broadcast, s)'
                         \/ /\ NoneOf(broadcast', s)
                            /\ (hub'.pc # "select" /\ hub'.row.sub = s) => hub'.row.ver = state'[s]
<1>0. ChanTypes /\ GoroutineTypes /\ HubTypes
  BY DEF ClosureInv, HubTypes
<1>a. CASE Lost(s) /\ state'[s] = state[s]
  <2>1. Lost(s)'
    BY <1>a, LostKept
  <2> QED BY <2>1
<1>1. \/ NewestIn(feed, s) \/ Lost(s)
      \/ /\ NoneOf(feed, s)
         /\ \/ NewestIn(broadcast, s)
            \/ /\ NoneOf(broadcast, s)
               /\ (hub.pc # "select" /\ hub.row.sub = s) => hub.row.ver = state[s]
  BY DEF NewestLast
<1>2. CASE /\ UNCHANGED <<state, feed, broadcast>>
           /\ hub'.pc # "select" => hub.pc # "select" /\ hub'.row = hub.row
  BY <1>1, <1>2, <1>a DEF NewestIn
<1>3. ASSUME NEW t \in Subs, Score(t) PROVE Goal
  <2> DEFINE r == [sub |-> t, ver |-> state'[t]]
  <2>2. /\ r \in Rows /\ r.sub = t /\ r.ver = state'[t] /\ feed' = Append(feed, r)
        /\ UNCHANGED <<broadcast, hub>>
    BY <1>0, <1>3 DEF Score, ChanTypes, Rows, chanVars, hubVars
  <2> HIDE DEF r
  <2>3. feed \in Seq(Rows)
    BY <1>0 DEF ChanTypes
  <2>4. CASE s = t
    BY <2>2, <2>3, <2>4, AppendRow DEF NewestIn
  <2>5. CASE s # t
    <3>1. state'[s] = state[s]
      BY <1>0, <1>3, <2>5 DEF Score, ChanTypes
    <3>2. NewestIn(feed, s) => NewestIn(feed, s)'
      BY <2>2, <2>3, <2>5, <3>1, AppendRow DEF NewestIn
    <3>3. NoneOf(feed, s) => NoneOf(feed', s)
      BY <2>2, <2>3, <2>5, AppendRow
    <3>4. NewestIn(broadcast, s) => NewestIn(broadcast, s)'
      BY <2>2, <3>1 DEF NewestIn
    <3> QED BY <1>1, <1>a, <2>2, <3>1, <3>2, <3>3, <3>4
  <2> QED BY <2>4, <2>5
<1>4. CASE Listen
  <2>1. PICK r \in Rows :
           /\ feed \in Seq(Rows) /\ feed # <<>> /\ feed' = Tail(feed) /\ r = Head(feed)
           /\ broadcast \in Seq(Rows) /\ broadcast' = Append(broadcast, r)
           /\ UNCHANGED <<state, hub>>
    BY <1>0, <1>4, HeadTail DEF Listen, ChanTypes, hubVars
  <2>a. broadcast \in Seq(Rows) /\ broadcast' = Append(broadcast, r)
    BY <2>1
  <2>2. CASE NewestIn(feed, s)
    <3>1. PICK i \in DOMAIN feed : LastOf(feed, s, i) /\ feed[i].ver = state[s]
      BY <2>2 DEF NewestIn
    <3>2. CASE i - 1 \in DOMAIN Tail(feed) /\ LastOf(Tail(feed), s, i - 1) /\ Tail(feed)[i - 1] = feed[i]
      BY <2>1, <3>1, <3>2 DEF NewestIn
    <3>3. CASE feed[i] = Head(feed) /\ Head(feed).sub = s /\ NoneOf(Tail(feed), s)
      <4>1. NewestIn(broadcast, s)'
        <5>1. \E k \in DOMAIN broadcast' : LastOf(broadcast', s, k) /\ broadcast'[k] = r
          <6>1. r.sub = s
            BY <2>1, <3>3
          <6> QED BY <2>a, <6>1, AppendRow
        <5> QED BY <2>1, <3>1, <3>3, <5>1 DEF NewestIn
      <4> QED BY <2>1, <3>3, <4>1
    <3> QED BY <2>1, <3>1, <3>2, <3>3, TailRow
  <2>3. CASE NoneOf(feed, s)
    <3>1. NoneOf(feed', s) /\ Head(feed).sub # s
      BY <2>1, <2>3, TailRow
    <3>2. NewestIn(broadcast, s) => NewestIn(broadcast, s)'
      <4>1. \A k \in DOMAIN broadcast : LastOf(broadcast, s, k) =>
              k \in DOMAIN broadcast' /\ LastOf(broadcast', s, k) /\ broadcast'[k] = broadcast[k]
        <5>1. r.sub # s
          BY <2>1, <3>1
        <5> QED BY <2>a, <5>1, AppendRow
      <4> QED BY <2>1, <4>1 DEF NewestIn
    <3>3. NoneOf(broadcast, s) => NoneOf(broadcast', s)
      BY <2>1, <3>1, AppendRow
    <3> QED BY <1>1, <1>a, <2>1, <2>2, <3>1, <3>2, <3>3
  <2>4. CASE Lost(s)
    BY <1>a, <2>1, <2>4
  <2> QED BY <1>1, <2>2, <2>3, <2>4
<1>4a. CASE LoseUpdate
  <2>1. /\ feed \in Seq(Rows) /\ feed # <<>> /\ feed' = Tail(feed)
        /\ lost' = lost \cup {Head(feed)} /\ UNCHANGED <<state, broadcast, hub>>
    BY <1>0, <1>4a DEF LoseUpdate, ChanTypes, chanVars, hubVars
  <2>2. CASE NewestIn(feed, s)
    <3>1. PICK i \in DOMAIN feed : LastOf(feed, s, i) /\ feed[i].ver = state[s]
      BY <2>2 DEF NewestIn
    <3>2. CASE i - 1 \in DOMAIN Tail(feed) /\ LastOf(Tail(feed), s, i - 1) /\ Tail(feed)[i - 1] = feed[i]
      BY <2>1, <3>1, <3>2 DEF NewestIn
    <3>3. CASE feed[i] = Head(feed) /\ Head(feed).sub = s
      <4>1. Head(feed) \in Rows
        BY <2>1, HeadTail
      <4>2. Head(feed) = Newest(s)'
        BY <2>1, <3>1, <3>3, <4>1 DEF Newest, Rows
      <4> QED BY <2>1, <4>2 DEF Lost
    <3> QED BY <2>1, <3>1, <3>2, <3>3, TailRow
  <2>3. CASE NoneOf(feed, s)
    <3>1. NoneOf(feed', s)
      BY <2>1, <2>3, TailRow
    <3>2. NewestIn(broadcast, s) => NewestIn(broadcast, s)'
      BY <2>1 DEF NewestIn
    <3> QED BY <1>1, <1>a, <2>1, <2>2, <3>1, <3>2
  <2>4. CASE Lost(s)
    BY <1>a, <2>1, <2>4
  <2> QED BY <1>1, <2>2, <2>3, <2>4
<1>5. CASE HubBroadcast
  <2>1. /\ broadcast \in Seq(Rows) /\ broadcast # <<>> /\ broadcast' = Tail(broadcast)
        /\ hub'.row = Head(broadcast) /\ UNCHANGED <<state, feed>>
    BY <1>0, <1>5 DEF HubBroadcast, ChanTypes, redisVars, HubIdle
  <2>2. CASE NewestIn(feed, s)
    BY <2>1, <2>2 DEF NewestIn
  <2>3. CASE NewestIn(broadcast, s) /\ NoneOf(feed, s)
    <3>1. PICK i \in DOMAIN broadcast : LastOf(broadcast, s, i) /\ broadcast[i].ver = state[s]
      BY <2>3 DEF NewestIn
    <3>2. CASE /\ i - 1 \in DOMAIN Tail(broadcast) /\ LastOf(Tail(broadcast), s, i - 1)
               /\ Tail(broadcast)[i - 1] = broadcast[i]
      <4>1. NewestIn(broadcast, s)'
        BY <2>1, <3>1, <3>2 DEF NewestIn
      <4> QED BY <2>1, <2>3, <4>1
    <3>3. CASE broadcast[i] = Head(broadcast) /\ NoneOf(Tail(broadcast), s)
      BY <2>1, <2>3, <3>1, <3>3
    <3> QED BY <2>1, <3>1, <3>2, <3>3, TailRow
  <2>4. CASE NoneOf(broadcast, s) /\ NoneOf(feed, s)
    BY <2>1, <2>4, TailRow
  <2>5. CASE Lost(s)
    BY <1>a, <2>1, <2>5
  <2> QED BY <1>1, <2>2, <2>3, <2>4, <2>5
<1>6. ASSUME NEW c \in Clients, PanicAndRestart(c) PROVE Goal
  <2>1. feed' = <<>> /\ broadcast' = <<>> /\ hub'.pc = "select"
    BY <1>6 DEF PanicAndRestart, HubIdle
  <2> QED BY <2>1 DEF NoneOf
<1>7. ASSUME NEW c \in Clients,
             \/ FanOut(c) \/ DropSlow(c) \/ Connect(c) \/ Break(c) \/ PumpStep(c) \/ Write(c)
             \/ Fetch(c) \/ FetchFailed(c) \/ SendInitial(c)
      PROVE  Goal
  <2>1. UNCHANGED <<state, feed, broadcast>>
    BY <1>7 DEF FanOut, DropSlow, Connect, Break, PumpStep, Write, Fetch, FetchFailed,
                SendInitial, WriterEnds, WriterLeaves, ReaderLeaves, Leave, redisVars, chanVars
  <2>2. hub'.pc # "select" => hub.pc # "select" /\ hub'.row = hub.row
    <3>1. CASE FanOut(c)
      BY <1>0, <3>1 DEF FanOut, GoroutineTypes
    <3>2. CASE DropSlow(c)
      BY <1>0, <3>2 DEF DropSlow, TooSlow, GoroutineTypes
    <3>3. CASE \/ Connect(c) \/ Break(c) \/ PumpStep(c) \/ Write(c)
               \/ Fetch(c) \/ FetchFailed(c) \/ SendInitial(c)
      <4>1. UNCHANGED hubVars
        BY <3>3 DEF Connect, Break, PumpStep, Write, Fetch, FetchFailed,
                    SendInitial, WriterEnds, WriterLeaves, ReaderLeaves, Leave
      <4> QED BY <4>1 DEF hubVars
    <3> QED BY <1>7, <3>1, <3>2, <3>3
  <2> QED BY <1>2, <2>1, <2>2
<1>8. CASE DropSent \/ FanOutDone \/ HubRegister \/ HubUnregister \/ UNCHANGED vars
  <2>1. UNCHANGED <<state, feed, broadcast>>
    BY <1>8 DEF DropSent, FanOutDone, HubRegister, HubUnregister, vars, redisVars, chanVars
  <2>2. hub'.pc # "select" => hub.pc # "select" /\ hub'.row = hub.row
    <3>1. CASE DropSent
      BY <1>0, <3>1 DEF DropSent, GoroutineTypes
    <3>2. CASE FanOutDone
      BY <3>2 DEF FanOutDone, HubIdle
    <3>3. CASE HubRegister \/ HubUnregister \/ UNCHANGED vars
      BY <3>3 DEF HubRegister, HubUnregister, vars, hubVars
    <3> QED BY <1>8, <3>1, <3>2, <3>3
  <2> QED BY <1>2, <2>1, <2>2
<1> QED
  BY <1>3, <1>4, <1>4a, <1>5, <1>6, <1>7, <1>8 DEF Next, HubStep

(* Versions only grow, and a browser puts a row where it belongs.          *)
LEMMA SnapshotStep == ClosureInv /\ SnapshotOld /\ [Next]_vars => SnapshotOld'
<1> SUFFICES ASSUME ClosureInv, SnapshotOld, [Next]_vars PROVE SnapshotOld'
  OBVIOUS
<1>0. ChanTypes /\ GoroutineTypes /\ ClientTypes
  BY DEF ClosureInv, HubTypes
<1>1. \A c \in Clients : initial[c].rows \in Seq(Rows)
  BY <1>0 DEF GoroutineTypes
<1>2. CASE UNCHANGED <<state, initial, shown>>
  BY <1>2 DEF SnapshotOld
<1>3. ASSUME NEW t \in Subs, Score(t) PROVE SnapshotOld'
  <2>1. UNCHANGED <<initial, shown>> /\ state' = [state EXCEPT ![t] = @ + 1]
    BY <1>3 DEF Score, clientVars
  <2>2. \A s \in Subs : state[s] \in Nat /\ state'[s] \in Nat /\ state[s] <= state'[s]
    BY <1>0, <2>1 DEF ChanTypes
  <2>3. ASSUME NEW c \in Clients, NEW k \in DOMAIN initial[c].rows
        PROVE  initial[c].rows[k].sub \in Subs /\ initial[c].rows[k].ver \in Nat
    <3>1. initial[c].rows[k] \in Rows
      BY <1>1
    <3> QED BY <3>1 DEF Rows
  <2>4. \A c \in Clients : \A k \in DOMAIN initial[c].rows :
           initial[c].rows[k].ver <= state'[initial[c].rows[k].sub]
    BY <2>2, <2>3 DEF SnapshotOld
  <2> QED BY <2>1, <2>4 DEF SnapshotOld
<1>4. ASSUME NEW c \in Clients, Connect(c) \/ FetchFailed(c) PROVE SnapshotOld'
  <2>1. UNCHANGED <<state, shown>> /\ \A d \in Clients : initial'[d].rows = initial[d].rows
    <3>1. \E pc \in {"fetch", "failed"} : initial' = [initial EXCEPT ![c].pc = pc]
      BY <1>4 DEF Connect, FetchFailed
    <3>2. \A d \in Clients : initial'[d].rows = initial[d].rows
      BY <1>0, <3>1 DEF GoroutineTypes
    <3>3. UNCHANGED <<state, shown>>
      BY <1>4 DEF Connect, FetchFailed, redisVars
    <3> QED BY <3>2, <3>3
  <2> QED BY <2>1 DEF SnapshotOld
<1>5. ASSUME NEW c \in Clients, Fetch(c) PROVE SnapshotOld'
  <2>1. PICK rows \in Seq(Rows) :
           /\ initial' = [initial EXCEPT ![c] = [pc |-> "send", rows |-> rows]]
           /\ \A k \in DOMAIN rows : rows[k].ver = state[rows[k].sub]
    BY <1>0, <1>5, SnapshotRows DEF HubTypes
  <2>2. UNCHANGED <<state, shown>>
    BY <1>5 DEF Fetch, redisVars
  <2>3. initial'[c].rows = rows /\ \A d \in Clients \ {c} : initial'[d] = initial[d]
    BY <1>0, <2>1 DEF GoroutineTypes
  <2>4. \A k \in DOMAIN rows : rows[k].ver <= state[rows[k].sub]
    <3> SUFFICES ASSUME NEW k \in DOMAIN rows PROVE rows[k].ver <= state[rows[k].sub]
      OBVIOUS
    <3>1. rows[k] \in Rows /\ rows[k].ver = state[rows[k].sub]
      BY <2>1
    <3> QED BY <3>1 DEF Rows
  <2> QED BY <2>2, <2>3, <2>4 DEF SnapshotOld
<1>6. ASSUME NEW c \in Clients, SendInitial(c) PROVE SnapshotOld'
  <2>1. PICK q \in Seq(Rows) : q = initial[c].rows /\ q # <<>>
    BY <1>1, <1>6 DEF SendInitial
  <2>2. initial' = [initial EXCEPT ![c].rows = Tail(@)] /\ UNCHANGED <<state, shown>>
    BY <1>6 DEF SendInitial, redisVars
  <2>3. initial'[c].rows = Tail(q) /\ \A d \in Clients \ {c} : initial'[d] = initial[d]
    BY <1>0, <2>1, <2>2 DEF GoroutineTypes
  <2>4. \A k \in DOMAIN Tail(q) : k + 1 \in DOMAIN q /\ Tail(q)[k] = q[k + 1]
    BY <2>1, HeadTail
  <2>5. \A k \in DOMAIN q : q[k].ver <= state[q[k].sub]
    BY <2>1 DEF SnapshotOld
  <2>6. \A k \in DOMAIN Tail(q) : Tail(q)[k].ver <= state[Tail(q)[k].sub]
    BY <2>4, <2>5
  <2>7. \A d \in Clients : \A k \in DOMAIN initial'[d].rows :
           initial'[d].rows[k].ver <= state[initial'[d].rows[k].sub]
    BY <2>3, <2>6 DEF SnapshotOld
  <2> QED BY <2>2, <2>7 DEF SnapshotOld
<1>7. ASSUME NEW c \in Clients, Write(c) PROVE SnapshotOld'
  <2>1. PICK h \in Rows : h = Head(send[c])
    <3>1. send[c] \in Seq(Rows) /\ send[c] # <<>>
      BY <1>0, <1>7 DEF Write, ClientTypes
    <3> QED BY <3>1, HeadTail
  <2>2. shown' = [shown EXCEPT ![c] = [shown[c] EXCEPT ![h.sub] = h]]
        /\ UNCHANGED <<state, initial>>
    BY <1>7, <2>1 DEF Write, redisVars
  <2>3. ASSUME NEW d \in Clients, NEW s \in Subs
        PROVE  shown'[d][s] = shown[d][s] \/ (shown'[d][s] = h /\ h.sub = s)
    BY <1>0, <2>2 DEF ClientTypes
  <2>4. \A d \in Clients, s \in Subs : shown'[d][s] \in Rows => shown'[d][s].sub = s
    BY <2>3 DEF SnapshotOld
  <2> QED BY <2>2, <2>4 DEF SnapshotOld
<1>8. ASSUME NEW c \in Clients, PanicAndRestart(c) PROVE SnapshotOld'
  BY <1>8 DEF PanicAndRestart, SnapshotOld
<1>9. CASE \/ Listen \/ LoseUpdate \/ HubRegister \/ HubUnregister \/ HubBroadcast \/ DropSent
           \/ FanOutDone \/ UNCHANGED vars
           \/ \E c \in Clients :
                FanOut(c) \/ DropSlow(c) \/ Break(c) \/ PumpStep(c)
  BY <1>2, <1>9 DEF Listen, LoseUpdate, HubRegister, HubUnregister, HubBroadcast, DropSent,
                    FanOutDone, vars, FanOut, DropSlow, Break, PumpStep, WriterEnds,
                    WriterLeaves, ReaderLeaves, Leave, redisVars, clientVars
<1> QED
  BY <1>3, <1>4, <1>5, <1>6, <1>7, <1>8, <1>9 DEF Next, HubStep

-----------------------------------------------------------------------------
(* What a send and a receive do to the elements of a channel.              *)
LEMMA ToSetOf ==
    ASSUME NEW S, NEW q \in Seq(S), NEW e \in S
    PROVE  /\ ToSet(q) \subseteq ToSet(Append(q, e)) /\ e \in ToSet(Append(q, e))
           /\ q # <<>> => ToSet(q) \subseteq {Head(q)} \cup ToSet(Tail(q))
<1>1. /\ Len(q) \in Nat /\ DOMAIN q = 1..Len(q) /\ DOMAIN Append(q, e) = 1..(Len(q) + 1)
      /\ Append(q, e)[Len(q) + 1] = e /\ \A i \in 1..Len(q) : Append(q, e)[i] = q[i]
  OBVIOUS
<1>2. ASSUME NEW i \in DOMAIN q PROVE q[i] \in ToSet(Append(q, e))
  <2>1. i \in DOMAIN Append(q, e) /\ Append(q, e)[i] = q[i]
    BY <1>1, <1>2
  <2> QED BY <2>1 DEF ToSet
<1>3. e \in ToSet(Append(q, e))
  <2>1. Len(q) + 1 \in DOMAIN Append(q, e)
    BY <1>1
  <2> QED BY <1>1, <2>1 DEF ToSet
<1>4. ASSUME q # <<>>, NEW i \in DOMAIN q, i # 1 PROVE q[i] \in ToSet(Tail(q))
  <2>1. i - 1 \in DOMAIN Tail(q) /\ Tail(q)[i - 1] = q[i]
    <3>1. i - 1 \in 1..(Len(q) - 1) /\ (i - 1) + 1 = i
      BY <1>1, <1>4
    <3>2. DOMAIN Tail(q) = 1..(Len(q) - 1) /\ Tail(q)[i - 1] = q[(i - 1) + 1]
      BY <1>1, <1>4, <3>1, HeadTail
    <3> QED BY <3>1, <3>2
  <2> QED BY <2>1 DEF ToSet
<1>5. q # <<>> => Head(q) = q[1]
  OBVIOUS
<1> QED BY <1>2, <1>3, <1>4, <1>5 DEF ToSet

(* A client that the hub keeps was kept before, if it was there.           *)
LEMMA KeptBefore ==
    ASSUME ClosureInv, [Next]_vars, NEW d \in Clients, Kept(d)',
           d \in clients \cup ToSet(register)
    PROVE  Kept(d)
<1>0. ChanTypes /\ GoroutineTypes /\ ClientTypes /\ EntersOnce /\ HubHolds
  BY DEF ClosureInv, HubTypes
<1>1. /\ conn'[d] = "open" /\ d \in clients' \cup ToSet(register') /\ d # NoClient
      /\ d \in clients' => d \notin ToSet(unregister') /\ d # hub'.drop
  BY NoClientIsNone DEF Kept
<1>2. /\ conn[d] = "open"
      /\ d \in clients => d \notin ToSet(unregister) /\ d # hub.drop
      => Kept(d)
  BY DEF Kept
<1>a. ToSet(register) \cap clients = {} /\ \A e \in ToSet(register) \cup clients : conn[e] # "none"
  BY <1>0 DEF EntersOnce, ToSet, GoroutineTypes
<1>3. UNCHANGED <<clients, conn, unregister, hub>> => Kept(d)
  BY <1>1, <1>2
<1>4. ASSUME NEW c \in Clients, Connect(c) PROVE Kept(d)
  <2>1. /\ conn[c] = "none" /\ conn' = [conn EXCEPT ![c] = "open"]
        /\ UNCHANGED <<clients, unregister, hub>>
    BY <1>4 DEF Connect, hubVars
  <2>2. d # c
    BY <1>a, <2>1
  <2>3. conn'[d] = conn[d]
    BY <1>0, <2>1, <2>2 DEF ClientTypes
  <2> QED BY <1>1, <1>2, <2>1, <2>3
<1>5. ASSUME NEW c \in Clients, Break(c) \/ Leave(c) PROVE Kept(d)
  <2>1. conn' = [conn EXCEPT ![c] = "broken"] /\ UNCHANGED <<clients, hub>>
    BY <1>5 DEF Break, Leave, hubVars
  <2>2. ToSet(unregister) \subseteq ToSet(unregister')
    <3>1. CASE unregister' = Append(unregister, c)
      BY <1>0, <3>1, ToSetOf DEF ChanTypes
    <3> QED BY <1>5, <3>1 DEF Break, Leave, chanVars
  <2>3. conn[d] = "open"
    BY <1>0, <1>1, <2>1 DEF ClientTypes
  <2> QED BY <1>1, <1>2, <2>1, <2>2, <2>3
<1>6. ASSUME NEW c \in Clients, PanicAndRestart(c) PROVE FALSE
  BY <1>1, <1>6 DEF PanicAndRestart
<1>7. ASSUME NEW c \in Clients,
             \/ Fetch(c) \/ FetchFailed(c) \/ SendInitial(c) \/ Write(c) \/ WriterEnds(c)
      PROVE  Kept(d)
  <2>1. UNCHANGED <<clients, conn, unregister, hub>>
    BY <1>7 DEF Fetch, FetchFailed, SendInitial, Write, WriterEnds, chanVars, hubVars
  <2> QED BY <1>3, <2>1
<1>8. CASE HubRegister
  <2>1. /\ clients' = clients \cup {Head(register)}
        /\ UNCHANGED <<conn, unregister, hub>>
    BY <1>8 DEF HubRegister, clientVars
  <2> QED BY <1>1, <1>2, <2>1
<1>9. CASE HubUnregister
  <2>1. PICK c \in Clients :
            /\ c = Head(unregister) /\ unregister # <<>> /\ unregister' = Tail(unregister)
            /\ IF c \in clients THEN clients' = clients \ {c} ELSE UNCHANGED clients
            /\ UNCHANGED <<register, conn, hub>>
    BY <1>0, <1>9, HeadTail DEF HubUnregister, Present, ChanTypes
  <2>2. ToSet(unregister) \subseteq {c} \cup ToSet(unregister')
    BY <1>0, <2>1, ToSetOf DEF ChanTypes
  <2>3. d \in clients => d \in clients' /\ d # c
    BY <1>1, <1>a, <2>1
  <2> QED BY <1>1, <1>2, <2>1, <2>2, <2>3
<1>10. CASE HubBroadcast \/ FanOutDone
  <2>1. UNCHANGED <<clients, conn, unregister>> /\ hub.pc # "drop"
    BY <1>10 DEF HubBroadcast, FanOutDone, chanVars, clientVars
  <2> QED BY <1>0, <1>1, <1>2, <2>1 DEF HubHolds
<1>11. CASE DropSent
  <2>1. /\ unregister' = Append(unregister, hub.drop) /\ hub.drop \in Clients
        /\ UNCHANGED <<clients, conn>>
    BY <1>0, <1>11 DEF DropSent, HubHolds, clientVars
  <2>2. hub.drop \in ToSet(unregister') /\ ToSet(unregister) \subseteq ToSet(unregister')
    BY <1>0, <2>1, ToSetOf DEF ChanTypes
  <2> QED BY <1>1, <1>2, <2>1, <2>2
<1>12. ASSUME NEW c \in Clients, FanOut(c) \/ DropSlow(c) PROVE Kept(d)
  <2>1. UNCHANGED <<clients, conn, unregister>> /\ hub.pc # "drop"
    BY <1>12 DEF FanOut, DropSlow, chanVars, clientVars
  <2> QED BY <1>0, <1>1, <1>2, <2>1 DEF HubHolds
<1>13. CASE Listen \/ LoseUpdate \/ UNCHANGED vars \/ \E s \in Subs : Score(s)
  BY <1>3, <1>13 DEF Listen, LoseUpdate, Score, vars, chanVars, hubVars, clientVars
<1> QED
  BY <1>4, <1>5, <1>6, <1>7, <1>8, <1>9, <1>10, <1>11, <1>12, <1>13
     DEF Next, HubStep, PumpStep, WriterLeaves, ReaderLeaves

(* A row of another submission is sent to the client.                      *)
LEMMA ServesOther ==
    ASSUME NEW c \in Clients, NEW s \in Subs, NEW r \in Rows, r.sub # s,
           send[c] \in Seq(Rows), send'[c] = Append(send[c], r), state'[s] = state[s]
    PROVE  /\ InChannel(c, s) => InChannel(c, s)'
           /\ NoneOf(send[c], s) => NoneOf(send'[c], s)
<1>1. PICK q \in Seq(Rows) : q = send[c] /\ send'[c] = Append(q, r)
  OBVIOUS
<1>2. /\ NoneOf(q, s) => NoneOf(Append(q, r), s)
      /\ \A i \in DOMAIN q : LastOf(q, s, i) =>
           /\ i \in DOMAIN Append(q, r) /\ LastOf(Append(q, r), s, i)
           /\ Append(q, r)[i] = q[i]
  BY AppendRow
<1>3. PICK qr : qr = Append(q, r)
  OBVIOUS
<1> QED BY <1>1, <1>2, <1>3 DEF InChannel, NewestIn

(* The newest row of the submission is sent to the client.                 *)
LEMMA ServesThis ==
    ASSUME NEW c \in Clients, NEW s \in Subs, NEW r \in Rows, r.sub = s,
           send[c] \in Seq(Rows), send'[c] = Append(send[c], r), r.ver = state'[s]
    PROVE  InChannel(c, s)'
<1>1. PICK q \in Seq(Rows) : q = send[c] /\ send'[c] = Append(q, r)
  OBVIOUS
<1>2. \E i \in DOMAIN Append(q, r) : LastOf(Append(q, r), s, i) /\ Append(q, r)[i] = r
  BY AppendLast
<1> QED BY <1>1, <1>2 DEF InChannel, NewestIn

(* The client's writer writes the next row.                                *)
LEMMA ServesWrite ==
    ASSUME ClosureInv, NEW c \in Clients, NEW s \in Subs, Write(c),
           InChannel(c, s) \/ OnScreen(c, s)
    PROVE  InChannel(c, s)' \/ OnScreen(c, s)'
<1>0. ClientTypes
  BY DEF ClosureInv, HubTypes
<1>1. PICK q \in Seq(Rows) : q = send[c] /\ q # <<>> /\ send'[c] = Tail(q)
  BY <1>0 DEF Write, ClientTypes
<1>2. UNCHANGED state
  BY DEF Write, redisVars
<1>3. PICK h \in Rows : h = Head(q)
  BY <1>1, HeadTail
<1>4. h.sub \in Subs /\ h.ver > 0
  BY DEF Rows
<1>5. shown' = [shown EXCEPT ![c] = [shown[c] EXCEPT ![h.sub] = h]]
  BY <1>1, <1>3 DEF Write
<1>6. shown'[c] = [shown[c] EXCEPT ![h.sub] = h] /\ shown[c] \in [Subs -> Rows \cup {NoRow}]
  BY <1>0, <1>5 DEF ClientTypes
<1>7. (h.sub = s => shown'[c][s] = h) /\ (h.sub # s => shown'[c][s] = shown[c][s])
  BY <1>6, <1>4
<1>8. CASE OnScreen(c, s)
  <2>1. NoneOf(q, s)
    BY <1>1, <1>8 DEF OnScreen
  <2>2. h.sub # s /\ NoneOf(Tail(q), s)
    BY <1>1, <1>3, <2>1, TailRow
  <2>3. shown'[c][s] = shown[c][s] /\ NoneOf(send'[c], s)
    BY <1>1, <1>7, <2>2
  <2> QED BY <1>2, <1>8, <2>3 DEF OnScreen
<1>9. CASE InChannel(c, s)
  <2>1. PICK i \in DOMAIN q : LastOf(q, s, i) /\ q[i].ver = state[s]
    BY <1>1, <1>9 DEF InChannel, NewestIn
  <2>2. CASE i - 1 \in DOMAIN Tail(q) /\ LastOf(Tail(q), s, i - 1) /\ Tail(q)[i - 1] = q[i]
    BY <1>1, <1>2, <2>1, <2>2 DEF InChannel, NewestIn
  <2>3. CASE q[i] = h /\ h.sub = s /\ NoneOf(Tail(q), s)
    BY <1>1, <1>2, <1>4, <1>7, <2>1, <2>3 DEF OnScreen
  <2> QED BY <1>1, <1>3, <2>1, <2>2, <2>3, TailRow
<1> QED BY <1>8, <1>9

(* What is coming stays on its way through the channels, or was lost.      *)
LEMMA ComingListen ==
    ASSUME ClosureInv, NewestLast, NEW s \in Subs, Listen,
           NewestIn(feed, s) \/ NewestIn(broadcast, s)
    PROVE  NewestIn(feed, s)' \/ NewestIn(broadcast, s)' \/ Lost(s)
<1>1. ChanTypes
  BY DEF ClosureInv, HubTypes
<1>2. PICK r \in Rows :
        /\ feed \in Seq(Rows) /\ feed # <<>> /\ feed' = Tail(feed) /\ r = Head(feed)
        /\ broadcast \in Seq(Rows) /\ broadcast' = Append(broadcast, r)
        /\ UNCHANGED state
  BY <1>1, HeadTail DEF Listen, ChanTypes
<1>3. broadcast \in Seq(Rows) /\ broadcast' = Append(broadcast, r)
  BY <1>2
<1>4. CASE NewestIn(feed, s)
  <2>1. PICK i \in DOMAIN feed : LastOf(feed, s, i) /\ feed[i].ver = state[s]
    BY <1>4 DEF NewestIn
  <2>2. CASE i - 1 \in DOMAIN Tail(feed) /\ LastOf(Tail(feed), s, i - 1) /\ Tail(feed)[i - 1] = feed[i]
    BY <1>2, <2>1, <2>2 DEF NewestIn
  <2>3. CASE feed[i] = r /\ r.sub = s
    <3>1. \E k \in DOMAIN broadcast' : LastOf(broadcast', s, k) /\ broadcast'[k] = r
      BY <1>3, <2>3, AppendRow
    <3> QED BY <1>2, <2>1, <2>3, <3>1 DEF NewestIn
  <2>4. \/ feed[i] = Head(feed) /\ Head(feed).sub = s
        \/ i - 1 \in DOMAIN Tail(feed) /\ LastOf(Tail(feed), s, i - 1) /\ Tail(feed)[i - 1] = feed[i]
    BY <1>2, <2>1, TailLast
  <2> QED BY <1>2, <2>2, <2>3, <2>4
<1>5. CASE NewestIn(broadcast, s) /\ NoneOf(feed, s)
  <2>1. r.sub # s
    BY <1>2, <1>5, TailRow
  <2>2. \A k \in DOMAIN broadcast : LastOf(broadcast, s, k) =>
          k \in DOMAIN broadcast' /\ LastOf(broadcast', s, k) /\ broadcast'[k] = broadcast[k]
    BY <1>3, <2>1, AppendRow
  <2> QED BY <1>2, <1>5, <2>2 DEF NewestIn
<1> QED BY <1>4, <1>5 DEF NewestLast

(* The newest row, when it is in broadcast, stays there or is the one the  *)
(* hub takes.                                                              *)
LEMMA ComingBroadcast ==
    ASSUME ClosureInv, NEW s \in Subs, HubBroadcast, NewestIn(broadcast, s)
    PROVE  NewestIn(broadcast, s)' \/ hub'.row = Newest(s)'
<1>1. /\ broadcast \in Seq(Rows) /\ broadcast # <<>> /\ broadcast' = Tail(broadcast)
      /\ hub'.row = Head(broadcast) /\ UNCHANGED state
  BY DEF ClosureInv, HubTypes, ChanTypes, HubBroadcast, redisVars, HubIdle
<1>2. PICK i \in DOMAIN broadcast : LastOf(broadcast, s, i) /\ broadcast[i].ver = state[s]
  BY DEF NewestIn
<1>3. CASE /\ i - 1 \in DOMAIN Tail(broadcast) /\ LastOf(Tail(broadcast), s, i - 1)
           /\ Tail(broadcast)[i - 1] = broadcast[i]
  BY <1>1, <1>2, <1>3 DEF NewestIn
<1>4. CASE broadcast[i] = Head(broadcast) /\ Head(broadcast).sub = s
  <2>1. Head(broadcast) \in Rows
    BY <1>1, HeadTail
  <2> QED BY <1>1, <1>2, <1>4, <2>1 DEF Newest, Rows
<1>5. \/ broadcast[i] = Head(broadcast) /\ Head(broadcast).sub = s
      \/ /\ i - 1 \in DOMAIN Tail(broadcast) /\ LastOf(Tail(broadcast), s, i - 1)
         /\ Tail(broadcast)[i - 1] = broadcast[i]
  BY <1>1, <1>2, TailLast
<1> QED BY <1>3, <1>4, <1>5

(* A row of the snapshot sent behind the newest one overtakes it.          *)
LEMMA OvertakenBy ==
    ASSUME HubTypes, SnapshotOld, NEW c \in Clients, NEW s \in Subs, NEW h \in Rows, h.sub = s,
           h.ver < state[s], InChannel(c, s) \/ OnScreen(c, s)
    PROVE  Newest(s) \in Newer(c, h)
<1>1. /\ send[c] \in Seq(Rows) /\ shown[c][s] \in Rows \cup {NoRow}
      /\ state[s] \in Nat /\ h.ver \in Nat \ {0}
  <2>1. h.ver \in Nat \ {0}
    BY DEF Rows
  <2>2. send[c] \in Seq(Rows) /\ shown[c][s] \in Rows \cup {NoRow} /\ state[s] \in Nat
    BY DEF HubTypes, ClientTypes, ChanTypes
  <2> QED BY <2>1, <2>2
<1>2. ASSUME NEW r \in Rows, r.sub = s, r.ver = state[s], r \in ToSet(send[c]) \cup {shown[c][s]}
      PROVE  Newest(s) \in Newer(c, h)
  <2>1. r = Newest(s)
    BY <1>2 DEF Newest, Rows
  <2> QED BY <1>1, <1>2, <2>1 DEF Newer
<1>3. CASE InChannel(c, s)
  <2>1. PICK i \in DOMAIN send[c] : send[c][i].sub = s /\ send[c][i].ver = state[s]
    BY <1>3 DEF InChannel, NewestIn, LastOf
  <2>2. send[c][i] \in Rows /\ send[c][i] \in ToSet(send[c])
    BY <1>1, <2>1 DEF ToSet
  <2> QED BY <1>2, <2>1, <2>2
<1>4. CASE OnScreen(c, s)
  <2>1. shown[c][s].ver = state[s] /\ state[s] # 0
    BY <1>1, <1>4 DEF OnScreen
  <2>2. shown[c][s] \in Rows
    BY <1>1, <2>1 DEF NoRow
  <2>3. shown[c][s].sub = s
    BY <2>2 DEF SnapshotOld
  <2> QED BY <1>2, <2>1, <2>2, <2>3
<1> QED BY <1>3, <1>4

-----------------------------------------------------------------------------
(* Every step keeps every client the hub keeps served.                     *)
LEMMA ServedStep == DeliveryInv /\ [Next]_vars => AllServed'
<1> SUFFICES ASSUME DeliveryInv, [Next]_vars, NEW d \in Clients, NEW s \in Subs, Kept(d)'
             PROVE  Serves(d, s)'
  BY DEF AllServed
<1>0. ClosureInv /\ NewestLast /\ SnapshotOld /\ AllServed
  BY DEF DeliveryInv
<1>1. HubTypes /\ ChanTypes /\ GoroutineTypes /\ ClientTypes /\ EntersOnce /\ HubHolds
  BY <1>0 DEF ClosureInv, HubTypes
<1>2. Kept(d) => \/ Coming(d, s) \/ InChannel(d, s) \/ OnScreen(d, s)
                 \/ Pending(d, s) \/ PassedBy(d, s) \/ state[s] = 0
  BY <1>0 DEF AllServed, Serves
<1>3. \/ Coming(d, s)' \/ InChannel(d, s)' \/ OnScreen(d, s)'
      \/ Pending(d, s)' \/ PassedBy(d, s)' \/ state'[s] = 0
      => Serves(d, s)'
  BY DEF Serves
<1>4. d \in clients \cup ToSet(register) => Kept(d)
  BY <1>0, KeptBefore
<1>a. UNCHANGED <<clients, register>> => Kept(d)
  BY <1>4 DEF Kept
<1>b. state'[s] = state[s] => (Lost(s) => Lost(s)') /\ (PassedBy(d, s) => PassedBy(d, s)')
  BY <1>1, PassedByKept, LostKept
<1>5. send[d] \in Seq(Rows) /\ state[s] \in Nat /\ initial[d].rows \in Seq(Rows)
  BY <1>1 DEF ClientTypes, ChanTypes, GoroutineTypes
(* Steps that leave this client's channel, browser and snapshot alone.     *)
<1>6. ASSUME Kept(d), Coming(d, s) => Coming(d, s)', state'[s] = state[s],
             send'[d] = send[d], shown'[d] = shown[d], initial'[d] = initial[d]
      PROVE  Serves(d, s)'
  BY <1>0, <1>6, <1>b, ServesFrame DEF AllServed
<1>7. UNCHANGED <<state, feed, broadcast, hub>> => (Coming(d, s) <=> Coming(d, s)')
  BY DEF Coming, NewestIn
<1>8. ASSUME NEW t \in Subs, Score(t) PROVE Serves(d, s)'
  <2> DEFINE r == [sub |-> t, ver |-> state'[t]]
  <2>1. /\ r \in Rows /\ r.sub = t /\ r.ver = state'[t] /\ feed' = Append(feed, r)
        /\ feed \in Seq(Rows)
    BY <1>1, <1>8 DEF Score, ChanTypes, Rows
  <2>2. UNCHANGED <<broadcast, hub, clients, register, send, shown, initial>>
    BY <1>8 DEF Score, chanVars, hubVars, clientVars
  <2> HIDE DEF r
  <2>3. CASE s = t
    <3>1. NewestIn(feed, s)'
      BY <2>1, <2>3, AppendLast DEF NewestIn
    <3> QED BY <1>3, <3>1 DEF Coming
  <2>4. CASE s # t
    <3>1. state'[s] = state[s]
      BY <1>1, <1>8, <2>4 DEF Score, ChanTypes
    <3>2. NewestIn(feed, s) => NewestIn(feed, s)'
      BY <2>1, <2>4, <3>1, AppendRow DEF NewestIn
    <3>3. NewestIn(broadcast, s) => NewestIn(broadcast, s)'
      BY <2>2, <3>1 DEF NewestIn
    <3>4. Coming(d, s) => Coming(d, s)'
      BY <2>2, <3>1, <3>2, <3>3 DEF Coming
    <3>5. Kept(d)
      BY <1>a, <2>2
    <3> QED BY <1>6, <2>2, <3>1, <3>4, <3>5
  <2> QED BY <2>3, <2>4
<1>9. CASE Listen
  <2>1. UNCHANGED <<state, hub, clients, register, send, shown, initial>>
    BY <1>9 DEF Listen, hubVars, clientVars
  <2>2. Coming(d, s) => Coming(d, s)' \/ Lost(s)
    BY <1>0, <1>9, <2>1, ComingListen DEF Coming
  <2>3. Kept(d)
    BY <1>a, <2>1
  <2>4. Lost(s) => Serves(d, s)'
    <3>1. Lost(s) => PassedBy(d, s)'
      BY <1>b, <2>1 DEF Lost, PassedBy
    <3> QED BY <1>3, <3>1
  <2> QED BY <1>6, <2>1, <2>2, <2>3, <2>4
<1>9a. CASE LoseUpdate
  <2>1. /\ feed \in Seq(Rows) /\ feed # <<>> /\ feed' = Tail(feed)
        /\ lost' = lost \cup {Head(feed)}
        /\ UNCHANGED <<state, broadcast, hub, clients, register, send, shown, initial>>
    BY <1>1, <1>9a DEF LoseUpdate, ChanTypes, chanVars, hubVars, clientVars
  <2>2. Kept(d)
    BY <1>a, <2>1
  <2>3. NewestIn(feed, s) => NewestIn(feed, s)' \/ PassedBy(d, s)'
    <3> SUFFICES ASSUME NewestIn(feed, s) PROVE NewestIn(feed, s)' \/ PassedBy(d, s)'
      OBVIOUS
    <3>1. PICK i \in DOMAIN feed : LastOf(feed, s, i) /\ feed[i].ver = state[s]
      BY DEF NewestIn
    <3>2. CASE i - 1 \in DOMAIN Tail(feed) /\ LastOf(Tail(feed), s, i - 1) /\ Tail(feed)[i - 1] = feed[i]
      BY <2>1, <3>1, <3>2 DEF NewestIn
    <3>3. CASE feed[i] = Head(feed) /\ Head(feed).sub = s
      <4>1. Head(feed) \in Rows
        BY <2>1, HeadTail
      <4>2. Head(feed) = Newest(s)'
        BY <2>1, <3>1, <3>3, <4>1 DEF Newest, Rows
      <4> QED BY <2>1, <4>2 DEF PassedBy
    <3>4. \/ feed[i] = Head(feed) /\ Head(feed).sub = s
          \/ i - 1 \in DOMAIN Tail(feed) /\ LastOf(Tail(feed), s, i - 1) /\ Tail(feed)[i - 1] = feed[i]
      BY <2>1, <3>1, TailLast
    <3> QED BY <3>2, <3>3, <3>4
  <2>4. Coming(d, s) => Coming(d, s)' \/ PassedBy(d, s)'
    BY <2>1, <2>3 DEF Coming, NewestIn
  <2> QED BY <1>3, <1>6, <2>1, <2>2, <2>4
<1>10. ASSUME NEW c \in Clients, Connect(c) PROVE Serves(d, s)'
  <2>1. /\ conn[c] = "none" /\ UNCHANGED <<state, feed, broadcast, hub, clients, send, shown>>
        /\ initial' = [initial EXCEPT ![c].pc = "fetch"] /\ register' = Append(register, c)
    BY <1>10 DEF Connect, redisVars, hubVars
  <2>2. CASE d = c
    <3>1. initial'[d].pc = "fetch"
      BY <1>1, <2>1, <2>2 DEF GoroutineTypes
    <3> QED BY <1>3, <3>1 DEF Pending
  <2>3. CASE d # c
    <3>1. initial'[d] = initial[d]
      BY <1>1, <2>1, <2>3 DEF GoroutineTypes
    <3>2. d \in clients \cup ToSet(register)
      <4>1. \A i \in DOMAIN register' : register'[i] = c \/ (i \in DOMAIN register /\ register'[i] = register[i])
        BY <1>1, <2>1 DEF ChanTypes
      <4> QED BY <2>1, <2>3, <4>1 DEF Kept, ToSet
    <3> QED BY <1>4, <1>6, <1>7, <2>1, <3>1, <3>2
  <2> QED BY <2>2, <2>3
<1>11. ASSUME NEW c \in Clients, Break(c) \/ Leave(c) PROVE Serves(d, s)'
  <2>1. UNCHANGED <<state, feed, broadcast, hub, clients, register, send, shown, initial>>
    BY <1>11 DEF Break, Leave, redisVars, chanVars, hubVars
  <2> QED BY <1>6, <1>7, <1>a, <2>1
<1>12. ASSUME NEW c \in Clients, Fetch(c) PROVE Serves(d, s)'
  <2>1. UNCHANGED <<state, feed, broadcast, hub, clients, register, send, shown>>
    BY <1>12 DEF Fetch, redisVars, chanVars, hubVars
  <2>2. Kept(d)
    BY <1>a, <2>1
  <2>3. PICK rows \in Seq(Rows) :
           /\ initial' = [initial EXCEPT ![c] = [pc |-> "send", rows |-> rows]]
           /\ state[s] > 0 => \E k \in DOMAIN rows : rows[k].sub = s /\ rows[k].ver = state[s]
    BY <1>1, <1>12, SnapshotRows
  <2>4. CASE d = c
    <3>1. initial'[d].rows = rows
      BY <1>1, <2>3, <2>4 DEF GoroutineTypes
    <3>2. state[s] > 0 => Pending(d, s)'
      BY <2>1, <2>3, <3>1 DEF Pending
    <3>3. state'[s] = 0 \/ state[s] > 0
      BY <1>5, <2>1
    <3> QED BY <1>3, <3>2, <3>3
  <2>5. CASE d # c
    <3>1. initial'[d] = initial[d]
      BY <1>1, <2>3, <2>5 DEF GoroutineTypes
    <3> QED BY <1>6, <1>7, <2>1, <2>2, <3>1
  <2> QED BY <2>4, <2>5
<1>13. ASSUME NEW c \in Clients, FetchFailed(c) PROVE Serves(d, s)'
  <2>1. /\ UNCHANGED <<state, feed, broadcast, hub, clients, register, send, shown>>
        /\ initial' = [initial EXCEPT ![c].pc = "failed"]
    BY <1>13 DEF FetchFailed, redisVars, chanVars, hubVars
  <2>2. CASE d = c
    <3>1. initial'[d].pc = "failed"
      BY <1>1, <2>1, <2>2 DEF GoroutineTypes
    <3> QED BY <1>3, <3>1 DEF Pending
  <2>3. CASE d # c
    <3>1. initial'[d] = initial[d]
      BY <1>1, <2>1, <2>3 DEF GoroutineTypes
    <3> QED BY <1>6, <1>7, <1>a, <2>1, <3>1
  <2> QED BY <2>2, <2>3
<1>14. ASSUME NEW c \in Clients, SendInitial(c) PROVE Serves(d, s)'
  <2>1. /\ initial[c].pc = "send" /\ initial[c].rows # <<>>
        /\ send' = [send EXCEPT ![c] = Append(@, Head(initial[c].rows))]
        /\ initial' = [initial EXCEPT ![c].rows = Tail(@)]
        /\ overtaken' = [overtaken EXCEPT ![c] = @ \cup Newer(c, Head(initial[c].rows))]
        /\ UNCHANGED <<state, feed, broadcast, hub, clients, register, shown>>
    BY <1>14 DEF SendInitial, redisVars, chanVars, hubVars
  <2>2. Kept(d)
    BY <1>a, <2>1
  <2>3. CASE d = c
    <3>1. PICK q \in Seq(Rows) : q = initial[d].rows /\ q # <<>>
      BY <1>5, <2>1, <2>3
    <3>2. PICK h \in Rows : h = Head(q) /\ h = q[1]
      BY <3>1, HeadTail
    <3>3. h.ver \in Nat /\ h.sub \in Subs /\ h.ver <= state[h.sub]
      <4>1. 1 \in DOMAIN q
        BY <3>1, HeadTail
      <4>2. h.ver <= state[h.sub]
        BY <1>0, <3>1, <3>2, <4>1 DEF SnapshotOld
      <4> QED BY <4>2 DEF Rows
    <3>4. send'[d] = Append(send[d], h) /\ initial'[d].rows = Tail(q) /\ initial'[d].pc = initial[d].pc
      BY <1>1, <2>1, <2>3, <3>1, <3>2 DEF GoroutineTypes, ClientTypes
    <3>5. overtaken'[d] = overtaken[d] \cup Newer(d, h)
      BY <1>1, <2>1, <2>3, <3>1, <3>2 DEF ClientTypes
    <3>6. Coming(d, s) => Serves(d, s)'
      BY <1>3, <1>7, <2>1
    <3>7. PassedBy(d, s) \/ state[s] = 0 => Serves(d, s)'
      BY <1>3, <1>b, <2>1
    <3>8. CASE h.sub = s /\ h.ver = state[s]
      BY <1>3, <1>5, <2>1, <3>4, <3>8, ServesThis
    <3>9. ASSUME ~(h.sub = s /\ h.ver = state[s]) PROVE Pending(d, s) => Serves(d, s)'
      <4> SUFFICES ASSUME NEW k \in DOMAIN q, q[k].sub = s, q[k].ver = state[s]
                   PROVE  Serves(d, s)'
        BY <2>1, <2>3, <3>1 DEF Pending
      <4>1. k # 1
        BY <3>2, <3>9
      <4>2. Len(q) \in Nat \ {0} /\ DOMAIN q = 1..Len(q) /\ DOMAIN Tail(q) = 1..(Len(q) - 1)
        BY <3>1
      <4>3. k - 1 \in 1..(Len(q) - 1) /\ (k - 1) + 1 = k
        BY <4>1, <4>2
      <4>4. Tail(q)[k - 1] = q[k]
        BY <3>1, <4>3, HeadTail
      <4>5. Pending(d, s)'
        BY <2>1, <3>4, <4>2, <4>3, <4>4 DEF Pending
      <4> QED BY <1>3, <4>5
    <3>10. CASE h.sub = s /\ h.ver # state[s]
      <4>1. h.ver < state[s]
        BY <1>5, <3>3, <3>10
      <4>2. InChannel(d, s) \/ OnScreen(d, s) => Newest(s) \in Newer(d, h)
        BY <1>0, <1>1, <3>10, <4>1, OvertakenBy
      <4>3. Newest(s)' = Newest(s)
        BY <2>1 DEF Newest
      <4>4. InChannel(d, s) \/ OnScreen(d, s) => PassedBy(d, s)'
        BY <3>5, <4>2, <4>3 DEF PassedBy
      <4> QED BY <1>2, <1>3, <2>2, <3>6, <3>7, <3>9, <3>10, <4>4
    <3>11. CASE h.sub # s
      <4>1. /\ InChannel(d, s) => InChannel(d, s)'
            /\ NoneOf(send[d], s) => NoneOf(send'[d], s)
        BY <1>5, <2>1, <3>4, <3>11, ServesOther
      <4>2. OnScreen(d, s) => OnScreen(d, s)'
        BY <2>1, <4>1 DEF OnScreen
      <4> QED BY <1>2, <1>3, <2>2, <3>6, <3>7, <3>9, <3>11, <4>1, <4>2
    <3> QED BY <3>8, <3>10, <3>11
  <2>4. CASE d # c
    <3>1. initial'[d] = initial[d] /\ send'[d] = send[d]
      BY <1>1, <2>1, <2>4 DEF GoroutineTypes, ClientTypes
    <3> QED BY <1>6, <1>7, <2>1, <2>2, <3>1
  <2> QED BY <2>3, <2>4
<1>15. ASSUME NEW c \in Clients, PanicAndRestart(c) PROVE FALSE
  BY <1>15 DEF PanicAndRestart, Kept
<1>16. ASSUME NEW c \in Clients, Write(c) PROVE Serves(d, s)'
  <2>1. /\ UNCHANGED <<state, feed, broadcast, hub, clients, register, initial>>
        /\ send' = [send EXCEPT ![c] = Tail(@)]
        /\ shown' = [shown EXCEPT ![c] = [shown[c] EXCEPT ![Head(send[c]).sub] = Head(send[c])]]
    BY <1>16 DEF Write, redisVars, chanVars, hubVars
  <2>2. Kept(d)
    BY <1>a, <2>1
  <2>3. CASE d = c
    <3>1. Pending(d, s) => Pending(d, s)'
      BY <2>1 DEF Pending
    <3>2. InChannel(d, s) \/ OnScreen(d, s) => InChannel(d, s)' \/ OnScreen(d, s)'
      BY <1>0, <1>16, <2>3, ServesWrite
    <3> QED BY <1>2, <1>3, <1>7, <1>b, <2>1, <2>2, <3>1, <3>2
  <2>4. CASE d # c
    <3>1. shown'[d] = shown[d] /\ send'[d] = send[d]
      BY <1>1, <2>1, <2>4 DEF ClientTypes
    <3> QED BY <1>6, <1>7, <2>1, <2>2, <3>1
  <2> QED BY <2>3, <2>4
<1>17. ASSUME NEW c \in Clients, WriterEnds(c) PROVE Serves(d, s)'
  <2>1. UNCHANGED <<state, feed, broadcast, hub, clients, register, conn, shown, initial>>
    BY <1>17 DEF WriterEnds, redisVars, chanVars, hubVars
  <2>2. Kept(d) /\ conn[d] = "open"
    BY <1>a, <2>1 DEF Kept
  <2>3. send' = send \/ (conn[c] = "broken" /\ send' = [send EXCEPT ![c] = Tail(@)])
    BY <1>17 DEF WriterEnds
  <2>4. send'[d] = send[d]
    BY <1>1, <2>2, <2>3 DEF ClientTypes
  <2> QED BY <1>6, <1>7, <2>1, <2>2, <2>4
<1>18. CASE HubRegister
  <2>1. /\ UNCHANGED <<state, feed, broadcast, hub, send, shown, initial>>
        /\ register \in Seq(Clients) /\ register # <<>> /\ register' = Tail(register)
        /\ clients' = clients \cup {Head(register)}
    BY <1>1, <1>18 DEF HubRegister, ChanTypes, redisVars, clientVars
  <2>2. clients' \cup ToSet(register') \subseteq clients \cup ToSet(register)
    <3>1. DOMAIN register = 1..Len(register) /\ Len(register) \in Nat \ {0} /\ Head(register) = register[1]
      BY <2>1, HeadTail
    <3>2. \A i \in DOMAIN register' : i + 1 \in DOMAIN register /\ register'[i] = register[i + 1]
      BY <2>1, HeadTail
    <3>3. 1 \in DOMAIN register
      BY <3>1
    <3> QED BY <2>1, <3>1, <3>2, <3>3 DEF ToSet
  <2>3. Kept(d)
    BY <1>4, <2>2 DEF Kept
  <2> QED BY <1>6, <1>7, <2>1, <2>3
<1>19. CASE HubUnregister
  <2>1. UNCHANGED <<state, feed, broadcast, hub, register, send, shown, initial>>
    BY <1>19 DEF HubUnregister, redisVars
  <2>2. clients' \subseteq clients
    BY <1>19 DEF HubUnregister
  <2>3. Kept(d)
    BY <1>4, <2>1, <2>2 DEF Kept
  <2> QED BY <1>6, <1>7, <2>1, <2>3
<1>20. CASE HubBroadcast
  <2>1. /\ UNCHANGED <<state, feed, clients, register, send, shown, initial>> /\ hub.pc = "select"
        /\ hub'.todo = clients /\ hub'.row = Head(broadcast)
        /\ missed' = [c \in Clients |-> missed[c] \cup
             (IF initial[c].pc = "send" /\ c \notin clients THEN {Head(broadcast)} ELSE {})]
    BY <1>20 DEF HubBroadcast, redisVars, clientVars, HubIdle
  <2>2. Kept(d)
    BY <1>a, <2>1
  <2>3. NewestIn(feed, s) => NewestIn(feed, s)'
    BY <2>1 DEF NewestIn
  <2>4. hub'.row = Newest(s)' => Coming(d, s)' \/ Pending(d, s)' \/ PassedBy(d, s)'
    <3>1. CASE d \in clients
      BY <2>1, <3>1 DEF Coming, Newest
    <3>2. CASE d \notin clients /\ initial[d].pc = "send"
      BY <2>1, <3>2 DEF PassedBy
    <3>3. CASE initial[d].pc # "send"
      BY <2>1, <3>3 DEF Pending
    <3> QED BY <3>1, <3>2, <3>3
  <2>5. Coming(d, s) => Serves(d, s)'
    <3>1. hub.todo = {}
      BY <1>1, <2>1 DEF HubHolds
    <3>2. NewestIn(broadcast, s) => NewestIn(broadcast, s)' \/ hub'.row = Newest(s)'
      BY <1>0, <1>20, ComingBroadcast
    <3>3. Coming(d, s) => Coming(d, s)' \/ hub'.row = Newest(s)'
      BY <2>3, <3>1, <3>2 DEF Coming
    <3> QED BY <1>3, <2>4, <3>3
  <2> QED BY <1>6, <2>1, <2>2, <2>5
<1>21. ASSUME NEW c \in Clients, FanOut(c) PROVE Serves(d, s)'
  <2>1. /\ UNCHANGED <<state, feed, broadcast, clients, register, shown, initial>>
        /\ hub.pc = "fanout" /\ send' = [send EXCEPT ![c] = Append(@, hub.row)]
        /\ hub'.todo = hub.todo \ {c} /\ hub'.row = hub.row
    BY <1>1, <1>21 DEF FanOut, redisVars, chanVars, GoroutineTypes
  <2>2. Kept(d)
    BY <1>a, <2>1
  <2>3. \A t : (NewestIn(feed, t) <=> NewestIn(feed, t)') /\ (NewestIn(broadcast, t) <=> NewestIn(broadcast, t)')
    BY <2>1 DEF NewestIn
  <2>4. CASE d = c
    <3>1. hub.row \in Rows /\ send'[d] = Append(send[d], hub.row)
      BY <1>1, <2>1, <2>4 DEF HubHolds, ClientTypes
    <3>2. CASE hub.row.sub = s
      <4>1. NewestIn(feed, s) \/ NewestIn(broadcast, s) \/ Lost(s) \/ hub.row.ver = state'[s]
        BY <1>0, <2>1, <3>2 DEF NewestLast
      <4>2. hub.row.ver = state'[s] => InChannel(d, s)'
        BY <1>5, <3>1, <3>2, ServesThis
      <4>3. Lost(s) => PassedBy(d, s)'
        BY <1>b, <2>1 DEF Lost, PassedBy
      <4>4. NewestIn(feed, s) \/ NewestIn(broadcast, s) => Coming(d, s)'
        BY <2>3 DEF Coming
      <4> QED BY <1>3, <4>1, <4>2, <4>3, <4>4
    <3>3. CASE hub.row.sub # s
      <4>1. /\ InChannel(d, s) => InChannel(d, s)'
            /\ NoneOf(send[d], s) => NoneOf(send'[d], s)
        BY <1>5, <2>1, <3>1, <3>3, ServesOther
      <4>2. OnScreen(d, s) => OnScreen(d, s)'
        BY <2>1, <4>1 DEF OnScreen
      <4>3. Coming(d, s) => Coming(d, s)'
        BY <2>3, <3>3 DEF Coming
      <4>4. Pending(d, s) => Pending(d, s)'
        BY <2>1 DEF Pending
      <4> QED BY <1>2, <1>3, <1>b, <2>1, <2>2, <4>1, <4>2, <4>3, <4>4
    <3> QED BY <3>2, <3>3
  <2>5. CASE d # c
    <3>1. send'[d] = send[d]
      BY <1>1, <2>1, <2>5 DEF ClientTypes
    <3>2. Coming(d, s) => Coming(d, s)'
      BY <2>1, <2>3, <2>5 DEF Coming
    <3> QED BY <1>6, <2>1, <2>2, <3>1, <3>2
  <2> QED BY <2>4, <2>5
<1>22. ASSUME NEW c \in Clients, DropSlow(c) PROVE Serves(d, s)'
  <2>1. /\ UNCHANGED <<state, feed, broadcast, clients, register, send, shown, initial>>
        /\ hub'.todo = hub.todo \ {c} /\ hub'.row = hub.row /\ hub'.drop = c /\ c \in clients
    BY <1>1, <1>22 DEF DropSlow, TooSlow, redisVars, chanVars, clientVars, GoroutineTypes, HubHolds
  <2>2. Kept(d) /\ d # c
    BY <1>a, <2>1 DEF Kept
  <2>3. Coming(d, s) => Coming(d, s)'
    BY <2>1, <2>2 DEF Coming, NewestIn
  <2> QED BY <1>6, <2>1, <2>2, <2>3
<1>23. CASE DropSent \/ FanOutDone
  <2>1. UNCHANGED <<state, feed, broadcast, clients, register, send, shown, initial>>
    BY <1>23 DEF DropSent, FanOutDone, redisVars, chanVars, clientVars
  <2>2. hub.todo = {} \/ (hub'.todo = hub.todo /\ hub'.row = hub.row)
    <3>1. CASE DropSent
      BY <1>1, <3>1 DEF DropSent, GoroutineTypes
    <3> QED BY <1>23, <3>1 DEF FanOutDone
  <2>3. Coming(d, s) => Coming(d, s)'
    BY <2>1, <2>2 DEF Coming, NewestIn
  <2> QED BY <1>6, <1>a, <2>1, <2>3
<1>24. CASE UNCHANGED vars
  <2>1. UNCHANGED <<state, feed, broadcast, hub, clients, register, send, shown, initial>>
    BY <1>24 DEF vars, redisVars, chanVars, hubVars, clientVars
  <2> QED BY <1>6, <1>7, <1>a, <2>1
<1> QED
  BY <1>8, <1>9, <1>9a, <1>10, <1>11, <1>12, <1>13, <1>14, <1>15, <1>16, <1>17, <1>18, <1>19,
     <1>20, <1>21, <1>22, <1>23, <1>24
     DEF Next, HubStep, PumpStep, WriterLeaves, ReaderLeaves

(* The service starts in the delivery invariant.                           *)
LEMMA DeliveryInit == Init => DeliveryInv
<1> SUFFICES ASSUME Init PROVE DeliveryInv
  OBVIOUS
<1>1. NewestLast
  BY DEF Init, NewestLast, NoneOf, HubIdle
<1>2. SnapshotOld
  BY DEF Init, SnapshotOld, NoRow, Rows
<1>3. AllServed
  BY DEF Init, AllServed, Serves
<1> QED BY <1>1, <1>2, <1>3, ClosureInit DEF DeliveryInv

(* A client that the hub keeps is up to date once nothing is on its way to *)
(* it (Settled): its browser shows the newest version of every row, unless *)
(* Redis lost that version, or the hub fanned it out between the client's  *)
(* snapshot and its registration, or an older row of the snapshot was sent *)
(* behind it - whatever the capacities and however many clients and        *)
(* updates there are.                                                      *)
THEOREM KeptClientIsCurrent == Spec => []SettledBrowserIsCurrent
<1>1. DeliveryInv => SettledBrowserIsCurrent
  <2> SUFFICES ASSUME DeliveryInv, NEW c \in clients, NEW s \in Subs, Settled(c),
                      conn[c] = "open", state[s] > 0,
                      c \notin ToSet(unregister) \cup {hub.drop}
               PROVE  \/ shown[c][s].ver = state[s]
                      \/ Newest(s) \in lost \cup missed[c] \cup overtaken[c]
    BY DEF SettledBrowserIsCurrent
  <2>1. c \in Clients /\ state[s] # 0
    BY DEF DeliveryInv, ClosureInv, HubTypes, GoroutineTypes, ChanTypes
  <2>2. Serves(c, s)
    BY <2>1 DEF DeliveryInv, AllServed, Kept
  <2>3. ~Coming(c, s)
    BY DEF Settled, Coming, NewestIn
  <2>4. ~InChannel(c, s)
    BY DEF Settled, InChannel, NewestIn
  <2>5. ~Pending(c, s)
    BY DEF Settled, Pending
  <2> QED BY <2>1, <2>2, <2>3, <2>4, <2>5 DEF Serves, OnScreen, PassedBy
<1>2. DeliveryInv /\ [Next]_vars => DeliveryInv'
  BY ClosureStep, NewestStep, SnapshotStep, ServedStep DEF DeliveryInv
<1> QED BY <1>1, <1>2, DeliveryInit, PTL DEF Spec

=============================================================================
