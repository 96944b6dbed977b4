--------------------------- MODULE LeaderboardHub ---------------------------
(***************************************************************************)
(* The leaderboard service (leaderboard-service: hub.go, main.go,          *)
(* subscriber.go, state.go): the subscriber takes rows off Redis pub/sub   *)
(* and hands them to the hub, the hub's goroutine fans them out to the     *)
(* connected clients, two pumps and a goroutine that sends the current     *)
(* rows serve each client.                                                 *)
(*                                                                         *)
(* A row is [sub, ver]: the ver-th score published for a submission, sent  *)
(* as a live update or out of the snapshot taken for a new client.         *)
(* A client is one connection; a browser that reconnects is another one.   *)
(***************************************************************************)
EXTENDS Integers, SequencesExt

CONSTANTS Subs,        \* submission ids
          Clients,     \* connections ever made
          SendBuffer,  \* clientSendBuffer
          BcastCap,    \* capacity of hub.broadcast
          RegCap,      \* capacity of hub.register
          UnregCap,    \* capacity of hub.unregister
          Flaky,       \* clients whose connection or first fetch may fail
          MaxUpdates   \* bound on the scores the checker publishes

ASSUME HubBounds ==
    /\ IsFiniteSet(Subs) /\ IsFiniteSet(Clients)
    /\ {SendBuffer, BcastCap, RegCap, UnregCap} \subseteq Nat \ {0}
    /\ MaxUpdates \in Nat /\ Flaky \subseteq Clients

VARIABLES state,       \* Redis leaderboard_state: newest version of each row, 0 if none
          feed,        \* updates published and not yet received by the subscriber
          broadcast,   \* channel hub.broadcast
          register,    \* channel hub.register
          unregister,  \* channel hub.unregister
          clients,     \* hub.clients
          hub,         \* Run: [pc, row, todo, drop], see HubIdle
          send,        \* each client's send channel
          closes,      \* how often it was closed
          conn,        \* each connection: "none", "open", "broken"
          initial,     \* goroutine with the current rows: [pc, rows]
          writer,      \* writePump: "none", "run", "leave", "done"
          reader,      \* readPump: "none", "run", "done"
          shown,       \* the row of each submission in each browser
          lost,        \* history: updates that pub/sub lost
          missed,      \* history, per client: updates fanned out between its snapshot
                       \* and its registration
          overtaken    \* history, per client: rows an older row of its snapshot followed

redisVars == <<state, feed, lost>>
chanVars == <<broadcast, register, unregister>>
hubVars == <<clients, hub, missed>>
clientVars == <<send, closes, conn, initial, writer, reader, shown, overtaken>>
vars == <<redisVars, chanVars, hubVars, clientVars>>

NoRow == [ver |-> 0]
NoClient == [client |-> FALSE]

ASSUME NoClientIsNone == NoClient \notin Clients

HubIdle == [pc |-> "select", row |-> NoRow, todo |-> {}, drop |-> NoClient]

Init ==
    /\ state = [s \in Subs |-> 0] /\ feed = <<>>
    /\ broadcast = <<>> /\ register = <<>> /\ unregister = <<>>
    /\ clients = {} /\ hub = HubIdle
    /\ send = [c \in Clients |-> <<>>] /\ closes = [c \in Clients |-> 0]
    /\ conn = [c \in Clients |-> "none"]
    /\ initial = [c \in Clients |-> [pc |-> "none", rows |-> <<>>]]
    /\ writer = [c \in Clients |-> "none"] /\ reader = [c \in Clients |-> "none"]
    /\ shown = [c \in Clients |-> [s \in Subs |-> NoRow]]
    /\ lost = {} /\ missed = [c \in Clients |-> {}] /\ overtaken = [c \in Clients |-> {}]
-----------------------------------------------------------------------------
(* The checker's publisher: HSET, then PUBLISH, in one pipeline.           *)
Score(s) ==
    /\ state[s] < MaxUpdates
    /\ state' = [state EXCEPT ![s] = @ + 1]
    /\ feed' = Append(feed, [sub |-> s, ver |-> state'[s]])
    /\ UNCHANGED <<lost, chanVars, hubVars, clientVars>>

(* Redis pub/sub keeps nothing for a subscriber that is away: what is      *)
(* published while its connection is down is gone.  go-redis reconnects    *)
(* and subscribes again by itself; Listen sees only the gap.               *)
LoseUpdate ==
    /\ feed # <<>> /\ feed' = Tail(feed) /\ lost' = lost \cup {Head(feed)}
    /\ UNCHANGED <<state, chanVars, hubVars, clientVars>>

(* The send of Hub.Broadcast can go through.                               *)
BroadcastHasRoom == Len(broadcast) < BcastCap

(* Listen: receive, render, Broadcast (blocked while the channel is full). *)
Listen ==
    /\ feed # <<>> /\ BroadcastHasRoom
    /\ broadcast' = Append(broadcast, Head(feed))
    /\ feed' = Tail(feed)
    /\ UNCHANGED <<state, lost, register, unregister, hubVars, clientVars>>
-----------------------------------------------------------------------------
(* handleWebSocket: the client is put on the register channel, and its     *)
(* three goroutines start.                                                 *)
Connect(c) ==
    /\ conn[c] = "none" /\ Len(register) < RegCap
    /\ conn' = [conn EXCEPT ![c] = "open"]
    /\ register' = Append(register, c)
    /\ initial' = [initial EXCEPT ![c].pc = "fetch"]
    /\ writer' = [writer EXCEPT ![c] = "run"]
    /\ reader' = [reader EXCEPT ![c] = "run"]
    /\ UNCHANGED <<redisVars, broadcast, unregister, hubVars, send, closes, shown, overtaken>>

(* The browser goes away, or the network does.                             *)
Break(c) ==
    /\ conn[c] = "open" /\ c \in Flaky
    /\ conn' = [conn EXCEPT ![c] = "broken"]
    /\ UNCHANGED <<redisVars, chanVars, hubVars, send, closes, initial, writer, reader,
                   shown, overtaken>>

(* The newest row of a submission.                                         *)
Newest(s) == [sub |-> s, ver |-> state[s]]

(* fetchLeaderboardState: one HGETALL, the rows in some order.             *)
Fetch(c) ==
    /\ initial[c].pc = "fetch"
    /\ \E rows \in SetToSeqs({Newest(s) : s \in {t \in Subs : state[t] > 0}}) :
          initial' = [initial EXCEPT ![c] = [pc |-> "send", rows |-> rows]]
    /\ UNCHANGED <<redisVars, chanVars, hubVars, send, closes, conn, writer, reader, shown,
                   overtaken>>

(* The fetch fails: no current rows for this client.                       *)
FetchFailed(c) ==
    /\ initial[c].pc = "fetch" /\ c \in Flaky
    /\ initial' = [initial EXCEPT ![c].pc = "failed"]
    /\ UNCHANGED <<redisVars, chanVars, hubVars, send, closes, conn, writer, reader,
                   shown, overtaken>>

(* Rows newer than this one that client c was sent before it.              *)
Newer(c, row) ==
    {r \in ToSet(send[c]) \cup {shown[c][row.sub]} : r.ver > row.ver /\ r.sub = row.sub}

(* The goroutine sends its next row: blocked while the buffer is full.     *)
SendInitial(c) ==
    /\ initial[c].pc = "send" /\ initial[c].rows # <<>>
    /\ closes[c] = 0 /\ Len(send[c]) < SendBuffer
    /\ send' = [send EXCEPT ![c] = Append(@, Head(initial[c].rows))]
    /\ initial' = [initial EXCEPT ![c].rows = Tail(@)]
    /\ overtaken' = [overtaken EXCEPT ![c] = @ \cup Newer(c, Head(initial[c].rows))]
    /\ UNCHANGED <<redisVars, chanVars, hubVars, closes, conn, writer, reader, shown>>

(* It sends, or is blocked sending, on a channel that the hub has closed:  *)
(* the panic ends the process.  The container restarts with every          *)
(* connection and every channel gone, and updates on their way are lost.   *)
PanicAndRestart(c) ==
    /\ initial[c].pc = "send" /\ initial[c].rows # <<>> /\ closes[c] > 0
    /\ feed' = <<>> /\ broadcast' = <<>> /\ register' = <<>> /\ unregister' = <<>>
    /\ clients' = {} /\ hub' = HubIdle
    /\ conn' = [d \in Clients |-> IF conn[d] = "none" THEN "none" ELSE "broken"]
    /\ initial' = [d \in Clients |-> [pc |-> "none", rows |-> <<>>]]
    /\ writer' = [d \in Clients |-> IF writer[d] = "none" THEN "none" ELSE "done"]
    /\ reader' = [d \in Clients |-> IF reader[d] = "none" THEN "none" ELSE "done"]
    /\ send' = [d \in Clients |-> <<>>] /\ closes' = [d \in Clients |-> 0]
    /\ UNCHANGED <<state, lost, missed, shown, overtaken>>
-----------------------------------------------------------------------------
(* writePump writes the next row; a browser that is slow to read delays it.*)
Write(c) ==
    /\ writer[c] = "run" /\ send[c] # <<>> /\ conn[c] = "open"
    /\ shown' = [shown EXCEPT ![c][Head(send[c]).sub] = Head(send[c])]
    /\ send' = [send EXCEPT ![c] = Tail(@)]
    /\ UNCHANGED <<redisVars, chanVars, hubVars, closes, conn, initial, writer, reader, overtaken>>

(* The write fails, or the channel is closed and empty: the loop ends.     *)
WriterEnds(c) ==
    /\ writer[c] = "run"
    /\ \/ send[c] # <<>> /\ conn[c] = "broken" /\ send' = [send EXCEPT ![c] = Tail(@)]
       \/ send[c] = <<>> /\ closes[c] > 0 /\ UNCHANGED send
    /\ writer' = [writer EXCEPT ![c] = "leave"]
    /\ UNCHANGED <<redisVars, chanVars, hubVars, closes, conn, initial, reader, shown, overtaken>>

(* The deferred calls of a pump: unregister (blocked while the channel is  *)
(* full), then conn.Close.                                                 *)
Leave(c) ==
    /\ Len(unregister) < UnregCap
    /\ unregister' = Append(unregister, c)
    /\ conn' = [conn EXCEPT ![c] = "broken"]
    /\ UNCHANGED <<redisVars, broadcast, register, hubVars, send, closes, initial,
                   shown, overtaken>>

WriterLeaves(c) ==
    /\ writer[c] = "leave" /\ writer' = [writer EXCEPT ![c] = "done"]
    /\ Leave(c) /\ UNCHANGED reader

(* Mutant of ReaderLeaves: readPump returns without unregistering.         *)
ReaderJustCloses(c) ==
    /\ reader[c] = "run" /\ conn[c] = "broken"
    /\ reader' = [reader EXCEPT ![c] = "done"]
    /\ UNCHANGED <<redisVars, chanVars, hubVars, send, closes, conn, initial, writer, shown, overtaken>>

(* readPump's read fails.                                                  *)
ReaderLeaves(c) ==
    /\ reader[c] = "run" /\ conn[c] = "broken"
    /\ reader' = [reader EXCEPT ![c] = "done"]
    /\ Leave(c) /\ UNCHANGED writer
-----------------------------------------------------------------------------
(* Run, case register.                                                     *)
HubRegister ==
    /\ hub.pc = "select" /\ register # <<>>
    /\ clients' = clients \cup {Head(register)}
    /\ register' = Tail(register)
    /\ UNCHANGED <<redisVars, broadcast, unregister, hub, missed, clientVars>>

(* Mutant of Present: the channel is closed whether or not c is a client.  *)
Unconditionally(c) == TRUE

(* The map lookup before delete and close.                                 *)
Present(c) == c \in clients

(* Run, case unregister: a client still in the map is removed and its      *)
(* channel closed.                                                         *)
HubUnregister ==
    /\ hub.pc = "select" /\ unregister # <<>>
    /\ LET c == Head(unregister)
       IN  IF Present(c)
           THEN clients' = clients \ {c} /\ closes' = [closes EXCEPT ![c] = @ + 1]
           ELSE UNCHANGED <<clients, closes>>
    /\ unregister' = Tail(unregister)
    /\ UNCHANGED <<redisVars, broadcast, register, hub, missed, send, conn, initial, writer,
                   reader, shown, overtaken>>

(* Run, case broadcast: the loop over the clients begins.                  *)
HubBroadcast ==
    /\ hub.pc = "select" /\ broadcast # <<>>
    /\ hub' = [HubIdle EXCEPT !.pc = "fanout", !.row = Head(broadcast), !.todo = clients]
    /\ broadcast' = Tail(broadcast)
    /\ missed' = [c \in Clients |-> missed[c] \cup
          (IF initial[c].pc = "send" /\ c \notin clients THEN {Head(broadcast)} ELSE {})]
    /\ UNCHANGED <<redisVars, register, unregister, clients, clientVars>>

(* The buffer has room.                                                    *)
FanOut(c) ==
    /\ hub.pc = "fanout" /\ c \in hub.todo /\ Len(send[c]) < SendBuffer
    /\ send' = [send EXCEPT ![c] = Append(@, hub.row)]
    /\ hub' = [hub EXCEPT !.todo = @ \ {c}]
    /\ UNCHANGED <<redisVars, chanVars, clients, missed, closes, conn, initial, writer, reader,
                   shown, overtaken>>

(* Mutant of TooSlow: the update is skipped and the client is kept.        *)
SkipSlow(c) == hub' = [hub EXCEPT !.todo = @ \ {c}]

(* The default branch of the select: this client will be dropped.          *)
TooSlow(c) == hub' = [hub EXCEPT !.todo = @ \ {c}, !.pc = "drop", !.drop = c]

(* The buffer is full.                                                     *)
DropSlow(c) ==
    /\ hub.pc = "fanout" /\ c \in hub.todo /\ Len(send[c]) >= SendBuffer
    /\ TooSlow(c)
    /\ UNCHANGED <<redisVars, chanVars, clients, missed, clientVars>>

(* The hub's goroutine sends to its own unregister channel, which nobody   *)
(* else drains: if it is full, this send blocks for ever.                  *)
DropSent ==
    /\ hub.pc = "drop" /\ Len(unregister) < UnregCap
    /\ unregister' = Append(unregister, hub.drop)
    /\ hub' = [hub EXCEPT !.pc = "fanout", !.drop = NoClient]
    /\ UNCHANGED <<redisVars, broadcast, register, clients, missed, clientVars>>

FanOutDone ==
    /\ hub.pc = "fanout" /\ hub.todo = {}
    /\ hub' = HubIdle
    /\ UNCHANGED <<redisVars, chanVars, clients, missed, clientVars>>
-----------------------------------------------------------------------------
HubStep ==
    \/ HubRegister \/ HubUnregister \/ HubBroadcast \/ DropSent \/ FanOutDone
    \/ \E c \in Clients : FanOut(c) \/ DropSlow(c)

PumpStep(c) == WriterEnds(c) \/ WriterLeaves(c) \/ ReaderLeaves(c)

Next ==
    \/ \E s \in Subs : Score(s)
    \/ LoseUpdate \/ Listen \/ HubStep
    \/ \E c \in Clients :
          \/ Connect(c) \/ Break(c) \/ PumpStep(c) \/ Write(c)
          \/ Fetch(c) \/ FetchFailed(c) \/ SendInitial(c) \/ PanicAndRestart(c)

(* The hub, the subscriber and the pumps run when they can.  A write to an *)
(* open connection may take for ever, and nobody has to connect or leave.  *)
Fairness ==
    /\ WF_vars(HubStep) /\ WF_vars(Listen)
    /\ \A c \in Clients :
          WF_vars(WriterEnds(c)) /\ WF_vars(WriterLeaves(c)) /\ WF_vars(ReaderLeaves(c))

Spec == Init /\ [][Next]_vars /\ Fairness
-----------------------------------------------------------------------------
(* However often a client is unregistered (by each of its pumps, and by    *)
(* the hub at every update it is too slow for), its channel is closed only *)
(* once, and never while the hub may still send on it: either would panic. *)
ClosedOnce ==
    \A c \in Clients : closes[c] <= 1 /\ (c \in clients => closes[c] = 0)

(* The snapshot of client c was read, and nothing that was published or    *)
(* fetched is still on its way to it.                                      *)
Settled(c) ==
    /\ initial[c] = [pc |-> "send", rows |-> <<>>] /\ send[c] = <<>>
    /\ feed = <<>> /\ broadcast = <<>> /\ c \notin hub.todo

(* A client that the hub keeps and whose snapshot was read shows the       *)
(* newest version of every row once nothing is on its way to it: the hub   *)
(* skips no update, drops none for a client it keeps and lets no live      *)
(* update overtake another.  Exactly three things leave a client behind,   *)
(* each only until the next update of the row: Redis lost the newest       *)
(* version itself, the hub fanned it out after the client's snapshot and   *)
(* before its registration, or handleWebSocket's goroutine sent an older   *)
(* row of the snapshot after it.                                           *)
SettledBrowserIsCurrent ==
    \A c \in clients : \A s \in Subs :
        (/\ Settled(c) /\ conn[c] = "open" /\ state[s] > 0
         /\ c \notin ToSet(unregister) \cup {hub.drop})
            => \/ shown[c][s].ver = state[s]
               \/ Newest(s) \in lost \cup missed[c] \cup overtaken[c]

(* "The Hub never blocks on a slow client" (hub.go): it never waits for    *)
(* room in the unregister channel that only it drains.                     *)
HubNeverBlocks == ~(hub.pc = "drop" /\ Len(unregister) = UnregCap)

(* The resources of a connection that ends are given back: the hub forgets *)
(* the client and both pumps end, unless the hub blocks on itself at an    *)
(* update for a client that is too slow: nothing but a restart ends that.  *)
(* (If the connection ends so early that the hub sees the unregistration   *)
(* before the registration, they may not.)                                 *)
GoneClientReleased ==
    \A c \in Clients : (c \in clients /\ reader[c] = "run" /\ conn[c] = "broken")
        ~> (\/ c \notin clients /\ writer[c] = "done" /\ reader[c] = "done"
            \/ ~HubNeverBlocks)
=============================================================================
