--------------------------- MODULE CorrectnessRun ---------------------------
(***************************************************************************)
(* One serialized correctness run, end to end: the bot issues one request  *)
(* at a time and records its outcome (thread_worker.cpp, rest_bot.cpp),    *)
(* the contestant's server answers, rightly or wrongly, some answers are   *)
(* lost, some records are lost or delivered twice or out of order, and the *)
(* checker judges what arrived (Replay.tla).                               *)
(*                                                                         *)
(* The server is not part of the repository: its honest behaviour is the   *)
(* price-time contract, executing at the maker's price or at the           *)
(* aggressor's bound.  A request whose answer was lost is a ghost: the     *)
(* server may apply it at any later moment, or never.                      *)
(***************************************************************************)
EXTENDS Replay, PriceTimeRule

CONSTANTS Requests,        \* order requests: [ticker, side, otype, price, qty]
          MaxAttempts,     \* bound on the requests of a run
          MaxFailed,       \* bound on the attempts without a 200 answer
          MaxLost,         \* bound on the records lost in flight
          MayErr           \* whether the server may answer an order wrongly

ASSUME RunBounds ==
    /\ MaxAttempts \in Nat /\ MaxFailed \in Nat /\ MaxLost \in Nat
    /\ MayErr \in BOOLEAN
    /\ TolerancePct \in 1..100 /\ "" \notin Tickers
    /\ Requests \subseteq [ticker : Tickers, side : Sides, otype : OrderTypes,
                           price : Nat, qty : Nat \ {0}]

VARIABLES log,       \* the bot's records of this run, in recording order
          nextSeq,   \* next_seq_
          accepted,  \* accepted_orders_: server ids the bot may still cancel
          resting,   \* the server's resting orders, by ticker
          ids,       \* server ids handed out
          ghosts,    \* requests without an answer the server may still apply
          atMaker,   \* the server's price convention: maker's price or the bound
          erred,     \* "no", "clean" (its book could be trusted so far) or "late"
          delivered, \* the events that reached the checker
          verdict    \* "none" until the end-of-run marker is handled

runVars == <<log, nextSeq, accepted, resting, ids, ghosts, atMaker, erred, delivered, verdict>>

Attempts == {i \in DOMAIN log : log[i].action \notin {"FILL", "END"}}
Failed == {i \in DOMAIN log : log[i].outcome # "OK"}
Unknowns == {i \in DOMAIN log : log[i].outcome = "UNKNOWN"}

RunInit ==
    /\ log = <<>> /\ nextSeq = 1 /\ accepted = {} /\ ids = 0 /\ ghosts = {}
    /\ resting = [t \in Tickers |-> {}]
    /\ atMaker \in BOOLEAN /\ erred = "no"
    /\ delivered = <<>> /\ verdict = "none"

Sending == verdict = "none" /\ Cardinality(Attempts) < MaxAttempts

Mills(ticks) == ticks * 10
-----------------------------------------------------------------------------
(* emit_intent: one record per attempt.  A cancel carries no ticker.       *)
Intent(seq, req, outcome, server) ==
    [seq |-> seq, action |-> req.side, outcome |-> outcome, ticker |-> req.ticker,
     id |-> seq, otype |-> req.otype, price |-> Mills(req.price), qty |-> req.qty,
     server |-> server, target |-> 0]

CancelIntent(seq, target, outcome) ==
    [seq |-> seq, action |-> "CANCEL", outcome |-> outcome, ticker |-> "",
     id |-> seq, otype |-> "CANCEL", price |-> 0, qty |-> 0,
     server |-> IF outcome = "OK" THEN target ELSE 0, target |-> target]

(* record_trade: the maker is the trade's order id that is not our own.    *)
FillRecord(seq, req, orderSeq, f) ==
    [seq |-> seq, action |-> "FILL", outcome |-> "OK", ticker |-> req.ticker,
     id |-> orderSeq, otype |-> "",
     price |-> Mills(IF atMaker THEN f.price ELSE f.band), qty |-> f.qty,
     server |-> f.maker, target |-> 0]

EndRecord(seq) ==
    [seq |-> seq, action |-> "END", outcome |-> "OK", ticker |-> "", id |-> 0,
     otype |-> "", price |-> 0, qty |-> 0, server |-> 0, target |-> 0]

(* A 200 answer: the intent takes the seq reserved before the request was  *)
(* sent, each trade the next one; the bot may cancel the order from now on.*)
RecordAnswer(req, fills) ==
    LET fs == SetToSeq(fills)
    IN  /\ log' = Append(log, Intent(nextSeq, req, "OK", ids + 1))
                      \o [k \in DOMAIN fs |-> FillRecord(nextSeq + k, req, nextSeq, fs[k])]
        /\ nextSeq' = nextSeq + 1 + Len(fs)
        /\ accepted' = accepted \cup {ids + 1}

(* The trades of a request at this server.                                 *)
HonestFills(req) == FillsOf(resting[req.ticker], req.side, req.otype, req.price, req.qty)

ServerBooks(req, fills) ==
    [resting EXCEPT ![req.ticker] =
        RestingAfter(@, fills, ids + 1, req.side, req.otype, req.price, req.qty)]

(* Trades with orders that should not have traded, and a trade at a price  *)
(* no one offered.                                                         *)
Unmade(req) ==
    {[maker |-> o.id, qty |-> 1, price |-> o.price, band |-> o.price] :
        o \in {m \in resting[req.ticker] :
                 m.side # req.side /\ \A f \in HonestFills(req) : f.maker # m.id}}

Overpriced(f) ==
    LET beyond == Max({f.price, f.band}) + 1
    IN  [f EXCEPT !.price = beyond, !.band = beyond]

(* Fills a matching bug could report instead: a trade missing, a trade in  *)
(* excess, a trade with the wrong resting order, a price no one offered.   *)
WrongFills(req) ==
    LET right == HonestFills(req)
    IN  {right \ {f} : f \in right} \cup {right \cup {x} : x \in Unmade(req)}
        \cup {(right \ {f}) \cup {[x EXCEPT !.qty = f.qty]} : f \in right, x \in Unmade(req)}
        \cup {(right \ {f}) \cup {Overpriced(f)} : f \in right}
-----------------------------------------------------------------------------
(* The server applies an order and the bot reads the answer.               *)
OrderAnswered(req) ==
    /\ Sending
    /\ resting' = ServerBooks(req, HonestFills(req))
    /\ RecordAnswer(req, HonestFills(req))
    /\ ids' = ids + 1
    /\ UNCHANGED <<ghosts, atMaker, erred, delivered, verdict>>

(* The server mismatches an order: its book follows what it reported.      *)
OrderMismatched(req) ==
    /\ Sending /\ MayErr
    /\ \E w \in WrongFills(req) :
        /\ resting' = ServerBooks(req, w)
        /\ RecordAnswer(req, w)
    /\ ids' = ids + 1
    /\ erred' = CASE erred # "no" -> erred
                  [] erred = "no" /\ \E i \in Unknowns : log[i].ticker \in {req.ticker, ""} -> "late"
                  [] OTHER -> "clean"
    /\ UNCHANGED <<ghosts, atMaker, delivered, verdict>>

(* A 4xx answer: nothing was applied.                                      *)
OrderRejected(req) ==
    /\ Sending /\ Cardinality(Failed) < MaxFailed
    /\ log' = Append(log, Intent(nextSeq, req, "REJECTED", 0))
    /\ nextSeq' = nextSeq + 1
    /\ UNCHANGED <<accepted, resting, ids, ghosts, atMaker, erred, delivered, verdict>>

(* A timeout, a 5xx, a broken connection or an unreadable 200.             *)
OrderUnanswered(req) ==
    /\ Sending /\ Cardinality(Failed) < MaxFailed
    /\ log' = Append(log, Intent(nextSeq, req, "UNKNOWN", 0))
    /\ nextSeq' = nextSeq + 1
    /\ ghosts' = ghosts \cup {[order |-> TRUE, req |-> req, target |-> 0]}
    /\ UNCHANGED <<accepted, resting, ids, atMaker, erred, delivered, verdict>>

CancelAt(books, target) ==
    [t \in Tickers |-> {o \in books[t] : o.id # target}]

(* The bot cancels an order it was told of: 200 if it rests, 404 if not.   *)
CancelAnswered(target) ==
    /\ Sending /\ target \in accepted
    /\ LET rests == \E t \in Tickers : \E o \in resting[t] : o.id = target
       IN  log' = Append(log, CancelIntent(nextSeq, target,
                                           IF rests THEN "OK" ELSE "REJECTED"))
    /\ resting' = CancelAt(resting, target)
    /\ accepted' = accepted \ {target}
    /\ nextSeq' = nextSeq + 1
    /\ UNCHANGED <<ids, ghosts, atMaker, erred, delivered, verdict>>

CancelUnanswered(target) ==
    /\ Sending /\ target \in accepted
    /\ Cardinality(Failed) < MaxFailed
    /\ log' = Append(log, CancelIntent(nextSeq, target, "UNKNOWN"))
    /\ nextSeq' = nextSeq + 1
    /\ accepted' = accepted \ {target}
    /\ ghosts' = ghosts \cup {[order |-> FALSE, target |-> target]}
    /\ UNCHANGED <<resting, ids, atMaker, erred, delivered, verdict>>

(* The server gets to a request the bot has given up on.                   *)
GhostApplied(g) ==
    /\ verdict = "none" /\ g \in ghosts
    /\ ghosts' = ghosts \ {g}
    /\ IF g.order
       THEN /\ resting' = ServerBooks(g.req, HonestFills(g.req))
            /\ ids' = ids + 1
       ELSE resting' = CancelAt(resting, g.target) /\ UNCHANGED ids
    /\ UNCHANGED <<log, nextSeq, accepted, atMaker, erred, delivered, verdict>>

(* The records sent that are not lost, in the order they were sent.        *)
Received(sent, lost) ==
    LET kept == DOMAIN sent \ lost
    IN  [k \in 1..Cardinality(kept) |->
            sent[CHOOSE i \in kept : Cardinality(kept \cap 1..i) = k]]

(* How the records sent may arrive: in order but for some that are lost,   *)
(* or backwards, one of them twice.                                        *)
Arrivals(sent) ==
    {Received(sent, lost) : lost \in {l \in SUBSET DOMAIN sent : Cardinality(l) <= MaxLost}}
    \cup {[k \in 1..(Len(sent) + 1) |-> sent[IF k = 1 THEN twice ELSE Len(sent) + 2 - k]] :
            twice \in 1..(Len(sent) - 1)}

(* The run ends, also before its first attempt (no connection could be     *)
(* made): the marker takes the last seq, and the checker finalizes the     *)
(* submission with the records that reached it.                            *)
Finish ==
    /\ verdict = "none"
    /\ log' = Append(log, EndRecord(nextSeq))
    /\ delivered' \in Arrivals(log')
    /\ verdict' = Finalize(delivered')
    /\ nextSeq' = nextSeq + 1
    /\ UNCHANGED <<accepted, resting, ids, ghosts, atMaker, erred>>

RunNext ==
    \/ \E r \in Requests :
        \/ OrderAnswered(r)
        \/ OrderMismatched(r)
        \/ OrderRejected(r)
        \/ OrderUnanswered(r)
    \/ \E id \in accepted : CancelAnswered(id) \/ CancelUnanswered(id)
    \/ \E g \in ghosts : GhostApplied(g)
    \/ Finish

RunSpec == RunInit /\ [][RunNext]_runVars
-----------------------------------------------------------------------------
Judged == verdict # "none"
LostRecords == {log[i].seq : i \in DOMAIN log}
                 \ {delivered[i].seq : i \in DOMAIN delivered}

(* A server that matches every order by the contract is never failed,      *)
(* whatever answers time out (and are applied late), whatever records are  *)
(* lost, repeated or reordered: "a lost order must never become a false    *)
(* fail" (engine.go, Replay).                                              *)
HonestNeverFailed == erred = "no" => verdict # "incorrect"

(* The same, for runs in which every cancel was answered: the code taints  *)
(* the book of an order whose answer was lost, and no book for a cancel.   *)
HonestOrdersNeverFailed ==
    (\A i \in Unknowns : log[i].action # "CANCEL") => HonestNeverFailed

(* A wrong match on a ticker none of whose answers had been lost is always *)
(* failed once the whole stream arrives, wherever in the run it happens    *)
(* and whatever is lost after it or on another ticker: "one is enough"     *)
(* (engine.go, Replay).                                                    *)
DivergenceAlwaysFailed ==
    (Judged /\ erred = "clean" /\ LostRecords = {}) => verdict = "incorrect"

(* An honest run with every answer read and every record delivered is      *)
(* certified, even if records arrive reordered or twice.                   *)
CleanRunCertified ==
    (Judged /\ erred = "no" /\ Unknowns = {} /\ LostRecords = {}) => verdict = "correct"

(* The attempts without an answer and the records without a delivery.      *)
Missing == {log[i].seq : i \in Unknowns} \cup LostRecords

(* A pass is only given when the end marker arrived and nothing is missing *)
(* or what is missing is below the tolerance share of the attempts.        *)
PassWithinTolerance ==
    verdict = "correct" =>
        /\ \E i \in DOMAIN delivered : delivered[i].action = "END"
        /\ \/ Missing = {}
           \/ Cardinality(Missing) * 100 < TolerancePct * Cardinality(Attempts)

(* A pass is only given to a run in which something was attempted: "a      *)
(* submission that was never verified never silently reads as correct"     *)
(* (matching-spec.md).                                                     *)
PassIsEarned == verdict = "correct" => Attempts # {}
=============================================================================
