------------------------------- MODULE Replay -------------------------------
(***************************************************************************)
(* The verdict of the artifact checker: Replay and finalize of             *)
(* artifact-checker/internal/replayengine/engine.go as operators on the    *)
(* sequence of events that arrived.                                        *)
(*                                                                         *)
(* An event is a record: seq, action (BUY, SELL, CANCEL, FILL or END),     *)
(* outcome (OK, REJECTED, UNKNOWN), ticker ("" when the bot sets none),    *)
(* id (bot order id of an intent, of the aggressor for a fill), otype,     *)
(* price (in mills, thousandths: the wire carries decimals), qty, server   *)
(* (contestant's id of an intent, of the maker for a fill) and target (the *)
(* contestant's id a cancel names).  Ids are positive; 0 is absent.        *)
(***************************************************************************)
EXTENDS GoldenModel

CONSTANTS Tickers,       \* the tickers that are traded
          TolerancePct   \* unknownTolerance, in percent (5 in the code)

(* toTick: mills to ticks (hundredths), rounded half up (math.Round).      *)
ToTick(mills) == (mills + 5) \div 10

(* f with x mapped to v.                                                   *)
Put(f, x, v) == [y \in DOMAIN f \cup {x} |-> IF y = x THEN v ELSE f[y]]

(* The quantity at some places of a sequence.                              *)
SumOf(s, places) ==
    MapThenSumSet(LAMBDA r : r.qty, {[at |-> i, qty |-> s[i].qty] : i \in places})

(* The events at some places, in seq order, arrival order breaking ties.   *)
BySeq(events, places) ==
    LET before(j, i) == \/ events[j].seq < events[i].seq
                        \/ events[j].seq = events[i].seq /\ j <= i
        ranked == {[of |-> i, rank |-> Cardinality({j \in places : before(j, i)})] :
                      i \in places}
    IN  [k \in 1..Cardinality(places) |-> events[(CHOOSE r \in ranked : r.rank = k).of]]

(* Mutant of InSeqOrder: a redelivered event is replayed again.            *)
WithDuplicates(events) == BySeq(events, DOMAIN events)

(* The events in seq order, keeping the first of those that carry the same *)
(* seq (seq 0 carries none).                                               *)
InSeqOrder(events) ==
    BySeq(events, {i \in DOMAIN events :
                      \/ events[i].seq = 0
                      \/ \A j \in 1..(i - 1) : events[j].seq # events[i].seq})

(* Mutant of MarkTaint: the book of a lost order stays trusted.            *)
MarkNothing(taint, ticker, seq) == taint

(* markTaint: the earliest seq at which a ticker's book lost trust.        *)
MarkTaint(taint, ticker, seq) ==
    IF ticker = "" \/ (ticker \in DOMAIN taint /\ taint[ticker] <= seq) THEN taint
    ELSE Put(taint, ticker, seq)
-----------------------------------------------------------------------------
(* The replay loop: one operator per kind of event, folded over the stream.*)
ReplayStart ==
    [books |-> [t \in Tickers |-> NewBook],
     owner |-> <<>>,       \* serverToBot
     taint |-> <<>>,       \* firstUnverifiableSeq
     aggressors |-> <<>>,  \* intents in seq order with their expected trades
     observed |-> <<>>,    \* reported fills by aggressor
     attempts |-> 0, unknown |-> 0]

ReplayUnknown(st, ev) ==
    [st EXCEPT !.attempts = @ + 1, !.unknown = @ + 1,
               !.taint = MarkTaint(@, ev.ticker, ev.seq)]

ReplayOrder(st, ev) ==
    LET r == Submit(st.books[ev.ticker], ev.id, ev.action, ev.otype,
                    ToTick(ev.price), ev.qty)
    IN  [st EXCEPT !.attempts = @ + 1,
                   !.owner = IF ev.server = 0 THEN @ ELSE Put(@, ev.server, ev.id),
                   !.books = [@ EXCEPT ![ev.ticker] = r.book],
                   !.aggressors = Append(@, [id |-> ev.id, ticker |-> ev.ticker,
                                             seq |-> ev.seq, trades |-> r.trades])]

ReplayCancel(st, ev) ==
    [st EXCEPT !.attempts = @ + 1,
               !.books = IF ev.target \notin DOMAIN st.owner THEN @
                         ELSE [t \in Tickers |-> Cancel(st.books[t], st.owner[ev.target])]]

ReplayFill(st, ev) ==
    LET known == ev.server \in DOMAIN st.owner
        fill == [known |-> known, maker |-> IF known THEN st.owner[ev.server] ELSE 0,
                 qty |-> ev.qty, price |-> ToTick(ev.price)]
        sofar == IF ev.id \in DOMAIN st.observed THEN st.observed[ev.id] ELSE <<>>
    IN  IF ev.id = 0 THEN st
        ELSE [st EXCEPT !.observed = Put(@, ev.id, Append(sofar, fill))]

ReplayEvent(st, ev) ==
    CASE ev.action = "END" -> st
      [] ev.action # "END" /\ ev.outcome = "UNKNOWN" -> ReplayUnknown(st, ev)
      [] ev.action # "END" /\ ev.outcome = "REJECTED" -> [st EXCEPT !.attempts = @ + 1]
      [] ev.action \in Sides /\ ev.outcome = "OK" -> ReplayOrder(st, ev)
      [] ev.action = "CANCEL" /\ ev.outcome = "OK" -> ReplayCancel(st, ev)
      [] ev.action = "FILL" -> ReplayFill(st, ev)

(* The state of the replay after 0, 1, ... events of the stream.           *)
ReplayLoop(stream) ==
    LET st[n \in 0..Len(stream)] ==
            IF n = 0 THEN ReplayStart ELSE ReplayEvent(st[n - 1], stream[n])
    IN  st

Replayed(stream) == ReplayLoop(stream)[Len(stream)]
-----------------------------------------------------------------------------
(* priceBand: between the maker's price and the aggressor's bound.         *)
InBand(price, trade) ==
    \/ trade.makerPrice <= price /\ price <= trade.aggLimit
    \/ trade.aggLimit <= price /\ price <= trade.makerPrice

(* Mutant of DiffAggressor: only the total quantity is compared.           *)
DiffTotals(trades, fills) ==
    IF SumOf(trades, DOMAIN trades) # SumOf(fills, DOMAIN fills) THEN "incorrect" ELSE "correct"

(* diffAggressor: expected trades (one per maker) against reported fills.  *)
DiffAggressor(trades, fills) ==
    LET filled(m) == SumOf(fills, {i \in DOMAIN fills : fills[i].maker = m})
        agrees == /\ SumOf(trades, DOMAIN trades) = SumOf(fills, DOMAIN fills)
                  /\ \A t \in ToSet(trades) : filled(t.maker) = t.qty
                  /\ \A f \in ToSet(fills) : \E t \in ToSet(trades) :
                        t.maker = f.maker /\ InBand(f.price, t)
    IN  CASE \E f \in ToSet(fills) : ~f.known -> "unverified"
          [] (\A f \in ToSet(fills) : f.known) /\ agrees -> "correct"
          [] OTHER -> "incorrect"

(* tainted: the aggressor came after its ticker's book lost trust.         *)
Tainted(acc, a, globalTaint) ==
    globalTaint \/ (a.ticker \in DOMAIN acc.taint /\ a.seq > acc.taint[a.ticker])

(* One round of the diff loop.                                             *)
DiffOne(acc, a, observed, globalTaint) ==
    LET fills == IF a.id \in DOMAIN observed THEN observed[a.id] ELSE <<>>
        v == DiffAggressor(a.trades, fills)
        marked == MarkTaint(acc.taint, a.ticker, a.seq)
    IN  CASE v = "correct" -> acc
          [] v = "unverified" -> [acc EXCEPT !.fills = @ + 1, !.taint = marked]
          [] v = "incorrect" /\ Tainted(acc, a, globalTaint) ->
                [acc EXCEPT !.mismatch = @ + 1, !.taint = marked]
          [] OTHER -> [acc EXCEPT !.hard = TRUE]

(* Mutant of Certifiable: the share of unverifiable attempts is ignored.   *)
CertifiesAll(unverifiable, attempts) == TRUE

(* The unverifiable share of the attempts is below the tolerance.          *)
Certifiable(unverifiable, attempts) ==
    IF attempts = 0 THEN unverifiable = 0
    ELSE unverifiable * 100 < TolerancePct * attempts

(* Events the seqs show were sent and never arrived.                       *)
GapOf(seqs) == IF seqs = {} THEN 0 ELSE Max(seqs) - Cardinality(seqs)

(* Aggressors with reported fills whose own intent never arrived.          *)
Orphans(st) == Cardinality(DOMAIN st.observed \ {a.id : a \in ToSet(st.aggressors)})

(* The diff loop, after 0, 1, ... of the aggressors in seq order.          *)
DiffLoop(st, globalTaint) ==
    LET acc[n \in 0..Len(st.aggressors)] ==
            IF n = 0 THEN [taint |-> st.taint, hard |-> FALSE, mismatch |-> 0, fills |-> 0]
            ELSE DiffOne(acc[n - 1], st.aggressors[n], st.observed, globalTaint)
    IN  acc

DiffAll(st, globalTaint) == DiffLoop(st, globalTaint)[Len(st.aggressors)]

(* One trusted divergence fails the run; what could not be resolved, or    *)
(* too much that could not be verified, withholds the pass.                *)
Outcome(st, gap, orphan, d) ==
    CASE d.hard -> "incorrect"
      [] /\ ~d.hard /\ d.mismatch = 0 /\ d.fills = 0 /\ orphan = 0
         /\ Certifiable(st.unknown + gap + orphan + d.fills + d.mismatch, st.attempts)
            -> "correct"
      [] OTHER -> "unverified"

(* A hole in the seqs and an orphan fill taint every book.                 *)
Judge(st, gap, orphan) == Outcome(st, gap, orphan, DiffAll(st, gap > 0 \/ orphan > 0))

JudgeReplay(st, gap) == Judge(st, gap, Orphans(st))

(* Replay: the verdict on a completed stream.                              *)
ReplayStream(stream) ==
    JudgeReplay(Replayed(stream), GapOf({stream[i].seq : i \in DOMAIN stream} \ {0}))

ReplayVerdict(events) == ReplayStream(InSeqOrder(events))

(* finalize: a stream without its end-of-run marker is never judged.       *)
Finalize(events) ==
    IF \E i \in DOMAIN events : events[i].action = "END"
    THEN ReplayVerdict(events) ELSE "unverified"
=============================================================================
