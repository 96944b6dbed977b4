------------------------ MODULE ReplayEngine_proofs ------------------------
(***************************************************************************)
(* Proofs, for any set of submissions, any number of replay workers and    *)
(* any channel capacities, of the safety of the engine's goroutines.       *)
(***************************************************************************)
EXTENDS ReplayEngine, FiniteSetTheorems, TLAPS

(* Single ownership: a submission not yet final has no worker and no       *)
(* verdict; one whose worker is under way is final and has no verdict yet; *)
(* a final one has nothing buffered, so flushAll cannot judge it again.    *)
Judged(s) == \E i \in DOMAIN updates : updates[i].sub = s

Ownership ==
    \A s \in Subs :
        /\ s \notin finalized => worker[s] = "none" /\ ~Judged(s)
        /\ worker[s] \in {"spawned", "replaying"} => s \in finalized /\ ~Judged(s)
        /\ s \in finalized => buffers[s] = <<>>

(* Where the events of a submission are: all buffered while it is open,    *)
(* with a worker from the marker on.                                       *)
Custody ==
    \A s \in Subs :
        /\ s \notin finalized => AllUnmarked(buffers[s], seen[s])
        /\ worker[s] \in {"spawned", "replaying"} => UpToMarker(lifted[s], seen[s])

(* A verdict without a marker is only sent once Run has left its loop.     *)
UnmarkedOnlyAfterLoop ==
    \A i \in DOMAIN updates :
        \/ UpToMarker(updates[i].events, seen[updates[i].sub])
        \/ AllUnmarked(updates[i].events, seen[updates[i].sub]) /\ run # "loop"

(* The inductive invariants.                                               *)
OwnershipInv == TypeOK /\ Ownership /\ OneVerdictPerSubmission
CustodyInv == OwnershipInv /\ Custody /\ UnmarkedOnlyAfterLoop

-----------------------------------------------------------------------------
(* What receiving from a channel takes and leaves.                         *)
LEMMA HeadTail ==
    ASSUME NEW q \in Seq(Events), q # <<>>
    PROVE  /\ Head(q) \in Events /\ Head(q).sub \in Subs /\ Head(q).end \in BOOLEAN
           /\ Tail(q) \in Seq(Events) /\ Len(Tail(q)) = Len(q) - 1 /\ Len(q) \in Nat
<1>1. /\ Head(q) \in Events /\ Tail(q) \in Seq(Events)
      /\ Len(Tail(q)) = Len(q) - 1 /\ Len(q) \in Nat
  OBVIOUS
<1> QED BY <1>1 DEF Events

(* The initial maps and channels have their types.                         *)
LEMMA TypeInit == Init => TypeOK
<1>1. \A S : <<>> \in Seq(S) /\ Len(<<>>) = 0
  OBVIOUS
<1> SUFFICES ASSUME Init PROVE TypeOK
  OBVIOUS
<1>2. buffers \in [Subs -> Seq(Events)] /\ lifted \in [Subs -> Seq(Events)]
      /\ seen \in [Subs -> Seq(Events)]
  BY <1>1 DEF Init
<1>3. in \in Seq(Events) /\ updates \in Seq(Updates) /\ Len(in) = 0 /\ Len(updates) = 0
  BY <1>1 DEF Init
<1>4. worker \in [Subs -> {"none", "spawned", "replaying", "done"}] /\ finalized \in SUBSET Subs
  BY DEF Init
<1>5. /\ offered \in 0..MaxEvents /\ taken \in 0..Len(updates) /\ sem \in Int
      /\ Len(in) <= InCap /\ Len(updates) - taken <= UpdCap
  BY <1>3, EngineBounds DEF Init
<1>6. /\ inClosed \in BOOLEAN /\ cancelled \in BOOLEAN /\ updClosed \in BOOLEAN
      /\ run \in {"loop", "flush", "wait", "done"}
  BY DEF Init
<1> QED BY <1>2, <1>3, <1>4, <1>5, <1>6 DEF TypeOK

(* Every step keeps the types and the capacities.                          *)
LEMMA TypeStep == TypeOK /\ [Next]_vars => TypeOK'
<1> SUFFICES ASSUME TypeOK, [Next]_vars PROVE TypeOK'
  OBVIOUS
<1> USE EngineBounds DEF TypeOK, Updates
<1>1. ASSUME NEW s \in Subs, NEW end \in BOOLEAN, Offer(s, end) PROVE TypeOK'
  <2>1. [id |-> offered', sub |-> s, end |-> end] \in Events
    BY <1>1 DEF Offer, Events
  <2> QED BY <1>1, <2>1 DEF Offer
<1>2. CASE CloseIn \/ CancelService
  BY <1>2 DEF CloseIn, CancelService
<1>3. CASE Downstream
  BY <1>3 DEF Downstream
<1>4. ASSUME in # <<>>
      PROVE  /\ Head(in) \in Events /\ Head(in).sub \in Subs
             /\ Tail(in) \in Seq(Events) /\ Len(Tail(in)) <= InCap
  BY <1>4, HeadTail
<1>5. CASE RunIgnore
  BY <1>4, <1>5 DEF RunIgnore
<1>6. CASE RunBuffer
  BY <1>4, <1>6 DEF RunBuffer
<1>7. CASE RunDispatch
  BY <1>4, <1>7 DEF RunDispatch, TakeEvents
<1>8. CASE RunInputEnded \/ FlushDone \/ RunCancelled \/ RunFinish
  BY <1>8 DEF RunInputEnded, FlushDone, RunCancelled, RunFinish
<1>9. ASSUME NEW s \in Subs, FlushOne(s) PROVE TypeOK'
  BY <1>9 DEF FlushOne, TakeEvents, UpdatesHaveRoom
<1>10. ASSUME NEW s \in Subs, FlushCancelled(s) PROVE TypeOK'
  BY <1>10 DEF FlushCancelled, TakeEvents
<1>11. ASSUME NEW s \in Subs, Acquire(s) PROVE TypeOK'
  BY <1>11 DEF Acquire
<1>12. ASSUME NEW s \in Subs, SendVerdict(s) PROVE TypeOK'
  BY <1>12 DEF SendVerdict, UpdatesHaveRoom, Release
<1>13. ASSUME NEW s \in Subs, WorkerCancelled(s) PROVE TypeOK'
  BY <1>13 DEF WorkerCancelled, Release
<1>14. CASE UNCHANGED vars
  BY <1>14 DEF vars
<1> QED
  BY <1>1, <1>2, <1>3, <1>5, <1>6, <1>7, <1>8, <1>9, <1>10, <1>11, <1>12, <1>13, <1>14
     DEF Next, RunStep, WorkerStep, Environment

(* Every channel and map of the engine keeps its type and its capacity in  *)
(* every reachable state.                                                  *)
THEOREM TypeCorrect == Spec => []TypeOK
BY TypeInit, TypeStep, PTL DEF Spec

-----------------------------------------------------------------------------
(* The updates channel is closed only when neither Run nor a worker can    *)
(* send on it: the deferred wg.Wait runs before the deferred close.        *)
THEOREM CloseIsSafe == Spec => []NoSendAfterClose
<1>1. Init => NoSendAfterClose
  BY DEF Init, NoSendAfterClose
<1>2. TypeOK /\ NoSendAfterClose /\ [Next]_vars => NoSendAfterClose'
  <2> SUFFICES ASSUME TypeOK, NoSendAfterClose, [Next]_vars PROVE NoSendAfterClose'
    OBVIOUS
  <2> USE DEF NoSendAfterClose
  <2>1. CASE \/ RunIgnore \/ RunBuffer \/ RunInputEnded \/ FlushDone \/ RunCancelled
             \/ Environment \/ UNCHANGED vars
             \/ \E s \in Subs : FlushOne(s) \/ FlushCancelled(s)
    BY <2>1 DEF RunIgnore, RunBuffer, RunInputEnded, FlushDone, RunCancelled, Environment,
                Offer, CloseIn, CancelService, Downstream, FlushOne, FlushCancelled, vars
  <2>2. CASE RunDispatch
    BY <2>2 DEF RunDispatch
  <2>3. CASE RunFinish
    BY <2>3 DEF RunFinish, WorkersDone
  <2>4. CASE \E s \in Subs : WorkerStep(s)
    <3>1. ~updClosed /\ updClosed' = updClosed
      BY <2>4 DEF WorkerStep, Acquire, SendVerdict, WorkerCancelled
    <3> QED BY <3>1
  <2> QED BY <2>1, <2>2, <2>3, <2>4 DEF Next, RunStep
<1> QED BY <1>1, <1>2, TypeCorrect, PTL DEF Spec

-----------------------------------------------------------------------------
(* Sending the verdict of a submission that has none keeps verdicts        *)
(* unique, and judges that submission and no other.                        *)
LEMMA SendUnjudged ==
    ASSUME TypeOK, OneVerdictPerSubmission, NEW s \in Subs, NEW ev \in Seq(Events),
           ~Judged(s), updates' = Append(updates, [sub |-> s, events |-> ev])
    PROVE  /\ OneVerdictPerSubmission'
           /\ \A t \in Subs : Judged(t)' <=> (Judged(t) \/ t = s)
<1> DEFINE n == Len(updates)
<1>1. /\ n \in Nat /\ DOMAIN updates = 1..n /\ DOMAIN updates' = 1..(n + 1)
      /\ \A i \in 1..n : updates'[i] = updates[i]
      /\ updates'[n + 1] = [sub |-> s, events |-> ev]
  BY DEF TypeOK, Updates
<1>2. updates'[n + 1].sub = s
  BY <1>1
<1>3. OneVerdictPerSubmission'
  BY <1>1, <1>2 DEF OneVerdictPerSubmission, Judged
<1>4. ASSUME NEW t \in Subs PROVE Judged(t)' <=> (Judged(t) \/ t = s)
  <2>1. Judged(t)' <=> \E i \in 1..(n + 1) : updates'[i].sub = t
    BY <1>1 DEF Judged
  <2>2. Judged(t) <=> \E i \in 1..n : updates[i].sub = t
    BY <1>1 DEF Judged
  <2>3. \A i \in 1..(n + 1) : i \in 1..n \/ i = n + 1
    BY <1>1
  <2>4. n + 1 \in 1..(n + 1) /\ 1..n \subseteq 1..(n + 1)
    BY <1>1
  <2> QED BY <1>1, <1>2, <2>1, <2>2, <2>3, <2>4
<1> QED BY <1>3, <1>4

(* Every step keeps single ownership: only Run moves events, only the      *)
(* owner of a submission's events sends its verdict.                       *)
LEMMA OwnershipStep == OwnershipInv /\ [Next]_vars => OwnershipInv'
<1> SUFFICES ASSUME OwnershipInv, [Next]_vars PROVE OwnershipInv'
  OBVIOUS
<1>0. TypeOK /\ TypeOK' /\ Ownership /\ OneVerdictPerSubmission
  BY TypeStep DEF OwnershipInv
<1> SUFFICES Ownership' /\ OneVerdictPerSubmission'
  BY <1>0 DEF OwnershipInv
<1>1. ASSUME updates' = updates
      PROVE  OneVerdictPerSubmission' /\ \A t \in Subs : Judged(t)' <=> Judged(t)
  BY <1>0, <1>1 DEF OneVerdictPerSubmission, Judged
<1>2. CASE \/ RunIgnore \/ RunInputEnded \/ FlushDone \/ RunCancelled \/ RunFinish
           \/ Environment \/ UNCHANGED vars
  <2>1. updates' = updates /\ worker' = worker /\ finalized' = finalized /\ buffers' = buffers
    BY <1>2 DEF RunIgnore, RunInputEnded, FlushDone, RunCancelled, RunFinish, Environment,
                Offer, CloseIn, CancelService, Downstream, vars
  <2> QED BY <1>0, <1>1, <2>1 DEF Ownership
<1>3. CASE RunBuffer
  BY <1>0, <1>1, <1>3, HeadTail DEF RunBuffer, Accepts, Ownership, TypeOK
<1>4. CASE RunDispatch
  <2> DEFINE s == Head(in).sub
  <2>1. /\ s \in Subs /\ s \notin finalized
        /\ updates' = updates
        /\ finalized' = finalized \cup {s}
        /\ worker' = [worker EXCEPT ![s] = "spawned"]
        /\ buffers' = [buffers EXCEPT ![s] = <<>>]
    BY <1>0, <1>4, HeadTail DEF RunDispatch, Accepts, TakeEvents, TypeOK
  <2> HIDE DEF s
  <2> QED BY <1>0, <1>1, <2>1 DEF Ownership, TypeOK
<1>5. ASSUME NEW s \in Subs, FlushOne(s) PROVE Ownership' /\ OneVerdictPerSubmission'
  <2>1. s \notin finalized /\ ~Judged(s) /\ worker[s] = "none" /\ buffers[s] \in Seq(Events)
    BY <1>0, <1>5 DEF FlushOne, Ownership, TypeOK
  <2>2. OneVerdictPerSubmission' /\ \A t \in Subs : Judged(t)' <=> (Judged(t) \/ t = s)
    BY <1>0, <1>5, <2>1, SendUnjudged DEF FlushOne
  <2> QED BY <1>0, <1>5, <2>1, <2>2 DEF FlushOne, TakeEvents, Ownership, TypeOK
<1>6. ASSUME NEW s \in Subs, FlushCancelled(s) PROVE Ownership' /\ OneVerdictPerSubmission'
  BY <1>0, <1>1, <1>6 DEF FlushCancelled, TakeEvents, Ownership, TypeOK
<1>7. ASSUME NEW s \in Subs, Acquire(s) PROVE Ownership' /\ OneVerdictPerSubmission'
  BY <1>0, <1>1, <1>7 DEF Acquire, Ownership, TypeOK
<1>8. ASSUME NEW s \in Subs, SendVerdict(s) PROVE Ownership' /\ OneVerdictPerSubmission'
  <2>1. s \in finalized /\ ~Judged(s) /\ lifted[s] \in Seq(Events)
    BY <1>0, <1>8 DEF SendVerdict, Ownership, TypeOK
  <2>2. OneVerdictPerSubmission' /\ \A t \in Subs : Judged(t)' <=> (Judged(t) \/ t = s)
    BY <1>0, <1>8, <2>1, SendUnjudged DEF SendVerdict
  <2> QED BY <1>0, <1>8, <2>1, <2>2 DEF SendVerdict, Ownership, TypeOK
<1>9. ASSUME NEW s \in Subs, WorkerCancelled(s) PROVE Ownership' /\ OneVerdictPerSubmission'
  BY <1>0, <1>1, <1>9 DEF WorkerCancelled, Ownership, TypeOK
<1> QED
  BY <1>2, <1>3, <1>4, <1>5, <1>6, <1>7, <1>8, <1>9 DEF Next, RunStep, WorkerStep

(* At the start every submission is open.                                  *)
LEMMA OwnershipInit == Init => OwnershipInv
BY TypeInit DEF Init, OwnershipInv, Ownership, OneVerdictPerSubmission, Judged

(* A submission is judged at most once, in any interleaving of its events, *)
(* repeated markers, stragglers, workers and the flush at the end.         *)
THEOREM JudgedOnce == Spec => []OneVerdictPerSubmission
<1>1. OwnershipInv => OneVerdictPerSubmission
  BY DEF OwnershipInv
<1> QED BY <1>1, OwnershipInit, OwnershipStep, PTL DEF Spec

-----------------------------------------------------------------------------
(* Appending a received event to what is buffered and to what was sent.    *)
LEMMA Received ==
    ASSUME NEW ev \in Seq(Events), NEW all \in Seq(Events), NEW e \in Events
    PROVE  /\ AllUnmarked(ev, all) /\ ~e.end => AllUnmarked(Append(ev, e), Append(all, e))
           /\ AllUnmarked(ev, all) /\ e.end => UpToMarker(Append(ev, e), Append(all, e))
           /\ UpToMarker(ev, all) => UpToMarker(ev, Append(all, e))
<1>1. /\ Len(ev) \in Nat /\ Len(Append(ev, e)) = Len(ev) + 1
      /\ \A k \in 1..Len(ev) : Append(ev, e)[k] = ev[k]
      /\ Append(ev, e)[Len(ev) + 1] = e
  OBVIOUS
<1>2. /\ Len(all) \in Nat /\ Len(Append(all, e)) = Len(all) + 1
      /\ \A k \in 1..Len(all) : Append(all, e)[k] = all[k]
      /\ Append(all, e)[Len(all) + 1] = e
  OBVIOUS
<1>3. AllUnmarked(ev, all) /\ ~e.end => AllUnmarked(Append(ev, e), Append(all, e))
  BY <1>1, <1>2 DEF AllUnmarked
<1>4. AllUnmarked(ev, all) /\ e.end => UpToMarker(Append(ev, e), Append(all, e))
  BY <1>1, <1>2 DEF AllUnmarked, UpToMarker
<1>5. UpToMarker(ev, all) => UpToMarker(ev, Append(all, e))
  BY <1>1, <1>2 DEF UpToMarker
<1> QED BY <1>3, <1>4, <1>5

(* Every step keeps the events of a submission together and in order.      *)
LEMMA CustodyStep == CustodyInv /\ [Next]_vars => CustodyInv'
<1> SUFFICES ASSUME CustodyInv, [Next]_vars PROVE Custody' /\ UnmarkedOnlyAfterLoop'
  BY OwnershipStep DEF CustodyInv
<1>0. TypeOK /\ Ownership /\ Custody /\ UnmarkedOnlyAfterLoop
  BY DEF CustodyInv, OwnershipInv
<1>1. \A i \in DOMAIN updates : updates[i].sub \in Subs /\ updates[i].events \in Seq(Events)
  <2>1. \A i \in DOMAIN updates : updates[i] \in Updates
    BY <1>0 DEF TypeOK
  <2> QED BY <2>1 DEF Updates
<1>2. ASSUME run = "loop", in # <<>>, updates' = updates,
             seen' = [seen EXCEPT ![Head(in).sub] = Append(@, Head(in))]
      PROVE  /\ UnmarkedOnlyAfterLoop'
             /\ \A t \in Subs, ev \in Seq(Events) :
                    UpToMarker(ev, seen[t]) => UpToMarker(ev, seen'[t])
  <2> DEFINE h == Head(in).sub
  <2>1. h \in Subs /\ Head(in) \in Events /\ seen \in [Subs -> Seq(Events)]
    BY <1>0, <1>2, HeadTail DEF TypeOK
  <2>2. seen'[h] = Append(seen[h], Head(in)) /\ \A t \in Subs \ {h} : seen'[t] = seen[t]
    BY <1>2, <2>1
  <2>3. ASSUME NEW t \in Subs, NEW ev \in Seq(Events), UpToMarker(ev, seen[t])
        PROVE  UpToMarker(ev, seen'[t])
    BY <2>1, <2>2, <2>3, Received
  <2>4. \A i \in DOMAIN updates : UpToMarker(updates[i].events, seen[updates[i].sub])
    BY <1>0, <1>2 DEF UnmarkedOnlyAfterLoop
  <2>5. \A i \in DOMAIN updates : UpToMarker(updates[i].events, seen'[updates[i].sub])
    BY <1>1, <2>3, <2>4
  <2>6. UnmarkedOnlyAfterLoop'
    BY <1>2, <2>5 DEF UnmarkedOnlyAfterLoop
  <2> QED BY <2>3, <2>6
<1>3. ASSUME updates' = updates, seen' = seen, run = "loop" \/ run' = run \/ run' # "loop"
      PROVE  UnmarkedOnlyAfterLoop'
  <2>1. run # "loop" => run' # "loop"
    BY <1>3
  <2> QED BY <1>0, <1>3, <2>1 DEF UnmarkedOnlyAfterLoop
<1>4. CASE RunIgnore
  <2>1. UnmarkedOnlyAfterLoop' /\ \A t \in Subs, ev \in Seq(Events) :
                    UpToMarker(ev, seen[t]) => UpToMarker(ev, seen'[t])
    BY <1>2, <1>4 DEF RunIgnore
  <2>2. Head(in).sub \in finalized /\ \A t \in Subs \ {Head(in).sub} : seen'[t] = seen[t]
    BY <1>0, <1>4 DEF RunIgnore, Accepts, TypeOK
  <2>3. worker' = worker /\ lifted' = lifted /\ buffers' = buffers /\ finalized' = finalized
    BY <1>4 DEF RunIgnore
  <2> QED BY <1>0, <2>1, <2>2, <2>3 DEF Custody, TypeOK
<1>5. CASE RunBuffer
  <2> DEFINE h == Head(in).sub
  <2>1. UnmarkedOnlyAfterLoop' /\ \A t \in Subs, ev \in Seq(Events) :
                    UpToMarker(ev, seen[t]) => UpToMarker(ev, seen'[t])
    BY <1>2, <1>5 DEF RunBuffer
  <2>2. h \in Subs /\ h \notin finalized /\ Head(in) \in Events /\ ~Head(in).end
    BY <1>0, <1>5, HeadTail DEF RunBuffer, Accepts, TypeOK
  <2>3. /\ seen'[h] = Append(seen[h], Head(in)) /\ buffers'[h] = Append(buffers[h], Head(in))
        /\ \A t \in Subs \ {h} : seen'[t] = seen[t] /\ buffers'[t] = buffers[t]
    BY <1>0, <1>5, <2>2 DEF RunBuffer, TypeOK
  <2>4. worker' = worker /\ lifted' = lifted /\ finalized' = finalized
    BY <1>5 DEF RunBuffer
  <2>5. AllUnmarked(buffers'[h], seen'[h])
    BY <1>0, <2>2, <2>3, Received DEF Custody, TypeOK
  <2> HIDE DEF h
  <2> QED BY <1>0, <2>1, <2>2, <2>3, <2>4, <2>5 DEF Custody, TypeOK
<1>6. CASE RunDispatch
  <2> DEFINE h == Head(in).sub
  <2>1. UnmarkedOnlyAfterLoop' /\ \A t \in Subs, ev \in Seq(Events) :
                    UpToMarker(ev, seen[t]) => UpToMarker(ev, seen'[t])
    BY <1>2, <1>6 DEF RunDispatch
  <2>2. h \in Subs /\ h \notin finalized /\ Head(in) \in Events /\ Head(in).end
    BY <1>0, <1>6, HeadTail DEF RunDispatch, Accepts, TypeOK
  <2>3. /\ seen'[h] = Append(seen[h], Head(in)) /\ lifted'[h] = Append(buffers[h], Head(in))
        /\ finalized' = finalized \cup {h}
        /\ \A t \in Subs \ {h} : /\ seen'[t] = seen[t] /\ buffers'[t] = buffers[t]
                                 /\ lifted'[t] = lifted[t] /\ worker'[t] = worker[t]
    BY <1>0, <1>6, <2>2 DEF RunDispatch, TakeEvents, TypeOK
  <2>4. UpToMarker(lifted'[h], seen'[h])
    BY <1>0, <2>2, <2>3, Received DEF Custody, TypeOK
  <2> HIDE DEF h
  <2> QED BY <1>0, <2>1, <2>2, <2>3, <2>4 DEF Custody, TypeOK
<1>7. CASE \/ RunInputEnded \/ FlushDone \/ RunCancelled \/ RunFinish
           \/ Environment \/ UNCHANGED vars
  <2>1. /\ updates' = updates /\ worker' = worker /\ finalized' = finalized
        /\ buffers' = buffers /\ lifted' = lifted /\ seen' = seen
        /\ run' = run \/ run' # "loop"
    BY <1>7 DEF RunInputEnded, FlushDone, RunCancelled, RunFinish, Environment,
                Offer, CloseIn, CancelService, Downstream, vars
  <2> QED BY <1>0, <1>3, <2>1 DEF Custody
<1>8. ASSUME NEW s \in Subs, NEW ev \in Seq(Events), seen' = seen, run' = run,
             updates' = Append(updates, [sub |-> s, events |-> ev]),
             UpToMarker(ev, seen[s]) \/ (AllUnmarked(ev, seen[s]) /\ run # "loop")
      PROVE  UnmarkedOnlyAfterLoop'
  <2> DEFINE n == Len(updates)
  <2>1. /\ n \in Nat /\ DOMAIN updates = 1..n /\ DOMAIN updates' = 1..(n + 1)
        /\ \A i \in 1..n : updates'[i] = updates[i]
        /\ updates'[n + 1] = [sub |-> s, events |-> ev]
    BY <1>0, <1>8 DEF TypeOK, Updates
  <2>2. updates'[n + 1].sub = s /\ updates'[n + 1].events = ev
    BY <2>1
  <2>3. \A i \in 1..(n + 1) : i \in 1..n \/ i = n + 1
    BY <2>1
  <2> HIDE DEF n
  <2> QED BY <1>0, <1>8, <2>1, <2>2, <2>3 DEF UnmarkedOnlyAfterLoop
<1>9. ASSUME NEW s \in Subs, FlushOne(s) PROVE Custody' /\ UnmarkedOnlyAfterLoop'
  <2>1. s \notin finalized /\ buffers[s] \in Seq(Events) /\ run = "flush"
    BY <1>0, <1>9 DEF FlushOne, Ownership, TypeOK
  <2>2. UnmarkedOnlyAfterLoop'
    BY <1>0, <1>8, <1>9, <2>1 DEF FlushOne, Custody
  <2> QED BY <1>0, <1>9, <2>1, <2>2 DEF FlushOne, TakeEvents, Custody, TypeOK
<1>10. ASSUME NEW s \in Subs, FlushCancelled(s) PROVE Custody' /\ UnmarkedOnlyAfterLoop'
  BY <1>0, <1>3, <1>10 DEF FlushCancelled, TakeEvents, Custody, TypeOK
<1>11. ASSUME NEW s \in Subs, Acquire(s) PROVE Custody' /\ UnmarkedOnlyAfterLoop'
  BY <1>0, <1>3, <1>11 DEF Acquire, Custody, TypeOK
<1>12. ASSUME NEW s \in Subs, SendVerdict(s) PROVE Custody' /\ UnmarkedOnlyAfterLoop'
  <2>1. lifted[s] \in Seq(Events) /\ UpToMarker(lifted[s], seen[s])
    BY <1>0, <1>12 DEF SendVerdict, Custody, TypeOK
  <2>2. UnmarkedOnlyAfterLoop'
    BY <1>8, <1>12, <2>1 DEF SendVerdict
  <2> QED BY <1>0, <1>12, <2>2 DEF SendVerdict, Custody, TypeOK
<1>13. ASSUME NEW s \in Subs, WorkerCancelled(s) PROVE Custody' /\ UnmarkedOnlyAfterLoop'
  BY <1>0, <1>3, <1>13 DEF WorkerCancelled, Custody, TypeOK
<1> QED
  BY <1>4, <1>5, <1>6, <1>7, <1>9, <1>10, <1>11, <1>12, <1>13 DEF Next, RunStep, WorkerStep

(* Every verdict is made from exactly what its submission sent up to its   *)
(* first marker, or from all it sent when the input ends without one.      *)
THEOREM WholeStreamJudged == Spec => []VerdictOnWholeStream
<1>1. Init => CustodyInv
  <2>1. Init => OwnershipInv
    BY OwnershipInit
  <2>2. Len(<<>>) = 0
    OBVIOUS
  <2> QED BY <2>1, <2>2 DEF Init, CustodyInv, Custody, UnmarkedOnlyAfterLoop, AllUnmarked
<1>2. CustodyInv => VerdictOnWholeStream
  BY DEF CustodyInv, UnmarkedOnlyAfterLoop, VerdictOnWholeStream
<1> QED BY <1>1, <1>2, CustodyStep, PTL DEF Spec

-----------------------------------------------------------------------------
(* The semaphore counts exactly the replays under way, so that no more     *)
(* than Workers run at once and no slot is leaked on cancellation.         *)
THEOREM SemaphoreCounts == Spec => []SemaphoreExact
<1> DEFINE Replaying == {s \in Subs : worker[s] = "replaying"}
<1>1. Init => SemaphoreExact
  <2> SUFFICES ASSUME Init PROVE SemaphoreExact
    OBVIOUS
  <2>1. Replaying = {}
    BY DEF Init
  <2> QED BY <2>1, FS_EmptySet, EngineBounds DEF Init, SemaphoreExact
<1>2. OwnershipInv /\ SemaphoreExact /\ [Next]_vars => SemaphoreExact'
  <2> SUFFICES ASSUME OwnershipInv, SemaphoreExact, [Next]_vars PROVE SemaphoreExact'
    OBVIOUS
  <2> TypeOK /\ Ownership
    BY DEF OwnershipInv
  <2>0. IsFiniteSet(Replaying) /\ sem = Cardinality(Replaying) /\ sem \in Int /\ sem <= Workers
    BY FS_Subset, EngineBounds DEF SemaphoreExact, TypeOK
  <2>1. CASE sem' = sem /\ Replaying' = Replaying
    BY <2>0, <2>1 DEF SemaphoreExact
  <2>2. CASE \/ RunIgnore \/ RunBuffer \/ RunInputEnded \/ FlushDone \/ RunCancelled
             \/ RunFinish \/ Environment \/ UNCHANGED vars
             \/ \E s \in Subs : FlushOne(s) \/ FlushCancelled(s)
    <3>1. sem' = sem /\ worker' = worker
      BY <2>2 DEF RunIgnore, RunBuffer, RunInputEnded, FlushDone, RunCancelled, RunFinish,
                  Environment, Offer, CloseIn, CancelService, Downstream, FlushOne,
                  FlushCancelled, vars
    <3> QED BY <2>1, <3>1
  <2>3. ASSUME NEW s \in Subs, Acquire(s) PROVE SemaphoreExact'
    <3>1. s \notin Replaying /\ Replaying' = Replaying \cup {s} /\ sem' = sem + 1 /\ sem < Workers
      BY <2>3 DEF Acquire, TypeOK
    <3>2. Cardinality(Replaying') = Cardinality(Replaying) + 1
      BY <2>0, <3>1, FS_AddElement
    <3> QED BY <2>0, <3>1, <3>2, EngineBounds DEF SemaphoreExact
  <2>4. ASSUME NEW s \in Subs, worker[s] = "replaying", sem' = sem - 1,
               worker' = [worker EXCEPT ![s] = "done"]
        PROVE  SemaphoreExact'
    <3>1. s \in Replaying /\ Replaying' = Replaying \ {s}
      BY <2>4 DEF TypeOK
    <3>2. Cardinality(Replaying') = Cardinality(Replaying) - 1
      BY <2>0, <3>1, FS_RemoveElement
    <3> QED BY <2>0, <2>4, <3>2, EngineBounds DEF SemaphoreExact
  <2>5. ASSUME NEW s \in Subs, SendVerdict(s) PROVE SemaphoreExact'
    BY <2>4, <2>5 DEF SendVerdict, Release
  <2>6. ASSUME NEW s \in Subs, WorkerCancelled(s) PROVE SemaphoreExact'
    <3>1. CASE worker[s] = "replaying"
      BY <2>4, <2>6, <3>1 DEF WorkerCancelled, Release
    <3>2. CASE worker[s] = "spawned"
      <4>1. sem' = sem /\ Replaying' = Replaying
        BY <2>6, <3>2 DEF WorkerCancelled, TypeOK
      <4> QED BY <2>1, <4>1
    <3> QED BY <2>6, <3>1, <3>2 DEF WorkerCancelled
  <2>7. CASE RunDispatch
    <3>1. Head(in).sub \in Subs /\ worker[Head(in).sub] = "none" /\ sem' = sem
          /\ worker' = [worker EXCEPT ![Head(in).sub] = "spawned"]
      BY <2>7, HeadTail DEF RunDispatch, Accepts, Ownership, TypeOK
    <3>2. Replaying' = Replaying
      BY <3>1 DEF TypeOK
    <3> QED BY <2>1, <3>1, <3>2
  <2> QED
    BY <2>2, <2>3, <2>5, <2>6, <2>7 DEF Next, RunStep, WorkerStep
<1> QED BY <1>1, <1>2, OwnershipInit, OwnershipStep, PTL DEF Spec
=============================================================================
