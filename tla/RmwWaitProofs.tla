---------------------------- MODULE RmwWaitProofs ----------------------------
(***************************************************************************)
(* Proofs about RmwWait, for every set of subscriptions, every wait set,   *)
(* every timeout, and whatever system_clock shows.                         *)
(***************************************************************************)
EXTENDS RmwWait, TLAPS

\* During a call the wait set is the one the executor gave.
EntriesGiven == stage \in {"events", "scan"} => entries \in WaitSets

\* Whenever the queues are scanned, processEvents has run for the timeout at least:
\* the clock may cut the wait short only after that.
RanForTimeout == stage = "scan" => spent >= End

WaitInv == ReturnTrue /\ EntriesGiven /\ RanForTimeout

-----------------------------------------------------------------------------
(* Operators. *)

\* The conversion to milliseconds loses less than one of them.
LEMMA MillisecondsLoss ==
  ASSUME NEW t \in Nat, NEW m \in Nat, m >= Milliseconds(t)
  PROVE  m * Ticks > t - Ticks
<1> DEFINE q == t \div Ticks
<1>1. Ticks \in Nat /\ Ticks > 0
  BY WaitAssumption
<1>2. q \in Nat /\ t < q * Ticks + Ticks
  BY <1>1
<1>3. q <= m
  BY DEF Milliseconds
<1> HIDE DEF q
<1>4. PICK d \in Nat : m = q + d
  <2>1. m - q \in Nat /\ m = q + (m - q)
    BY <1>2, <1>3
  <2> QED
    BY <2>1
<1>5. m * Ticks = q * Ticks + d * Ticks /\ d * Ticks \in Nat /\ q * Ticks \in Nat
  BY <1>1, <1>2, <1>4
<1> QED
  BY <1>1, <1>2, <1>5

LEMMA EndType ==
  ASSUME WaitTypeOK
  PROVE  End \in Nat
<1>1. request \in Nat /\ Ticks \in Nat /\ Ticks > 0
  BY WaitAssumption DEF WaitTypeOK
<1> QED
  BY <1>1 DEF End, Milliseconds

\* What the second loop leaves of a wait set.
LEMMA ClearedFirst ==
  ASSUME entries \in Seq(Subs)
  PROVE  /\ Cleared \in Seq(Subs \cup {NoEntry})
         /\ Len(Cleared) = Len(entries)
         /\ DOMAIN Cleared = DOMAIN entries
         /\ \A k \in DOMAIN entries :
              /\ CanTake(entries[k]) => Cleared[k] = entries[k]
              /\ k # 1 => Cleared[k] = entries[k]
              /\ k = 1 /\ ~CanTake(entries[k]) => Cleared[k] = NoEntry
<1>1. DOMAIN entries = 1..Len(entries) /\ Len(entries) \in Nat
  OBVIOUS
<1>2. \A k \in DOMAIN entries : entries[k] \in Subs
  OBVIOUS
<1>3. Cleared \in [1..Len(entries) -> Subs \cup {NoEntry}]
  BY <1>1, <1>2 DEF Cleared
<1>4. Cleared \in Seq(Subs \cup {NoEntry}) /\ Len(Cleared) = Len(entries)
  BY <1>1, <1>3
<1> QED
  BY <1>1, <1>4 DEF Cleared

-----------------------------------------------------------------------------
(* The invariant. *)

LEMMA WaitInvInit == WaitInit => WaitInv
<1> SUFFICES ASSUME WaitInit PROVE WaitInv
  OBVIOUS
<1>1. WaitTypeOK
  BY WaitAssumption DEF WaitInit, WaitTypeOK
<1> QED
  BY <1>1 DEF WaitInit, WaitInv, ReturnTrue, EntriesGiven, RanForTimeout

LEMMA WaitTypeStep ==
  ASSUME WaitInv, [WaitNext]_waitVars
  PROVE  WaitTypeOK'
<1> USE DEF WaitInv, ReturnTrue, WaitTypeOK
<1>1. ASSUME NEW e \in WaitSets, NEW t \in Timeouts, Call(e, t)
      PROVE  WaitTypeOK'
  <2>1. e \in Seq(Subs \cup {NoEntry}) /\ Len(e) \in Nat
    BY WaitAssumption
  <2>2. 0 \in 0..MaxClock
    BY WaitAssumption
  <2> QED
    BY <1>1, <2>1, <2>2 DEF Call
<1>2. ASSUME NEW s \in Subs, Deliver(s)
      PROVE  WaitTypeOK'
  <2>1. arrived[s] + 1 \in 1..MaxMessages
    <3>1. arrived[s] \in 0..MaxMessages /\ arrived[s] < MaxMessages
      BY <1>2 DEF Deliver
    <3>2. MaxMessages \in Nat
      BY WaitAssumption
    <3> QED
      BY <3>1, <3>2
  <2>2. arrived' \in [Subs -> 0..MaxMessages] /\ arrived'[s] = arrived[s] + 1
    BY <1>2, <2>1, WaitAssumption DEF Deliver
  <2>3. PICK ok \in BOOLEAN :
          queue' = [queue EXCEPT ![s] = Append(queue[s], [n |-> arrived'[s], ok |-> ok])]
    BY <1>2 DEF Deliver
  <2>4. [n |-> arrived'[s], ok |-> ok] \in Message
    BY <2>1, <2>2 DEF Message
  <2>5. queue' \in [Subs -> Seq(Message)]
    BY <2>3, <2>4
  <2> QED
    BY <1>2, <2>2, <2>5 DEF Deliver
<1>3. ASSUME NEW t \in 0..MaxClock, ProcessEvents(t)
      PROVE  WaitTypeOK'
  <2>1. spent' \in Nat
    BY <1>3, EndType DEF ProcessEvents
  <2> QED
    BY <1>3, <2>1 DEF ProcessEvents
<1>4. CASE ReturnOk
  <2>1. entries \in Seq(Subs)
    BY <1>4, WaitAssumption DEF ReturnOk, EntriesGiven
  <2>2. entries' \in Seq(Subs \cup {NoEntry}) /\ Len(entries') \in Nat
    BY <1>4, <2>1, ClearedFirst DEF ReturnOk
  <2> QED
    BY <1>4, <2>2 DEF ReturnOk
<1>5. CASE RunAgain
  BY <1>5 DEF RunAgain
<1>6. CASE ReturnTimeout
  BY <1>6 DEF ReturnTimeout
<1>7. CASE Dispatch
  <2>1. next' \in 1..Len(entries) + 1
    BY <1>7 DEF Dispatch
  <2>2. queue' \in [Subs -> Seq(Message)]
    <3>1. CASE entries[next] = NoEntry
      BY <1>7, <3>1 DEF Dispatch
    <3>2. CASE entries[next] # NoEntry
      <4>1. entries[next] \in Subs /\ Take(entries[next])
        BY <1>7, <3>2 DEF Dispatch
      <4>2. PICK s \in Subs : Take(s)
        BY <4>1
      <4>3. queue[s] \in Seq(Message)
        OBVIOUS
      <4>4. queue[s] # <<>> => Tail(queue[s]) \in Seq(Message)
        BY <4>3
      <4>5. queue' = IF queue[s] # <<>> THEN [queue EXCEPT ![s] = Tail(queue[s])] ELSE queue
        BY <4>2 DEF Take, CanTake
      <4> QED
        BY <4>4, <4>5
    <3> QED
      BY <3>1, <3>2
  <2> QED
    BY <1>7, <2>1, <2>2 DEF Dispatch
<1>8. CASE DispatchDone
  BY <1>8 DEF DispatchDone
<1>9. CASE UNCHANGED waitVars
  BY <1>9 DEF waitVars
<1> QED
  BY <1>1, <1>2, <1>3, <1>4, <1>5, <1>6, <1>7, <1>8, <1>9 DEF WaitNext

\* A call that returns OK, and one that times out.
LEMMA OkIsTrue ==
  ASSUME WaitInv, ReturnOk
  PROVE  ReadyKept'
<1>1. entries \in WaitSets /\ entries \in Seq(Subs)
  BY WaitAssumption DEF ReturnOk, WaitInv, EntriesGiven
<1>2. entries' = Cleared /\ queue' = queue
  BY DEF ReturnOk
<1>3. \A s : CanTake(s)' <=> CanTake(s)
  BY <1>2 DEF CanTake
<1>4. PICK j \in DOMAIN entries : CanTake(entries[j])
  BY DEF ReturnOk, AnyReady
<1>5. /\ Len(entries) = Len(entries')
      /\ DOMAIN entries' = DOMAIN entries
      /\ \A k \in DOMAIN entries :
           /\ entries[k] \in Subs
           /\ entries'[k] \in {entries[k], NoEntry}
           /\ CanTake(entries[k]) => entries'[k] = entries[k]
  BY <1>1, <1>2, ClearedFirst
<1>6. 1 \in DOMAIN entries
  BY <1>1, <1>4
<1>7. entries'[1] = NoEntry <=> ~CanTake(entries[1])
  <2>1. entries[1] # NoEntry
    BY <1>5, <1>6, WaitAssumption
  <2>2. CASE CanTake(entries[1])
    BY <1>5, <1>6, <2>1, <2>2
  <2>3. CASE ~CanTake(entries[1])
    <3>1. Cleared[1] = NoEntry
      BY <1>1, <1>6, <2>3, ClearedFirst
    <3> QED
      BY <1>2, <2>3, <3>1
  <2> QED
    BY <2>2, <2>3
<1>8. entries'[j] # NoEntry /\ CanTake(entries'[j])
  BY <1>4, <1>5, WaitAssumption
<1> QED
  BY <1>1, <1>3, <1>4, <1>5, <1>7, <1>8 DEF ReadyKept

LEMMA TimeoutIsTrue ==
  ASSUME WaitInv, ReturnTimeout
  PROVE  WaitedEnough' /\ (\A k \in DOMAIN entries : ~CanTake(entries[k]))'
<1>1. UNCHANGED <<spent, request, queue, entries>>
  BY DEF ReturnTimeout
<1>2. spent \in Nat /\ request \in Nat /\ spent >= Milliseconds(request)
  BY WaitAssumption
     DEF ReturnTimeout, WaitInv, ReturnTrue, WaitTypeOK, RanForTimeout, End
<1>3. WaitedEnough
  BY <1>2, MillisecondsLoss DEF WaitedEnough
<1> QED
  BY <1>1, <1>3 DEF ReturnTimeout, AnyReady, CanTake, WaitedEnough

LEMMA WaitInvStep == WaitInv /\ [WaitNext]_waitVars => WaitInv'
<1> SUFFICES ASSUME WaitInv, [WaitNext]_waitVars PROVE WaitInv'
  OBVIOUS
<1> DEFINE Told == stage = "returned" /\ next = 1 =>
                     \/ ret = "OK" /\ ReadyKept
                     \/ /\ ret = "TIMEOUT"
                        /\ WaitedEnough
                        /\ \A k \in DOMAIN entries : ~CanTake(entries[k])
<1>1. WaitTypeOK'
  BY WaitTypeStep
<1>2. Told' /\ EntriesGiven' /\ RanForTimeout' => WaitInv'
  BY <1>1 DEF WaitInv, ReturnTrue
<1> SUFFICES Told' /\ EntriesGiven' /\ RanForTimeout'
  BY <1>2
<1> USE DEF EntriesGiven, RanForTimeout
<1>3. ASSUME NEW e \in WaitSets, NEW t \in Timeouts, Call(e, t)
      PROVE  Told' /\ EntriesGiven' /\ RanForTimeout'
  BY <1>3 DEF Call
<1>4. ASSUME NEW s \in Subs, Deliver(s)
      PROVE  Told' /\ EntriesGiven' /\ RanForTimeout'
  BY <1>4 DEF Deliver, WaitInv
<1>5. ASSUME NEW t \in 0..MaxClock, ProcessEvents(t)
      PROVE  Told' /\ EntriesGiven' /\ RanForTimeout'
  <2>1. spent \in Nat /\ End \in Nat /\ End' = End
    BY <1>5, EndType DEF WaitInv, ReturnTrue, WaitTypeOK, ProcessEvents, End
  <2>2. spent' >= End'
    BY <1>5, <2>1 DEF ProcessEvents
  <2> QED
    BY <1>5, <2>2 DEF ProcessEvents, WaitInv
<1>6. CASE ReturnOk
  BY <1>6, OkIsTrue DEF ReturnOk
<1>7. CASE RunAgain
  BY <1>7 DEF RunAgain, WaitInv
<1>8. CASE ReturnTimeout
  BY <1>8, TimeoutIsTrue DEF ReturnTimeout
<1>9. CASE Dispatch
  <2>1. next' # 1
    BY <1>9 DEF Dispatch, WaitInv, ReturnTrue, WaitTypeOK
  <2> QED
    BY <1>9, <2>1 DEF Dispatch
<1>10. CASE DispatchDone
  BY <1>10 DEF DispatchDone
<1>11. CASE UNCHANGED waitVars
  BY <1>11 DEF waitVars, WaitInv, ReturnTrue, ReadyKept, WaitedEnough, CanTake, End
<1> QED
  BY <1>3, <1>4, <1>5, <1>6, <1>7, <1>8, <1>9, <1>10, <1>11 DEF WaitNext

\* What rmw_wait returns is true, for every wait set and timeout and however the
\* clock is set while it runs: OK comes with an entry that has a message and clears
\* none that has one; a timeout comes after the wait that was asked, when no
\* subscription of the call has a message.
THEOREM ReturnTrueCorrect == WaitSpec => []ReturnTrue
<1>1. WaitInv => ReturnTrue
  BY DEF WaitInv
<1> QED
  BY <1>1, WaitInvInit, WaitInvStep, PTL DEF WaitSpec
=============================================================================
