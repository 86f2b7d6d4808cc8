------------------------------ MODULE RmwWait ------------------------------
(***************************************************************************)
(* rmw_wait (rmw_wait.cpp) over several subscriptions, between the         *)
(* callbacks that fill their queues and the executor that empties them.    *)
(*                                                                         *)
(* Everything runs on the thread that calls rmw_wait: onData fills a queue *)
(* only while processEvents runs, and the executor takes messages only     *)
(* between two calls.  What the queues receive is free here; Subscriber    *)
(* says where it comes from.                                               *)
(*                                                                         *)
(* A call runs the events, scans the queues, and returns OK when one holds *)
(* a message.  Its second loop returns after the first entry of the wait   *)
(* set: only that entry is cleared when it has nothing to take.            *)
(***************************************************************************)
EXTENDS Integers, Sequences

CONSTANTS
  Subs,         \* the subscriptions of the process
  WaitSets,     \* the arrays of subscriptions an executor waits for
  Timeouts,     \* the wait_timeouts it gives, in ticks
  Ticks,        \* the ticks of a millisecond
  MaxMessages,  \* bound: the messages one subscription receives
  MaxClock,     \* bound: system_clock in milliseconds since begin
  NoEntry       \* the NULL of a cleared entry

ASSUME WaitAssumption ==
  /\ WaitSets \subseteq Seq(Subs)
  /\ Timeouts \subseteq Nat
  /\ Ticks \in Nat \ {0}
  /\ MaxMessages \in Nat
  /\ MaxClock \in Nat
  /\ \A t \in Timeouts : t \div Ticks <= MaxClock
  /\ NoEntry \notin Subs

VARIABLES
  queue,        \* _queue of each subscription; a message has its rank and
                \*   whether _deserialize accepts it
  arrived,      \* history: the messages each subscription received
  stage,        \* "idle", "events" (in processEvents), "scan", "returned"
  request,      \* the wait_timeout of the call
  entries,      \* subscriptions->subscribers
  now,          \* system_clock since begin; it may be set back or forward
  spent,        \* history: milliseconds processEvents ran, up to the timeout
  ret,          \* what the last call returned
  next          \* the entry the executor looks at

waitVars ==
  <<queue, arrived, stage, request, entries, now, spent, ret, next>>

Message == [n : 1..MaxMessages, ok : BOOLEAN]

\* The timeout in milliseconds, nsec / 1000000 + sec * 1000: what is below a
\* millisecond is lost.  A wait_timeout of NULL gives 0, like a zero one.
Milliseconds(t) == t \div Ticks

\* The local variable end, since begin.
End == Milliseconds(request)

CanTake(s) == queue[s] # <<>>

WaitInit ==
  /\ queue = [s \in Subs |-> <<>>]
  /\ arrived = [s \in Subs |-> 0]
  /\ stage = "idle"
  /\ request = 0
  /\ entries = <<>>
  /\ now = 0
  /\ spent = 0
  /\ ret = "none"
  /\ next = 1

\* rmw_wait is called.
Call(e, t) ==
  /\ stage = "idle"
  /\ stage' = "events"
  /\ request' = t
  /\ entries' = e
  /\ now' = 0
  /\ spent' = 0
  /\ ret' = "none"
  /\ next' = 1
  /\ UNCHANGED <<queue, arrived>>

\* onData of a subscription, called by processEvents.
Deliver(s) ==
  /\ stage = "events"
  /\ arrived[s] < MaxMessages
  /\ arrived' = [arrived EXCEPT ![s] = @ + 1]
  /\ \E ok \in BOOLEAN :
       queue' = [queue EXCEPT ![s] = Append(@, [n |-> arrived'[s], ok |-> ok])]
  /\ UNCHANGED <<stage, request, entries, now, spent, ret, next>>

(***************************************************************************)
(* processEvents returns: with -1 after it has polled, with a positive     *)
(* timeout after it has run for all of it, even when a message came early. *)
(* system_clock may show anything then.                                    *)
(***************************************************************************)
ProcessEvents(t) ==
  /\ stage = "events"
  /\ stage' = "scan"
  /\ now' = t
  /\ spent' = IF spent < End THEN spent + End ELSE spent
  /\ UNCHANGED <<queue, arrived, request, entries, ret, next>>

\* Mutant of AnyReady: the loop is left after the first entry.
AnyReadyFirst == entries # <<>> /\ CanTake(entries[1])

AnyReady == \E k \in DOMAIN entries : CanTake(entries[k])

\* The second loop: its return is inside the body.
Cleared ==
  [k \in DOMAIN entries |->
     IF k = 1 /\ ~CanTake(entries[k]) THEN NoEntry ELSE entries[k]]

ReturnOk ==
  /\ stage = "scan"
  /\ AnyReady
  /\ entries' = Cleared
  /\ ret' = "OK"
  /\ stage' = "returned"
  /\ next' = 1
  /\ UNCHANGED <<queue, arrived, request, now, spent>>

\* Mutant of MoreTime: one millisecond more.
MoreTimeLate == now <= End

\* The condition of the outer loop.
MoreTime == now < End

RunAgain ==
  /\ stage = "scan"
  /\ ~AnyReady
  /\ MoreTime
  /\ stage' = "events"
  /\ UNCHANGED <<queue, arrived, request, entries, now, spent, ret, next>>

ReturnTimeout ==
  /\ stage = "scan"
  /\ ~AnyReady
  /\ ~MoreTime
  /\ ret' = "TIMEOUT"
  /\ stage' = "returned"
  /\ next' = 1
  /\ UNCHANGED <<queue, arrived, request, entries, now, spent>>

\* Mutant of Take: a message that is not accepted stays in the queue.
TakeKeepsRejected(s) ==
  queue' = IF CanTake(s) /\ Head(queue[s]).ok
             THEN [queue EXCEPT ![s] = Tail(@)] ELSE queue

\* take: nothing happens to an empty queue; a message is erased before it is
\* deserialized, and is gone when that fails.
Take(s) ==
  queue' = IF CanTake(s) THEN [queue EXCEPT ![s] = Tail(@)] ELSE queue

\* The executor takes once from every entry the call left in the wait set,
\* after a timeout too.
Dispatch ==
  /\ stage = "returned"
  /\ next <= Len(entries)
  /\ IF entries[next] = NoEntry THEN UNCHANGED queue ELSE Take(entries[next])
  /\ next' = next + 1
  /\ UNCHANGED <<arrived, stage, request, entries, now, spent, ret>>

DispatchDone ==
  /\ stage = "returned"
  /\ next > Len(entries)
  /\ stage' = "idle"
  /\ UNCHANGED <<queue, arrived, request, entries, now, spent, ret, next>>

WaitNext ==
  \/ \E e \in WaitSets, t \in Timeouts : Call(e, t)
  \/ \E s \in Subs : Deliver(s)
  \/ \E t \in 0..MaxClock : ProcessEvents(t)
  \/ ReturnOk
  \/ RunAgain
  \/ ReturnTimeout
  \/ Dispatch
  \/ DispatchDone

WaitSpec == WaitInit /\ [][WaitNext]_waitVars

(***************************************************************************)
(* Fairness: the thread goes on, its executor calls rmw_wait again, and    *)
(* nobody sets the clock back in every round: now and then it shows the    *)
(* end of the wait when processEvents returns.                             *)
(***************************************************************************)
WaitFairness ==
  /\ WF_waitVars(\E e \in WaitSets, t \in Timeouts : Call(e, t))
  /\ WF_waitVars(\E t \in 0..MaxClock : ProcessEvents(t))
  /\ SF_waitVars(\E t \in End..MaxClock : ProcessEvents(t))
  /\ WF_waitVars(ReturnOk)
  /\ WF_waitVars(RunAgain)
  /\ WF_waitVars(ReturnTimeout)
  /\ WF_waitVars(Dispatch)
  /\ WF_waitVars(DispatchDone)

WaitLiveSpec == WaitSpec /\ WaitFairness

-----------------------------------------------------------------------------
WaitTypeOK ==
  /\ queue \in [Subs -> Seq(Message)]
  /\ arrived \in [Subs -> 0..MaxMessages]
  /\ stage \in {"idle", "events", "scan", "returned"}
  /\ request \in Timeouts \cup {0}
  /\ entries \in Seq(Subs \cup {NoEntry})
  /\ now \in 0..MaxClock
  /\ spent \in Nat
  /\ ret \in {"none", "OK", "TIMEOUT"}
  /\ next \in 1..Len(entries) + 1

\* Some entry left in the wait set has a message, none that has one was cleared,
\* and the first entry is left exactly when it has one.  (The others may be left
\* without: rmw_wait.cpp:87.)
ReadyKept ==
  /\ \E k \in DOMAIN entries : entries[k] # NoEntry /\ CanTake(entries[k])
  /\ \E e \in WaitSets :
       /\ Len(e) = Len(entries)
       /\ \A k \in DOMAIN e :
            /\ entries[k] \in {e[k], NoEntry}
            /\ CanTake(e[k]) => entries[k] = e[k]
       /\ entries[1] = NoEntry <=> ~CanTake(e[1])

\* The call has waited for what it was asked, less the part of a millisecond that
\* the conversion drops.
WaitedEnough == spent * Ticks > request - Ticks

\* What rmw_wait returns is true.  RMW_RET_OK: the wait set it leaves leads to a
\* message and hides none.  RMW_RET_TIMEOUT: no subscription of the call has a
\* message, also not one that came in the last instant of processEvents, and the
\* wait was long enough even when the clock was set forward in between.
ReturnTrue ==
  /\ WaitTypeOK
  /\ stage = "returned" /\ next = 1 =>
       \/ ret = "OK" /\ ReadyKept
       \/ /\ ret = "TIMEOUT"
          /\ WaitedEnough
          /\ \A k \in DOMAIN entries : ~CanTake(entries[k])

\* Every call returns, although the end of the wait is read from a clock that
\* can be set back.
EveryCallReturns == stage = "events" ~> stage = "returned"

\* Every message is taken in the end, or refused by _deserialize and dropped,
\* wherever its subscription stands in the wait set and whatever entries without
\* a message rmw_wait leaves beside it.
EveryMessageHandled ==
  \A s \in Subs, n \in 1..MaxMessages :
    arrived[s] = n ~> \A k \in DOMAIN queue[s] : queue[s][k].n > n
=============================================================================
