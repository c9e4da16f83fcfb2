----------------------------- MODULE TimerQueue -----------------------------
(***************************************************************************)
(* TimerQueue: the timers of one EventLoop.  Timers are added and          *)
(* cancelled from the loop (also from inside timer callbacks) and from     *)
(* other threads, whose calls reach the loop as functors; one timerfd is   *)
(* armed for the earliest timer.  Time advances in milliseconds, the       *)
(* shortest delay resetTimerfd() sets.                                     *)
(*                                                                         *)
(* A timer is its sequence number.  handleRead() is split at every         *)
(* callback, since a callback may add and cancel timers.                   *)
(***************************************************************************)
EXTENDS Naturals, Sequences, FiniteSets

CONSTANTS
  MaxTimers,  \* bound: timers created in one behaviour
  Intervals,  \* intervals a timer can be created with; 0 means one shot
  Delays,     \* delays to the first expiration
  MaxTime,    \* bound: no timer is added or cancelled from here on
  MaxCancels  \* bound: calls of cancel()

VARIABLES
  now,         \* steady_clock
  created,     \* Timer::s_numCreated
  expiration,  \* Timer::expiration_
  interval,    \* Timer::interval_
  canceled,    \* timers whose canceled_ is set
  timers,      \* timers_, the ordering
  owned,       \* timersOwned_
  active,      \* activeExpiredTimers_, the timers of this round
  canceling,   \* cancelingTimers_
  pendingAdd,  \* pendingAddSequences_
  pendingCancel,
  calling,     \* callingExpiredTimers_
  readAt,      \* the time handleRead() took for this round
  due,         \* timers of this round not yet visited
  running,     \* the timer whose callback is executing, or 0
  functors,    \* addTimerInLoop and cancelInLoop calls of other threads
  armed,       \* when the timerfd fires, or 0 when it is disarmed
  cancels,     \* calls of cancel() so far
  cancelled    \* history: existing timers for which cancelInLoop() returned

clock == <<now, created, expiration, interval>>
round == <<active, calling, readAt, due, running>>
queue == <<canceled, timers, owned, canceling, pendingAdd, pendingCancel, armed, cancelled>>
vars  == <<clock, round, queue, functors, cancels>>

Ids == 1..MaxTimers
Disarmed == 0

Init ==
  /\ now = 1 /\ created = 0
  /\ expiration = [t \in Ids |-> 0] /\ interval = [t \in Ids |-> 0]
  /\ canceled = {} /\ timers = {} /\ owned = {} /\ active = {} /\ canceling = {}
  /\ pendingAdd = {} /\ pendingCancel = {}
  /\ calling = FALSE /\ readAt = 0 /\ due = {} /\ running = 0
  /\ functors = <<>> /\ armed = Disarmed /\ cancels = 0 /\ cancelled = {}

-----------------------------------------------------------------------------
(* The order of timers_: by expiration, then by sequence number.            *)
Before(exp, s, t) == exp[s] < exp[t] \/ (exp[s] = exp[t] /\ s <= t)
Earliest(S, exp)  == CHOOSE t \in S : \A s \in S : Before(exp, t, s)

(* resetTimerfd(): the delay is at least one millisecond.                   *)
Reset(when) == IF when < now + 1 THEN now + 1 ELSE when

(* The timerfd after the set of timers was changed to S.                    *)
ResetToEarliest(S, exp) == IF S = {} THEN Disarmed ELSE Reset(exp[Earliest(S, exp)])

-----------------------------------------------------------------------------
(* Mutant of AddTimerInLoop: the timerfd is set only for the first timer.   *)
AddTimerArmsOnce(t, when) ==
  /\ pendingAdd' = pendingAdd \ {t}
  /\ IF t \in pendingCancel
     THEN pendingCancel' = pendingCancel \ {t} /\ UNCHANGED <<timers, owned, armed>>
     ELSE /\ timers' = timers \cup {t}
          /\ owned' = owned \cup {t}
          /\ armed' = IF timers = {} THEN Reset(when) ELSE armed
          /\ UNCHANGED pendingCancel
  /\ UNCHANGED <<canceled, canceling, cancelled>>

(* addTimerInLoop().                                                        *)
AddTimerInLoop(t, when) ==
  /\ pendingAdd' = pendingAdd \ {t}
  /\ IF t \in pendingCancel
     THEN pendingCancel' = pendingCancel \ {t} /\ UNCHANGED <<timers, owned, armed>>
     ELSE /\ timers' = timers \cup {t}
          /\ owned' = owned \cup {t}
          /\ armed' = IF timers = {} \/ when < expiration[Earliest(timers, expiration)]
                      THEN Reset(when) ELSE armed
          /\ UNCHANGED pendingCancel
  /\ UNCHANGED <<canceled, canceling, cancelled>>

(* Mutant of CancelInLoop: a timer of this round is just forgotten by the   *)
(* ordering.                                                                *)
CancelUnmarked(t) ==
  /\ \/ /\ t \in owned /\ calling /\ t \in active
        /\ UNCHANGED <<canceled, canceling, timers, owned, armed, pendingCancel>>
     \/ /\ t \in owned /\ ~(calling /\ t \in active)
        /\ timers' = timers \ {t} /\ owned' = owned \ {t}
        /\ armed' = IF timers # {} /\ t = Earliest(timers, expiration)
                    THEN ResetToEarliest(timers', expiration) ELSE armed
        /\ UNCHANGED <<canceled, canceling, pendingCancel>>
     \/ /\ t \notin owned
        /\ pendingCancel' = IF t \in pendingAdd THEN pendingCancel \cup {t} ELSE pendingCancel
        /\ UNCHANGED <<canceled, canceling, timers, owned, armed>>
  /\ cancelled' = IF t \in owned \cup pendingAdd THEN cancelled \cup {t} ELSE cancelled
  /\ UNCHANGED pendingAdd

(* cancelInLoop(): a timer of this round is marked; another one is removed  *)
(* at once; one whose addition is on its way is remembered.                 *)
CancelInLoop(t) ==
  /\ \/ /\ t \in owned /\ calling /\ t \in active
        /\ canceled' = canceled \cup {t} /\ canceling' = canceling \cup {t}
        /\ UNCHANGED <<timers, owned, armed, pendingCancel>>
     \/ /\ t \in owned /\ ~(calling /\ t \in active)
        /\ timers' = timers \ {t} /\ owned' = owned \ {t}
        /\ armed' = IF timers # {} /\ t = Earliest(timers, expiration)
                    THEN ResetToEarliest(timers', expiration) ELSE armed
        /\ UNCHANGED <<canceled, canceling, pendingCancel>>
     \/ /\ t \notin owned
        /\ pendingCancel' = IF t \in pendingAdd THEN pendingCancel \cup {t} ELSE pendingCancel
        /\ UNCHANGED <<canceled, canceling, timers, owned, armed>>
  /\ cancelled' = IF t \in owned \cup pendingAdd THEN cancelled \cup {t} ELSE cancelled
  /\ UNCHANGED pendingAdd

-----------------------------------------------------------------------------
(* The callers.  The loop thread calls from outside handleRead() or from a  *)
(* callback.                                                                *)

LoopMayCall == ~calling \/ running # 0

(* Timer::Timer(), for a delay and an interval.                             *)
NewTimer(delay, iv) ==
  /\ created < MaxTimers /\ now < MaxTime
  /\ created' = created + 1
  /\ expiration' = [expiration EXCEPT ![created + 1] = now + delay]
  /\ interval' = [interval EXCEPT ![created + 1] = iv]
  /\ UNCHANGED now

(* addTimer() in the loop thread.                                           *)
AddFromLoop(delay, iv) ==
  /\ LoopMayCall /\ NewTimer(delay, iv)
  /\ AddTimerInLoop(created + 1, now + delay)
  /\ UNCHANGED <<round, functors, cancels>>

(* addTimer() in another thread.                                            *)
AddFromOther(delay, iv) ==
  /\ NewTimer(delay, iv)
  /\ pendingAdd' = pendingAdd \cup {created + 1}
  /\ functors' = Append(functors, [op |-> "add", timer |-> created + 1])
  /\ UNCHANGED <<round, canceled, timers, owned, canceling, pendingCancel, armed, cancelled, cancels>>

CountCancel == cancels < MaxCancels /\ now < MaxTime /\ cancels' = cancels + 1

(* cancel() in the loop thread.                                             *)
CancelFromLoop(t) ==
  /\ LoopMayCall /\ t <= created /\ CountCancel
  /\ CancelInLoop(t)
  /\ UNCHANGED <<clock, round, functors>>

(* cancel() in another thread.                                              *)
CancelFromOther(t) ==
  /\ t <= created /\ CountCancel
  /\ functors' = Append(functors, [op |-> "cancel", timer |-> t])
  /\ UNCHANGED <<clock, round, queue>>

(* The loop runs the next functor.                                          *)
RunFunctor ==
  /\ ~calling /\ functors # <<>>
  /\ functors' = Tail(functors)
  /\ LET f == Head(functors) IN
     \/ f.op = "add" /\ AddTimerInLoop(f.timer, expiration[f.timer])
     \/ f.op = "cancel" /\ CancelInLoop(f.timer)
  /\ UNCHANGED <<clock, round, cancels>>

-----------------------------------------------------------------------------
(* handleRead(): the timerfd is read, getExpired() takes the round.         *)
HandleRead ==
  /\ ~calling /\ armed # Disarmed /\ armed <= now
  /\ LET expired == {t \in timers : expiration[t] <= now} IN
     /\ timers' = timers \ expired
     /\ active' = expired /\ due' = expired
  /\ calling' = TRUE /\ readAt' = now /\ canceling' = {} /\ armed' = Disarmed
  /\ UNCHANGED <<clock, running, canceled, owned, pendingAdd, pendingCancel, cancelled, functors, cancels>>

(* The callback of the next timer of the round runs, unless it was          *)
(* cancelled or removed.                                                    *)
CallNext ==
  /\ calling /\ due # {}
  /\ LET t == Earliest(due, expiration) IN
     /\ due' = due \ {t}
     /\ running' = IF t \in owned /\ t \notin canceled THEN t ELSE 0
  /\ UNCHANGED <<clock, active, calling, readAt, queue, functors, cancels>>

(* Mutant of FinishRound: with every timer of the round cancelled the       *)
(* function returns before it leaves the round.                             *)
FinishRoundReturnsEarly ==
  /\ calling /\ due = {} /\ active \ (canceling \cup canceled) # {}
  /\ LET again == {t \in active \cap owned : t \notin canceling \cup canceled /\ interval[t] > 0} IN
     /\ owned' = (owned \ active) \cup again
     /\ expiration' = [t \in Ids |-> IF t \in again THEN readAt + interval[t] ELSE expiration[t]]
     /\ timers' = timers \cup again
  /\ armed' = ResetToEarliest(timers', expiration')
  /\ calling' = FALSE /\ active' = {} /\ canceling' = {} /\ running' = 0
  /\ UNCHANGED <<now, created, interval, readAt, due, canceled, pendingAdd, pendingCancel, cancelled, functors, cancels>>

(* The last callback returned: repeating timers start again, the others and *)
(* the cancelled ones are deleted, the timerfd is set.                      *)
FinishRound ==
  /\ calling /\ due = {}
  /\ LET again == {t \in active \cap owned : t \notin canceling \cup canceled /\ interval[t] > 0} IN
     /\ owned' = (owned \ active) \cup again
     /\ expiration' = [t \in Ids |-> IF t \in again THEN readAt + interval[t] ELSE expiration[t]]
     /\ timers' = timers \cup again
  /\ armed' = ResetToEarliest(timers', expiration')
  /\ calling' = FALSE /\ active' = {} /\ canceling' = {} /\ running' = 0
  /\ UNCHANGED <<now, created, interval, readAt, due, canceled, pendingAdd, pendingCancel, cancelled, functors, cancels>>

(* After MaxTime time passes only while the loop waits for a timer that     *)
(* expires by then.                                                         *)
Tick ==
  /\ \/ now < MaxTime
     \/ ~calling /\ functors = <<>> /\ armed > now /\ \E t \in timers : expiration[t] <= MaxTime
  /\ now' = now + 1
  /\ UNCHANGED <<created, expiration, interval, round, queue, functors, cancels>>

Loop == RunFunctor \/ HandleRead \/ CallNext \/ FinishRound
Calls ==
  \/ \E d \in Delays, iv \in Intervals : AddFromLoop(d, iv) \/ AddFromOther(d, iv)
  \/ \E t \in Ids : CancelFromLoop(t) \/ CancelFromOther(t)
Next == Loop \/ Calls \/ Tick

Spec == Init /\ [][Next]_vars

(* Time passes and the loop polls the timerfd and runs its functors.        *)
FairSpec == Spec /\ WF_vars(Loop) /\ WF_vars(Tick)
-----------------------------------------------------------------------------
(* The queue's books, at every step.  The two containers agree: outside     *)
(* handleRead() the ordering holds exactly the owned timers; inside, what   *)
(* is missing from it belongs to the round.  A remembered cancellation has  *)
(* an addition under way to consume it, so that pendingCancel_ cannot grow. *)
(* Outside handleRead() the timerfd fires no later than the earliest timer, *)
(* or in a millisecond if that one is already due; with no timer it is      *)
(* disarmed.                                                                *)
TimersAreKept ==
  /\ timers \subseteq owned
  /\ owned \ timers \subseteq active
  /\ \A t \in pendingCancel : \E i \in 1..Len(functors) : functors[i] = [op |-> "add", timer |-> t]
  /\ ~calling =>
       /\ timers = owned
       /\ IF timers = {} THEN armed = Disarmed
          ELSE /\ armed # Disarmed
               /\ \A t \in timers : armed <= expiration[t] \/ armed <= now + 1

(* Once cancelInLoop() has returned for an existing timer its callback never *)
(* starts again, whether the timer was waiting, due in the same round,      *)
(* repeating, or still on its way from another thread.                      *)
CancelledNeverFires ==
  [][\A t \in Ids : running' = t /\ running # t => t \notin cancelled]_vars

(* A timer that expires within the bound is eventually run or removed.      *)
DueTimersLeave ==
  \A t \in Ids : (t \in timers /\ expiration[t] <= MaxTime)
                 ~> ~(t \in timers /\ expiration[t] <= MaxTime)
=============================================================================
