------------------------------- MODULE Timers -------------------------------
(***************************************************************************)
(* The TimerManager of one EventLoop: a priority queue of timers and one   *)
(* timerfd, armed for the timer at the top.  The loop thread and another   *)
(* thread add and cancel timers; the loop handles the timerfd.             *)
(*                                                                         *)
(* Time is relative: left[t] is expiration_ - now, and Tick moves every    *)
(* timer and the timerfd one unit nearer.  The build modelled is the one   *)
(* without assertions: addTimer ends in assert(timer == nullptr), which no *)
(* call can satisfy.                                                       *)
(***************************************************************************)
EXTENDS Integers, Sequences, SequencesExt, FiniteSets

CONSTANTS MaxTimers,      \* bound on the timers of a behaviour
          Delays,         \* of runAfter(), and of runAt() relative to now
          Intervals,      \* of runEvery()
          MaxLate,        \* lateness is counted up to this bound
          Promptness      \* whether time waits while the loop has work to do

Timers == 1..MaxTimers    \* seq_: timers are numbered as they are made

ASSUME TimerAssumption ==
  /\ MaxTimers \in Nat /\ MaxLate \in Nat
  /\ Delays \subseteq Int /\ Intervals \subseteq Nat \ {0}
  /\ Promptness \subseteq BOOLEAN

VARIABLES prompt,         \* the promptness of this behaviour
          made,           \* how many timers have been made
          phase,          \* where each timer is, see Phases
          left, every,    \* expiration_, and interval_ or 0
          deleted,        \* timers with Delete_ set
          fired,          \* how often the callback was run, 2 for more
          fd,             \* the timerfd: time left or 0 (disarmed), readable
          pc,             \* where the loop thread is, see Locations
          hot,            \* epoll_wait reported the timerfd
          todo,           \* what is left of `expired' in handleRead
          lag,            \* time since `now' of handleRead
          functors, batch

timerVars == <<made, phase, left, every, deleted, fired>>
vars == <<prompt, timerVars, fd, pc, hot, todo, lag, functors, batch>>

(* "adding": held by a queued functor; "queued": in timers_; "expired": in *)
(* the vector of handleRead; "over": destroyed.                            *)
Phases == {"unmade", "adding", "queued", "expired", "over"}

(* "io": handlers of other channels; "expired" and "callback": handleRead  *)
(* between and inside callbacks; "run": runFunctors.                       *)
Locations == {"poll", "io", "expired", "callback", "run"}

In(p) == {t \in Timers : phase[t] = p}
queued == In("queued")

Init ==
  /\ prompt \in Promptness
  /\ made = 0
  /\ phase = [t \in Timers |-> "unmade"]
  /\ left = [t \in Timers |-> 0] /\ every = [t \in Timers |-> 0]
  /\ deleted = {} /\ fired = [t \in Timers |-> 0]
  /\ fd = [left |-> 0, readable |-> FALSE]
  /\ pc = "poll" /\ hot = FALSE /\ todo = <<>> /\ lag = 0
  /\ functors = <<>> /\ batch = <<>>

-----------------------------------------------------------------------------
(* The queue and the timerfd.                                              *)

\* TimerCmp, with expirations l.
Before(l, a, b) == l[a] < l[b] \/ (l[a] = l[b] /\ a < b)
Top(q, l) == CHOOSE t \in q : \A u \in q \ {t} : Before(l, t, u)

\* timerfd_settime with e left: a time to come arms, zero disarms, the past is
\* EINVAL and changes nothing.  In a unit of time e = 0 may be either.
ResetTimerFd(e) ==
  \/ e > 0 /\ fd' = [left |-> e, readable |-> FALSE]
  \/ e = 0 /\ fd' = [left |-> 0, readable |-> FALSE]
  \/ e <= 0 /\ fd' = fd

\* insert(): whether t is due before all that are queued.  The mutant compares
\* with an empty queue only.
EarliestChanged_Mut(t) == queued = {}
EarliestChanged(t) ==
  queued = {} \/ left'[t] < left[Top(queued, left)]

AddTimerInLoop(t) ==
  /\ phase' = [phase EXCEPT ![t] = "queued"]
  /\ IF EarliestChanged(t) THEN ResetTimerFd(left'[t]) ELSE UNCHANGED fd

\* The weak_ptr of a destroyed timer has expired.
CancelInLoop(t) ==
  deleted' = IF phase[t] = "over" THEN deleted ELSE deleted \cup {t}

-----------------------------------------------------------------------------
(* runAt, runAfter, runEvery and cancel, by the loop thread in the handler *)
(* of another channel or in a timer's callback, or by another thread.      *)

InLoopThread == pc \in {"io", "callback"}

NewTimer(delay, interval) ==
  /\ made < MaxTimers
  /\ made' = made + 1
  /\ left' = [left EXCEPT ![made'] = delay]
  /\ every' = [every EXCEPT ![made'] = interval]

AddTimer(delay, interval) ==
  /\ NewTimer(delay, interval)
  /\ \/ InLoopThread /\ AddTimerInLoop(made') /\ UNCHANGED functors
     \/ /\ phase' = [phase EXCEPT ![made'] = "adding"]
        /\ functors' = Append(functors, [op |-> "add", t |-> made'])
        /\ UNCHANGED fd
  /\ UNCHANGED <<prompt, deleted, fired, pc, hot, todo, lag, batch>>

\* The user cancels a timer at most once.
MayCancel(t) ==
  /\ phase[t] \notin {"unmade", "over"} /\ t \notin deleted
  /\ [op |-> "cancel", t |-> t] \notin ToSet(functors) \cup ToSet(batch)

Cancel(t) ==
  /\ MayCancel(t)
  /\ \/ InLoopThread /\ CancelInLoop(t) /\ UNCHANGED functors
     \/ /\ functors' = Append(functors, [op |-> "cancel", t |-> t])
        /\ UNCHANGED deleted
  /\ UNCHANGED <<prompt, made, phase, left, every, fired, fd, pc, hot, todo, lag, batch>>

-----------------------------------------------------------------------------
(* The loop thread.                                                        *)

WakeUp ==
  /\ pc = "poll" /\ pc' = "io"
  /\ hot' = fd.readable
  /\ UNCHANGED <<prompt, timerVars, fd, todo, lag, functors, batch>>

Poll == (fd.readable \/ functors # <<>>) /\ WakeUp
PollOther == ~fd.readable /\ functors = <<>> /\ WakeUp

\* The sequences of S in the order of the priority queue: there is one.
InOrder(S) ==
  {s \in [1..Cardinality(S) -> S] : \A i, j \in 1..Cardinality(S) : i < j => Before(left, s[i], s[j])}

\* getExpired() takes what is due from the queue, and drops the cancelled.
GetExpired(due) ==
  /\ phase' = [t \in Timers |-> IF t \in due \ deleted THEN "expired"
                                ELSE IF t \in due THEN "over" ELSE phase[t]]
  /\ todo' \in InOrder(due \ deleted)

HandleRead ==
  /\ pc = "io" /\ hot
  /\ hot' = FALSE
  /\ fd' = [fd EXCEPT !.readable = FALSE]
  /\ lag' = 0
  /\ GetExpired({t \in queued : left[t] <= 0})
  /\ pc' = "expired"
  /\ UNCHANGED <<prompt, made, left, every, deleted, fired, functors, batch>>

\* The mutant does not look at Delete_ again.
Runs_Mut(t) == TRUE
Runs(t) == t \notin deleted

NextExpired ==
  LET t == Head(todo) IN
  /\ pc = "expired" /\ todo # <<>>
  /\ todo' = Tail(todo)
  /\ IF Runs(t)
     THEN pc' = "callback" /\ fired' = [fired EXCEPT ![t] = IF @ = 2 THEN 2 ELSE @ + 1]
     ELSE UNCHANGED <<pc, fired>>
  /\ UNCHANGED <<prompt, made, phase, left, every, deleted, fd, hot, lag, functors, batch>>

CallbackReturns ==
  /\ pc = "callback" /\ pc' = "expired"
  /\ UNCHANGED <<prompt, timerVars, fd, hot, todo, lag, functors, batch>>

\* reset(): expired timers that repeat go back with restart(now), cancelled ones
\* at the top are dropped, the timerfd is armed for the rest.
Restarts == {t \in In("expired") \ deleted : every[t] > 0}

\* The mutant leaves the timerfd alone.
Rearm_Mut(q, l) == UNCHANGED fd
Rearm(q, l) == IF q = {} THEN UNCHANGED fd ELSE ResetTimerFd(l[Top(q, l)])

Reset ==
  LET again == Restarts
      l == [t \in Timers |-> IF t \in again THEN every[t] - lag ELSE left[t]]
      all == queued \cup again
      dropped == {t \in all \cap deleted : \A u \in all \ deleted : Before(l, t, u)}
  IN
  /\ pc = "expired" /\ todo = <<>>
  /\ pc' = "io" /\ lag' = 0
  /\ phase' = [t \in Timers |-> IF t \in all \ dropped THEN "queued"
                                ELSE IF t \in dropped \cup In("expired") THEN "over"
                                ELSE phase[t]]
  /\ left' = l
  /\ Rearm(all \ dropped, l)
  /\ UNCHANGED <<prompt, made, every, deleted, fired, hot, todo, functors, batch>>

RunFunctors ==
  /\ pc = "io" /\ ~hot
  /\ pc' = "run"
  /\ batch' = functors /\ functors' = <<>>
  /\ UNCHANGED <<prompt, timerVars, fd, hot, todo, lag>>

RunFunctor ==
  LET f == Head(batch) IN
  /\ pc = "run" /\ batch # <<>>
  /\ batch' = Tail(batch)
  /\ \/ f.op = "add" /\ UNCHANGED <<left, deleted>> /\ AddTimerInLoop(f.t)
     \/ f.op = "cancel" /\ CancelInLoop(f.t) /\ UNCHANGED <<left, phase, fd>>
  /\ UNCHANGED <<prompt, made, every, fired, pc, hot, todo, lag, functors>>

EndFunctors_Mut ==
  /\ pc = "run"
  /\ pc' = "poll"
  /\ UNCHANGED <<prompt, timerVars, fd, hot, todo, lag, functors, batch>>
EndFunctors ==
  /\ pc = "run" /\ batch = <<>>
  /\ pc' = "poll"
  /\ UNCHANGED <<prompt, timerVars, fd, hot, todo, lag, functors, batch>>

-----------------------------------------------------------------------------
(* Time.                                                                   *)

Idle == pc = "poll" /\ ~fd.readable /\ functors = <<>>

Tick ==
  /\ prompt => Idle
  /\ left' = [t \in Timers |-> IF phase[t] \in {"unmade", "over"} \/ left[t] = -MaxLate
                               THEN left[t] ELSE left[t] - 1]
  /\ fd' = IF fd.left = 0 THEN fd
           ELSE [left |-> fd.left - 1, readable |-> fd.readable \/ fd.left = 1]
  /\ lag' = IF pc \in {"expired", "callback"} /\ lag < MaxLate THEN lag + 1 ELSE lag
  /\ UNCHANGED <<prompt, made, phase, every, deleted, fired, pc, hot, todo, functors, batch>>

-----------------------------------------------------------------------------

LoopStep ==
  \/ Poll \/ HandleRead \/ NextExpired \/ CallbackReturns \/ Reset
  \/ RunFunctors \/ RunFunctor \/ EndFunctors

Next ==
  \/ LoopStep \/ PollOther \/ Tick
  \/ \E d \in Delays : AddTimer(d, 0)
  \/ \E i \in Intervals : AddTimer(i, i)
  \/ \E t \in Timers : Cancel(t)

\* The loop thread runs, callbacks return, and time passes: other events may keep
\* the loop busy, yet not at every moment for ever.
Spec == Init /\ [][Next]_vars /\ WF_vars(LoopStep) /\ SF_vars(Tick)

-----------------------------------------------------------------------------
(* Properties.                                                             *)

\* Types; the vectors local to handleRead and runFunctors are empty outside.
TypeOK ==
  /\ made \in 0..MaxTimers
  /\ phase \in [Timers -> Phases]
  /\ left \in [Timers -> Int] /\ every \in [Timers -> Intervals \cup {0}]
  /\ deleted \subseteq 1..made /\ fired \in [Timers -> 0..2]
  /\ fd \in [left : Nat, readable : BOOLEAN]
  /\ pc \in Locations /\ hot \in BOOLEAN /\ lag \in 0..MaxLate
  /\ hot => pc = "io"
  /\ pc \notin {"expired", "callback"} => In("expired") = {} /\ todo = <<>>
  /\ pc # "run" => batch = <<>>

Live(t) == phase[t] # "unmade" /\ t \notin deleted

\* While the loop may sleep, the timerfd is armed for the timer at the top of
\* the queue, or has reported it: a loop without work does not oversleep.
ArmedForTop ==
  /\ TypeOK
  /\ prompt /\ queued # {} /\ pc \notin {"expired", "callback"} =>
       fd.readable \/ fd.left = left[Top(queued, left)]

\* No timer of a prompt loop is late.
NeverLate ==
  prompt => \A t \in queued \cup In("expired") : Live(t) => left[t] >= 0

\* A cancelled timer does not run again, not even when a callback cancels a
\* timer that expired together with it.  A callback runs no earlier than due, and
\* that of a timer that does not repeat runs once.
RunsAreDue ==
  [][\A t \in Timers : fired'[t] # fired[t] =>
       /\ t \notin deleted /\ left[t] <= 0
       /\ every[t] = 0 => fired[t] = 0]_vars

\* A timer that is not cancelled expires, and expires again each time it is put
\* back in the queue: of a prompt loop, and of any loop.
Expires(t) == (phase[t] \in {"adding", "queued"}) ~> (phase[t] = "expired" \/ ~Live(t))
PromptTimersExpire == prompt => \A t \in Timers : Expires(t)
TimersExpire == \A t \in Timers : Expires(t)
=============================================================================
