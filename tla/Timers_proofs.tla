---------------------------- MODULE Timers_proofs ----------------------------
(***************************************************************************)
(* Proofs about Timers, for any number of timers and any delays and        *)
(* intervals: callbacks run when due and as often as they should, and the  *)
(* timers of a prompt loop are never late, since the timerfd is armed for  *)
(* the first of them.                                                      *)
(***************************************************************************)
EXTENDS Timers, FiniteSetTheorems, WellFoundedInduction, TLAPS

(***************************************************************************)
(* The top of the queue.                                                   *)
(***************************************************************************)
LEMMA LeastNat ==
  ASSUME NEW T \in SUBSET Nat, T # {}
  PROVE  \E x \in T : \A y \in T : x <= y
<1> DEFINE R == OpToRel(<, Nat)
<1>1. IsWellFoundedOn(R, Nat)
  BY NatLessThanWellFounded
<1>2. \A x, y \in Nat : <<x, y>> \in R <=> x < y
  BY DEF OpToRel
<1> HIDE DEF R
<1>3. PICK x \in T : \A y \in T : ~(<<y, x>> \in R)
  BY <1>1, WFMin
<1> SUFFICES ASSUME NEW y \in T PROVE x <= y
  BY <1>3
<1>4. x \in Nat /\ y \in Nat /\ ~(y < x)
  BY <1>2, <1>3
<1> QED
  BY <1>4

First(q, l, t) == t \in q /\ \A u \in q \ {t} : Before(l, t, u)

\* Every queue has a first timer: a smallest k for which 1..k had a subset
\* without one would make a contradiction.
LEMMA FirstExists ==
  ASSUME NEW l \in [Timers -> Int], NEW q \in SUBSET Timers, q # {}
  PROVE  \E t \in q : First(q, l, t)
<1> DEFINE Bad == {k \in 0..MaxTimers :
                     \E p \in SUBSET (1..k) : p # {} /\ \A t \in p : ~First(p, l, t)}
<1>0. MaxTimers \in Nat
  BY TimerAssumption
<1>1. Bad = {}
  <2> SUFFICES ASSUME Bad # {} PROVE FALSE
    OBVIOUS
  <2>1. Bad \in SUBSET Nat
    BY <1>0
  <2>2. PICK k \in Bad : \A j \in Bad : k <= j
    BY <2>1, LeastNat
  <2>3. k \in 0..MaxTimers
    OBVIOUS
  <2>4. PICK p \in SUBSET (1..k) : p # {} /\ \A t \in p : ~First(p, l, t)
    OBVIOUS
  <2> DEFINE r == p \ {k}
  <2>5. k - 1 \notin Bad
    BY <2>1, <2>2, <2>3
  <2>6. k - 1 \in 0..MaxTimers /\ r \in SUBSET (1..(k - 1))
    <3>1. \A t \in p : t \in Nat /\ 1 <= t /\ t <= k
      BY <1>0, <2>3, <2>4
    <3>2. k \in Nat /\ k >= 1 /\ k <= MaxTimers
      <4>1. PICK t \in p : TRUE
        BY <2>4
      <4>2. t \in Nat /\ 1 <= t /\ t <= k
        BY <3>1, <4>1
      <4>3. k \in Nat /\ k <= MaxTimers
        BY <1>0, <2>3
      <4> QED
        BY <4>2, <4>3
    <3>3. \A t \in r : t \in 1..(k - 1)
      BY <3>1, <3>2
    <3> QED
      BY <1>0, <3>2, <3>3
  <2>7. CASE r = {}
    <3>1. k \in p /\ p \ {k} = {}
      BY <2>4, <2>7
    <3>2. First(p, l, k)
      BY <3>1 DEF First
    <3> QED
      BY <2>4, <3>1, <3>2
  <2>8. CASE r # {}
    <3>1. PICK t \in r : First(r, l, t)
      BY <2>5, <2>6, <2>8
    <3>2. t \in p /\ p \subseteq r \cup {k} /\ t \in Timers /\ l[t] \in Int /\ t < k
      BY <1>0, <2>3, <2>6, <3>1 DEF Timers
    <3>3. CASE k \notin p
      <4>1. First(p, l, t)
        BY <3>1, <3>2, <3>3 DEF First
      <4> QED
        BY <2>4, <3>2, <4>1
    <3>4. CASE k \in p /\ Before(l, t, k)
      <4>1. First(p, l, t)
        BY <3>1, <3>2, <3>4 DEF First
      <4> QED
        BY <2>4, <3>2, <4>1
    <3>5. CASE k \in p /\ ~Before(l, t, k)
      <4>1. k \in Timers /\ l[k] \in Int /\ l[k] < l[t]
        BY <1>0, <2>3, <2>4, <3>2, <3>5 DEF Before, Timers
      <4>2. ASSUME NEW u \in p \ {k} PROVE Before(l, k, u)
        <5>1. u \in r /\ u \in Timers /\ l[u] \in Int
          BY <1>0, <2>3, <2>4, <4>2 DEF Timers
        <5>2. u = t \/ Before(l, t, u)
          BY <3>1, <5>1 DEF First
        <5> QED
          BY <3>2, <4>1, <5>1, <5>2 DEF Before
      <4>3. First(p, l, k)
        BY <3>5, <4>2 DEF First
      <4> QED
        BY <2>4, <3>5, <4>3
    <3> QED
      BY <3>3, <3>4, <3>5
  <2> QED
    BY <2>7, <2>8
<1>2. MaxTimers \in 0..MaxTimers /\ q \in SUBSET (1..MaxTimers)
  BY <1>0 DEF Timers
<1> QED
  BY <1>1, <1>2

LEMMA TopFacts ==
  ASSUME NEW l \in [Timers -> Int], NEW q \in SUBSET Timers, q # {}
  PROVE  /\ Top(q, l) \in q /\ l[Top(q, l)] \in Int
         /\ \A u \in q : l[Top(q, l)] <= l[u]
<1>1. First(q, l, Top(q, l))
  <2>1. \E t \in q : \A u \in q \ {t} : Before(l, t, u)
    BY FirstExists DEF First
  <2> QED
    BY <2>1 DEF First, Top
<1>2. \A u \in q : l[u] \in Int
  OBVIOUS
<1> QED
  BY <1>1, <1>2 DEF First, Before

\* getExpired takes each timer once.
LEMMA InOrderFacts ==
  ASSUME NEW S \in SUBSET Timers, left \in [Timers -> Int], NEW s \in InOrder(S)
  PROVE  /\ s \in Seq(S)
         /\ \A i, j \in DOMAIN s : s[i] = s[j] => i = j
<1>1. Cardinality(S) \in Nat
  <2>1. IsFiniteSet(Timers)
    BY FS_Interval, TimerAssumption DEF Timers
  <2> QED
    BY <2>1, FS_Subset, FS_CardinalityType
<1> DEFINE n == Cardinality(S)
<1>2. s \in [1..n -> S] /\ \A i, j \in 1..n : i < j => Before(left, s[i], s[j])
  BY DEF InOrder
<1> HIDE DEF n
<1>3. n \in Nat
  BY <1>1 DEF n
<1>4. \A i \in 1..n : s[i] \in Timers /\ left[s[i]] \in Int /\ ~Before(left, s[i], s[i])
  <2> SUFFICES ASSUME NEW i \in 1..n
               PROVE  s[i] \in Timers /\ left[s[i]] \in Int /\ ~Before(left, s[i], s[i])
    OBVIOUS
  <2>1. s[i] \in Timers /\ s[i] \in Int /\ left[s[i]] \in Int
    <3>1. s[i] \in S
      BY <1>2
    <3>2. Timers \subseteq Int
      BY TimerAssumption DEF Timers
    <3>3. s[i] \in Timers
      BY <3>1
    <3> QED
      BY <3>2, <3>3
  <2> QED
    BY <2>1 DEF Before
<1>5. \A i, j \in 1..n : s[i] = s[j] => i = j
  <2> SUFFICES ASSUME NEW i \in 1..n, NEW j \in 1..n, s[i] = s[j] PROVE i = j
    OBVIOUS
  <2>1. ~(i < j) /\ ~(j < i)
    BY <1>2, <1>4
  <2> QED
    BY <2>1, <1>3
<1> QED
  BY <1>2, <1>3, <1>5

(***************************************************************************)
(* Sequences.                                                              *)
(***************************************************************************)
LEMMA AppendFacts ==
  ASSUME NEW S, NEW s \in Seq(S), NEW c \in S
  PROVE  /\ Append(s, c) \in Seq(S)
         /\ \A i \in DOMAIN s : i \in DOMAIN Append(s, c) /\ Append(s, c)[i] = s[i]
         /\ \A i \in DOMAIN Append(s, c) : i \in DOMAIN s \/ i = Len(s) + 1
         /\ Append(s, c)[Len(s) + 1] = c /\ Len(s) + 1 \in DOMAIN Append(s, c)
  OBVIOUS

LEMMA TailFacts ==
  ASSUME NEW S, NEW s \in Seq(S), s # <<>>
  PROVE  /\ Head(s) \in S /\ Head(s) = s[1] /\ 1 \in DOMAIN s
         /\ Tail(s) \in Seq(S)
         /\ \A i \in DOMAIN Tail(s) : i + 1 \in DOMAIN s /\ Tail(s)[i] = s[i + 1]
                                      /\ i \in Nat /\ i + 1 # 1
         /\ \A i \in DOMAIN s : i = 1 \/ (i - 1 \in DOMAIN Tail(s) /\ Tail(s)[i - 1] = s[i])
  OBVIOUS

(***************************************************************************)
(* The invariant that callbacks depend on.                                 *)
(***************************************************************************)
\* seq_ grows by one: the timers that were made are the first ones.
Numbered == \A t \in Timers : phase[t] = "unmade" <=> t > made

Functor == [op : {"add", "cancel"}, t : Timers]

\* A timer is added by one functor, and waits in it until then.
AddOnce(s) ==
  /\ s \in Seq(Functor)
  /\ \A i \in DOMAIN s : s[i].t <= made /\ (s[i].op = "add" => phase[s[i].t] = "adding")
  /\ \A i, j \in DOMAIN s : s[i].op = "add" /\ s[j].op = "add" /\ s[i].t = s[j].t => i = j
Apart ==
  \A i \in DOMAIN functors, j \in DOMAIN batch :
    functors[i].op = "add" /\ batch[j].op = "add" => functors[i].t # batch[j].t
Waits ==
  \A t \in Timers : phase[t] = "adding" =>
    \/ \E i \in DOMAIN functors : functors[i] = [op |-> "add", t |-> t]
    \/ \E i \in DOMAIN batch : batch[i] = [op |-> "add", t |-> t]

\* What handleRead has still to run is due, and each timer is there once.
Walk ==
  /\ todo \in Seq(Timers)
  /\ \A i \in DOMAIN todo : phase[todo[i]] = "expired" /\ left[todo[i]] <= 0
  /\ \A i, j \in DOMAIN todo : todo[i] = todo[j] => i = j

\* A timer that ran and does not repeat is not run again.
Spent ==
  \A t \in Timers : fired[t] # 0 =>
    /\ phase[t] \notin {"unmade", "adding"}
    /\ every[t] = 0 => phase[t] \in {"expired", "over"} /\ \A i \in DOMAIN todo : todo[i] # t

DueInv == TypeOK /\ Numbered /\ AddOnce(functors) /\ AddOnce(batch) /\ Apart /\ Waits /\ Walk /\ Spent

LEMMA DueInit == Init => DueInv
<1> SUFFICES ASSUME Init PROVE DueInv
  OBVIOUS
<1>1. TypeOK
  <2>1. made \in 0..MaxTimers /\ lag \in 0..MaxLate
    BY TimerAssumption DEF Init
  <2>2. /\ phase \in [Timers -> Phases] /\ left \in [Timers -> Int]
        /\ every \in [Timers -> Intervals \cup {0}] /\ fired \in [Timers -> 0..2]
    BY DEF Init, Phases
  <2>3. fd \in [left : Nat, readable : BOOLEAN] /\ In("expired") = {}
    BY DEF Init, In
  <2> QED
    BY <2>1, <2>2, <2>3 DEF Init, TypeOK, Locations
<1>2. <<>> \in Seq(Functor) /\ <<>> \in Seq(Timers) /\ DOMAIN <<>> = {}
  OBVIOUS
<1>3. Numbered
  BY TimerAssumption DEF Init, Numbered, Timers
<1>4. AddOnce(functors) /\ AddOnce(batch) /\ Apart /\ Waits /\ Walk /\ Spent
  BY <1>2 DEF Init, AddOnce, Apart, Waits, Walk, Spent
<1> QED
  BY <1>1, <1>3, <1>4 DEF DueInv

\* What the timerfd is set to.
LEMMA ResetTimerFdType ==
  ASSUME fd \in [left : Nat, readable : BOOLEAN], NEW e \in Int, ResetTimerFd(e)
  PROVE  fd' \in [left : Nat, readable : BOOLEAN]
<1>1. CASE e > 0 /\ fd' = [left |-> e, readable |-> FALSE]
  <2>1. e \in Nat
    BY <1>1
  <2> QED
    BY <1>1, <2>1
<1>2. CASE fd' = [left |-> 0, readable |-> FALSE]
  BY <1>2
<1>3. CASE fd' = fd
  BY <1>3
<1> QED
  BY <1>1, <1>2, <1>3 DEF ResetTimerFd

LEMMA AddInLoopFacts ==
  ASSUME NEW t \in Timers, TypeOK, left' \in [Timers -> Int], AddTimerInLoop(t)
  PROVE  /\ phase' = [phase EXCEPT ![t] = "queued"] /\ phase' \in [Timers -> Phases]
         /\ fd' \in [left : Nat, readable : BOOLEAN]
<1>1. fd' \in [left : Nat, readable : BOOLEAN]
  <2>1. left'[t] \in Int
    OBVIOUS
  <2> QED
    BY <2>1, ResetTimerFdType DEF AddTimerInLoop, TypeOK
<1> QED
  BY <1>1 DEF AddTimerInLoop, TypeOK, Phases

(***************************************************************************)
(* addTimer and cancel.                                                    *)
(***************************************************************************)
LEMMA NewTimerFacts ==
  ASSUME DueInv, NEW delay \in Int, NEW interval \in Intervals \cup {0}, NewTimer(delay, interval)
  PROVE  /\ made' \in Timers /\ made' = made + 1 /\ made \in Nat
         /\ phase[made'] = "unmade" /\ fired[made'] = 0
         /\ left' = [left EXCEPT ![made'] = delay] /\ left' \in [Timers -> Int]
         /\ every' = [every EXCEPT ![made'] = interval]
         /\ every' \in [Timers -> Intervals \cup {0}]
<1>1. made' \in Timers /\ made' = made + 1 /\ made \in Nat /\ made' > made
  BY TimerAssumption DEF DueInv, TypeOK, NewTimer, Timers
<1>2. phase[made'] = "unmade" /\ fired[made'] = 0
  BY <1>1 DEF DueInv, Numbered, Spent
<1> QED
  BY <1>1, <1>2 DEF NewTimer, DueInv, TypeOK

LEMMA FunctorFacts ==
  ASSUME NEW s \in Seq(Functor), NEW i \in DOMAIN s
  PROVE  s[i].t \in Timers /\ s[i].op \in {"add", "cancel"} /\ s[i] = [op |-> s[i].op, t |-> s[i].t]
<1>1. s[i] \in Functor
  OBVIOUS
<1> QED
  BY <1>1 DEF Functor

\* What the two ways to add a timer have in common.
LEMMA AddTimerParts ==
  ASSUME DueInv, NEW delay \in Int, NEW interval \in Intervals \cup {0},
         AddTimer(delay, interval), NEW p \in {"adding", "queued"},
         phase' = [phase EXCEPT ![made'] = p]
  PROVE  Numbered' /\ AddOnce(batch)' /\ Walk' /\ Spent'
<1>0. DueInv /\ NewTimer(delay, interval)
      /\ UNCHANGED <<prompt, deleted, fired, pc, hot, todo, lag, batch>>
  BY DEF AddTimer
<1>1. /\ made' \in Timers /\ made' = made + 1 /\ made \in Nat
      /\ phase[made'] = "unmade" /\ fired[made'] = 0
      /\ left' = [left EXCEPT ![made'] = delay] /\ every' = [every EXCEPT ![made'] = interval]
  BY <1>0, NewTimerFacts
<1>2. phase \in [Timers -> Phases] /\ left \in [Timers -> Int] /\ every \in [Timers -> Intervals \cup {0}]
  BY DEF DueInv, TypeOK
<1>3. Numbered'
  <2> SUFFICES ASSUME NEW t \in Timers PROVE phase'[t] = "unmade" <=> t > made'
    BY DEF Numbered
  <2>1. CASE t = made'
    BY <1>1, <1>2, <2>1, TimerAssumption DEF Timers
  <2>2. CASE t # made'
    <3>1. phase'[t] = phase[t] /\ t \in Nat
      BY <1>2, <2>2, TimerAssumption DEF Timers
    <3> QED
      BY <1>1, <2>2, <3>1 DEF DueInv, Numbered
  <2> QED
    BY <2>1, <2>2
<1>4. AddOnce(batch)'
  <2>1. batch \in Seq(Functor) /\ batch' = batch
    BY <1>0 DEF DueInv, AddOnce
  <2>2. ASSUME NEW i \in DOMAIN batch
        PROVE  batch[i].t <= made' /\ (batch[i].op = "add" => phase'[batch[i].t] = "adding")
    <3>1. batch[i].t \in Timers /\ batch[i].t <= made
      BY <2>1, <2>2, FunctorFacts DEF DueInv, AddOnce
    <3>2. batch[i].t <= made'
      BY <1>1, <3>1, TimerAssumption DEF Timers
    <3> QED
      BY <1>1, <1>2, <3>1, <3>2 DEF DueInv, AddOnce
  <2> QED
    BY <2>1, <2>2 DEF DueInv, AddOnce
<1>5. Walk'
  <2>1. todo' = todo /\ todo \in Seq(Timers)
    BY <1>0 DEF DueInv, Walk
  <2>2. ASSUME NEW i \in DOMAIN todo PROVE phase'[todo[i]] = "expired" /\ left'[todo[i]] <= 0
    BY <1>1, <1>2, <2>1 DEF DueInv, Walk
  <2> QED
    BY <2>1, <2>2 DEF DueInv, Walk
<1>6. Spent'
  BY <1>0, <1>1, <1>2 DEF DueInv, Spent
<1> QED
  BY <1>3, <1>4, <1>5, <1>6

LEMMA AddTimerTypes ==
  ASSUME DueInv, NEW delay \in Int, NEW interval \in Intervals \cup {0},
         AddTimer(delay, interval), NEW p \in {"adding", "queued"},
         phase' = [phase EXCEPT ![made'] = p], fd' \in [left : Nat, readable : BOOLEAN]
  PROVE  TypeOK'
<1>1. /\ made' \in Timers /\ made' = made + 1 /\ made \in Nat /\ phase[made'] = "unmade"
      /\ left' \in [Timers -> Int] /\ every' \in [Timers -> Intervals \cup {0}]
      /\ UNCHANGED <<prompt, deleted, fired, pc, hot, todo, lag, batch>>
  BY NewTimerFacts DEF AddTimer
<1>2. made' \in 0..MaxTimers /\ deleted' \subseteq 1..made'
  BY <1>1, TimerAssumption DEF DueInv, TypeOK, Timers
<1>3. phase' \in [Timers -> Phases]
  BY DEF DueInv, TypeOK, Phases
<1>4. In("expired") = {} => In("expired")' = {}
  BY DEF In, DueInv, TypeOK
<1> QED
  BY <1>1, <1>2, <1>3, <1>4 DEF DueInv, TypeOK

LEMMA AddTimerStep ==
  ASSUME DueInv, NEW delay \in Int, NEW interval \in Intervals \cup {0}, AddTimer(delay, interval)
  PROVE  DueInv'
<1>1. /\ made' \in Timers /\ made' = made + 1 /\ made \in Nat
      /\ phase[made'] = "unmade" /\ left' \in [Timers -> Int]
  BY NewTimerFacts DEF AddTimer
<1>2. /\ phase \in [Timers -> Phases] /\ batch \in Seq(Functor) /\ functors \in Seq(Functor)
      /\ batch' = batch
  BY DEF DueInv, TypeOK, AddOnce, AddTimer
<1>3. CASE InLoopThread /\ AddTimerInLoop(made') /\ UNCHANGED functors
  <2>1. /\ phase' = [phase EXCEPT ![made'] = "queued"] /\ fd' \in [left : Nat, readable : BOOLEAN]
    BY <1>1, <1>3, AddInLoopFacts DEF DueInv
  <2>2. Numbered' /\ AddOnce(batch)' /\ Walk' /\ Spent' /\ TypeOK'
    BY <2>1, AddTimerParts, AddTimerTypes
  <2>3. AddOnce(functors)'
    <3>1. functors' = functors
      BY <1>3
    <3>2. ASSUME NEW i \in DOMAIN functors
          PROVE  functors[i].t <= made' /\ (functors[i].op = "add" => phase'[functors[i].t] = "adding")
      <4>1. functors[i].t \in Timers /\ functors[i].t <= made
        BY <1>2, FunctorFacts DEF DueInv, AddOnce
      <4>2. functors[i].t <= made'
        BY <1>1, <4>1, TimerAssumption DEF Timers
      <4> QED
        BY <1>1, <1>2, <2>1, <4>1, <4>2 DEF DueInv, AddOnce
    <3> QED
      BY <3>1, <3>2 DEF DueInv, AddOnce
  <2>4. Apart'
    BY <1>2, <1>3 DEF DueInv, Apart
  <2>5. Waits'
    BY <1>2, <1>3, <2>1 DEF DueInv, Waits
  <2> QED
    BY <2>2, <2>3, <2>4, <2>5 DEF DueInv
<1>4. CASE /\ phase' = [phase EXCEPT ![made'] = "adding"]
           /\ functors' = Append(functors, [op |-> "add", t |-> made'])
           /\ UNCHANGED fd
  <2> DEFINE f == [op |-> "add", t |-> made']
             n == Len(functors) + 1
  <2>0. f \in Functor /\ f.op = "add" /\ f.t = made'
    BY <1>1 DEF Functor
  <2>1. /\ functors' \in Seq(Functor)
        /\ \A i \in DOMAIN functors : i \in DOMAIN functors' /\ functors'[i] = functors[i]
        /\ \A i \in DOMAIN functors' : i \in DOMAIN functors \/ i = n
        /\ functors'[n] = f /\ n \in DOMAIN functors'
    BY <1>2, <1>4, <2>0, AppendFacts
  <2> HIDE DEF f, n
  <2>2. Numbered' /\ AddOnce(batch)' /\ Walk' /\ Spent' /\ TypeOK'
    <3>1. fd' \in [left : Nat, readable : BOOLEAN]
      BY <1>4 DEF DueInv, TypeOK
    <3> QED
      BY <1>4, <3>1, AddTimerParts, AddTimerTypes
  <2>3. \A i \in DOMAIN functors : functors[i].t # made' /\ functors[i].t <= made'
                                  /\ functors[i].t \in Timers
    <3> SUFFICES ASSUME NEW i \in DOMAIN functors
                 PROVE  functors[i].t # made' /\ functors[i].t <= made' /\ functors[i].t \in Timers
      OBVIOUS
    <3>1. functors[i].t \in Timers /\ functors[i].t <= made
      BY <1>2, FunctorFacts DEF DueInv, AddOnce
    <3> QED
      BY <1>1, <3>1, TimerAssumption DEF Timers
  <2>4. \A i \in DOMAIN batch : batch[i].op = "add" => batch[i].t # made'
    BY <1>1 DEF DueInv, AddOnce
  <2>5. AddOnce(functors)'
    <3>1. made' <= made'
      BY <1>1
    <3>2. ASSUME NEW i \in DOMAIN functors'
          PROVE  functors'[i].t <= made' /\ (functors'[i].op = "add" => phase'[functors'[i].t] = "adding")
      <4>1. CASE i \in DOMAIN functors
        BY <1>2, <1>4, <2>1, <2>3, <4>1 DEF DueInv, AddOnce
      <4>2. CASE i = n
        BY <1>1, <1>2, <1>4, <2>0, <2>1, <3>1, <4>2
      <4> QED
        BY <2>1, <4>1, <4>2
    <3>3. ASSUME NEW i \in DOMAIN functors', NEW j \in DOMAIN functors',
                 functors'[i].op = "add", functors'[j].op = "add", functors'[i].t = functors'[j].t
          PROVE  i = j
      BY <2>0, <2>1, <2>3, <3>3 DEF DueInv, AddOnce
    <3> QED
      BY <2>1, <3>2, <3>3 DEF AddOnce
  <2>6. Apart'
    BY <1>2, <2>0, <2>1, <2>4 DEF DueInv, Apart
  <2>7. Waits'
    <3> SUFFICES ASSUME NEW t \in Timers, phase'[t] = "adding"
                 PROVE  \/ \E i \in DOMAIN functors' : functors'[i] = [op |-> "add", t |-> t]
                        \/ \E i \in DOMAIN batch : batch[i] = [op |-> "add", t |-> t]
      BY <1>2 DEF Waits
    <3>1. CASE t = made'
      BY <2>1, <3>1 DEF f
    <3>2. CASE t # made'
      BY <1>2, <1>4, <2>1, <3>2 DEF DueInv, Waits
    <3> QED
      BY <3>1, <3>2
  <2> QED
    BY <2>2, <2>5, <2>6, <2>7 DEF DueInv
<1> QED
  BY <1>3, <1>4 DEF AddTimer

LEMMA CancelStep ==
  ASSUME DueInv, NEW t \in Timers, Cancel(t)
  PROVE  DueInv'
<1>1. UNCHANGED <<prompt, made, phase, left, every, fired, fd, pc, hot, todo, lag, batch>>
  BY DEF Cancel
<1>2. t \in 1..made
  <2>1. phase[t] # "unmade" /\ t \in Nat /\ t >= 1 /\ made \in Nat
    BY TimerAssumption DEF Cancel, MayCancel, DueInv, TypeOK, Timers
  <2> QED
    BY <2>1 DEF DueInv, Numbered
<1>3. TypeOK' /\ Numbered' /\ AddOnce(batch)' /\ Walk' /\ Spent'
  <2>1. deleted' \subseteq 1..made
    BY <1>2 DEF Cancel, CancelInLoop, DueInv, TypeOK
  <2>2. In("expired")' = In("expired")
    BY <1>1 DEF In
  <2>3. TypeOK'
    BY <1>1, <2>1, <2>2 DEF DueInv, TypeOK
  <2> QED
    BY <1>1, <2>3 DEF DueInv, Numbered, AddOnce, Walk, Spent
<1>4. functors \in Seq(Functor)
  BY DEF DueInv, AddOnce
<1>5. CASE UNCHANGED functors
  BY <1>1, <1>3, <1>5 DEF DueInv, AddOnce, Apart, Waits
<1>6. CASE functors' = Append(functors, [op |-> "cancel", t |-> t])
  <2> DEFINE f == [op |-> "cancel", t |-> t]
             n == Len(functors) + 1
  <2>0. f \in Functor /\ f.op # "add" /\ f.t = t /\ t <= made
    BY <1>2 DEF Functor
  <2>1. /\ functors' \in Seq(Functor)
        /\ \A i \in DOMAIN functors : i \in DOMAIN functors' /\ functors'[i] = functors[i]
        /\ \A i \in DOMAIN functors' : i \in DOMAIN functors \/ i = n
        /\ functors'[n] = f
    BY <1>4, <1>6, <2>0, AppendFacts
  <2> HIDE DEF f, n
  <2>2. AddOnce(functors)'
    BY <1>1, <2>0, <2>1 DEF DueInv, AddOnce
  <2>3. Apart'
    BY <1>1, <2>0, <2>1 DEF DueInv, Apart
  <2>4. Waits'
    BY <1>1, <2>1 DEF DueInv, Waits
  <2> QED
    BY <1>3, <2>2, <2>3, <2>4 DEF DueInv
<1> QED
  BY <1>5, <1>6 DEF Cancel

(***************************************************************************)
(* The loop thread, and time.                                              *)
(***************************************************************************)
\* Steps that leave the timers and the functors where they are.
LEMMA PlainStep ==
  ASSUME DueInv, UNCHANGED <<made, phase, left, every, fired, todo, functors, batch>>, TypeOK'
  PROVE  DueInv'
BY DEF DueInv, Numbered, AddOnce, Apart, Waits, Walk, Spent

LEMMA ControlStep ==
  ASSUME DueInv, WakeUp \/ CallbackReturns \/ EndFunctors
  PROVE  DueInv'
<1>1. UNCHANGED <<prompt, timerVars, fd, todo, lag, functors, batch>>
  BY DEF WakeUp, CallbackReturns, EndFunctors
<1>2. In("expired")' = In("expired")
  BY <1>1 DEF In, timerVars
<1>3. TypeOK'
  BY <1>1, <1>2 DEF DueInv, TypeOK, WakeUp, CallbackReturns, EndFunctors, Locations, timerVars
<1> QED
  BY <1>1, <1>3, PlainStep DEF timerVars

LEMMA RunFunctorsStep ==
  ASSUME DueInv, RunFunctors
  PROVE  DueInv'
<1>1. /\ batch' = functors /\ functors' = <<>> /\ batch = <<>> /\ DOMAIN functors' = {}
      /\ functors' \in Seq(Functor) /\ DOMAIN batch = {}
      /\ UNCHANGED <<prompt, timerVars, fd, hot, todo, lag>>
  BY DEF RunFunctors, DueInv, TypeOK
<1>2. TypeOK'
  <2>1. In("expired")' = In("expired")
    BY <1>1 DEF In, timerVars
  <2> QED
    BY <1>1, <2>1 DEF DueInv, TypeOK, RunFunctors, Locations, timerVars
<1>3. AddOnce(functors)' /\ AddOnce(batch)' /\ Apart' /\ Waits'
  BY <1>1 DEF DueInv, AddOnce, Apart, Waits, timerVars
<1> QED
  BY <1>1, <1>2, <1>3 DEF DueInv, Numbered, Walk, Spent, timerVars

LEMMA HandleReadStep ==
  ASSUME DueInv, HandleRead
  PROVE  DueInv'
<1> DEFINE due == {t \in queued : left[t] <= 0}
           run == due \ deleted
<1>1. /\ phase' = [t \in Timers |-> IF t \in due \ deleted THEN "expired"
                                    ELSE IF t \in due THEN "over" ELSE phase[t]]
      /\ todo' \in InOrder(run) /\ pc' = "expired" /\ hot' = FALSE /\ lag' = 0
      /\ fd' = [fd EXCEPT !.readable = FALSE] /\ pc = "io"
      /\ UNCHANGED <<prompt, made, left, every, deleted, fired, functors, batch>>
  BY DEF HandleRead, GetExpired
<1>2. phase \in [Timers -> Phases] /\ left \in [Timers -> Int]
  BY DEF DueInv, TypeOK
<1>3. due \subseteq Timers /\ \A t \in due : phase[t] = "queued" /\ left[t] <= 0
  BY DEF queued, In
<1>4. /\ todo' \in Seq(run)
      /\ \A i, j \in DOMAIN todo' : todo'[i] = todo'[j] => i = j
  BY <1>1, <1>2, <1>3, InOrderFacts
<1>5. \A i \in DOMAIN todo' : todo'[i] \in run
  BY <1>4
<1> HIDE DEF due
<1>6. \A t \in Timers : (t \in due => phase'[t] \in {"expired", "over"})
                        /\ (t \notin due => phase'[t] = phase[t])
                        /\ (t \in run => phase'[t] = "expired")
  BY <1>1, <1>2
<1>7. TypeOK'
  <2>1. phase' \in [Timers -> Phases]
    BY <1>1, <1>2 DEF Phases
  <2>2. fd' \in [left : Nat, readable : BOOLEAN]
    BY <1>1 DEF DueInv, TypeOK
  <2>3. lag' \in 0..MaxLate
    BY <1>1, TimerAssumption
  <2>4. pc' \in Locations
    BY <1>1 DEF Locations
  <2> QED
    BY <1>1, <2>1, <2>2, <2>3, <2>4 DEF DueInv, TypeOK
<1>8. Numbered' /\ AddOnce(functors)' /\ AddOnce(batch)' /\ Apart' /\ Waits'
  <2>1. \A t \in Timers : (phase'[t] = "unmade" <=> phase[t] = "unmade")
                          /\ (phase'[t] = "adding" <=> phase[t] = "adding")
    BY <1>3, <1>6
  <2>2. \A i \in DOMAIN functors : functors[i].t \in Timers
    BY FunctorFacts DEF DueInv, AddOnce
  <2>3. \A i \in DOMAIN batch : batch[i].t \in Timers
    BY FunctorFacts DEF DueInv, AddOnce
  <2> QED
    BY <1>1, <2>1, <2>2, <2>3 DEF DueInv, Numbered, AddOnce, Apart, Waits
<1>9. Walk'
  <2>1. todo' \in Seq(Timers)
    BY <1>3, <1>4
  <2>2. ASSUME NEW i \in DOMAIN todo' PROVE phase'[todo'[i]] = "expired" /\ left'[todo'[i]] <= 0
    BY <1>1, <1>3, <1>5, <1>6, <2>2
  <2> QED
    BY <1>4, <2>1, <2>2 DEF Walk
<1>10. Spent'
  <2> SUFFICES ASSUME NEW t \in Timers, fired[t] # 0
               PROVE  /\ phase'[t] \notin {"unmade", "adding"}
                      /\ every[t] = 0 => phase'[t] \in {"expired", "over"}
                                         /\ \A i \in DOMAIN todo' : todo'[i] # t
    BY <1>1 DEF Spent
  <2>1. /\ phase[t] \notin {"unmade", "adding"}
        /\ every[t] = 0 => phase[t] \in {"expired", "over"}
    BY DEF DueInv, Spent
  <2>2. every[t] = 0 => t \notin due
    BY <1>3, <2>1
  <2> QED
    BY <1>5, <1>6, <2>1, <2>2
<1> QED
  BY <1>7, <1>8, <1>9, <1>10 DEF DueInv

LEMMA NextExpiredStep ==
  ASSUME DueInv, NextExpired
  PROVE  DueInv'
<1> DEFINE t == Head(todo)
<1>1. /\ pc = "expired" /\ todo # <<>> /\ todo' = Tail(todo) /\ pc' \in {"expired", "callback"}
      /\ \/ fired' = fired
         \/ fired' = [fired EXCEPT ![t] = IF @ = 2 THEN 2 ELSE @ + 1]
      /\ UNCHANGED <<prompt, made, phase, left, every, deleted, fd, hot, lag, functors, batch>>
  BY DEF NextExpired
<1>2. /\ todo \in Seq(Timers) /\ \A i, j \in DOMAIN todo : todo[i] = todo[j] => i = j
      /\ fired \in [Timers -> 0..2]
  BY DEF DueInv, Walk, TypeOK
<1>3. /\ t \in Timers /\ t = todo[1] /\ 1 \in DOMAIN todo /\ todo' \in Seq(Timers)
      /\ \A i \in DOMAIN todo' : i + 1 \in DOMAIN todo /\ todo'[i] = todo[i + 1]
                               /\ i \in Nat /\ i + 1 # 1
  BY <1>1, <1>2, TailFacts
<1> HIDE DEF t
<1>4. \A i \in DOMAIN todo' : todo'[i] # t
  BY <1>2, <1>3
<1>5. phase[t] = "expired"
  BY <1>3 DEF DueInv, Walk
<1>6. fired' \in [Timers -> 0..2] /\ \A u \in Timers \ {t} : fired'[u] = fired[u]
  BY <1>1, <1>2, <1>3
<1>7. TypeOK'
  <2>1. In("expired")' = In("expired")
    BY <1>1 DEF In
  <2> QED
    BY <1>1, <1>6, <2>1 DEF DueInv, TypeOK, Locations
<1>8. Walk'
  <2>1. \A i, j \in DOMAIN todo' : todo'[i] = todo'[j] => i = j
    <3> SUFFICES ASSUME NEW i \in DOMAIN todo', NEW j \in DOMAIN todo', todo'[i] = todo'[j]
                 PROVE  i = j
      OBVIOUS
    <3>1. i + 1 = j + 1
      BY <1>2, <1>3
    <3> QED
      BY <1>3, <3>1
  <2> QED
    BY <1>1, <1>3, <2>1 DEF DueInv, Walk
<1>9. Spent'
  <2> SUFFICES ASSUME NEW u \in Timers, fired'[u] # 0
               PROVE  /\ phase[u] \notin {"unmade", "adding"}
                      /\ every[u] = 0 => phase[u] \in {"expired", "over"}
                                         /\ \A i \in DOMAIN todo' : todo'[i] # u
    BY <1>1 DEF Spent
  <2>1. CASE u = t
    BY <1>4, <1>5, <2>1
  <2>2. CASE u # t
    <3>1. fired[u] # 0
      BY <1>6, <2>2
    <3> QED
      BY <1>3, <3>1 DEF DueInv, Spent
  <2> QED
    BY <2>1, <2>2
<1> QED
  BY <1>1, <1>7, <1>8, <1>9 DEF DueInv, Numbered, AddOnce, Apart, Waits

\* What reset() does: rest is what stays in the queue.
LEMMA ResetFacts ==
  ASSUME TypeOK, Reset
  PROVE  \E rest \in SUBSET (queued \cup Restarts), l \in [Timers -> Int] :
           /\ l = [t \in Timers |-> IF t \in Restarts THEN every[t] - lag ELSE left[t]]
           /\ phase' = [t \in Timers |-> IF t \in rest THEN "queued"
                                         ELSE IF t \in queued \cup In("expired") THEN "over"
                                         ELSE phase[t]]
           /\ left' = l /\ Rearm(rest, l)
           /\ fd' \in [left : Nat, readable : BOOLEAN]
<1> DEFINE l == [t \in Timers |-> IF t \in Restarts THEN every[t] - lag ELSE left[t]]
           all == queued \cup Restarts
           dropped == {t \in all \cap deleted : \A u \in all \ deleted : Before(l, t, u)}
           rest == all \ dropped
<1>1. /\ phase' = [t \in Timers |-> IF t \in rest THEN "queued"
                                    ELSE IF t \in dropped \cup In("expired") THEN "over"
                                    ELSE phase[t]]
      /\ left' = l /\ Rearm(rest, l)
  BY DEF Reset
<1>2. l \in [Timers -> Int]
  <2>1. \A t \in Timers : every[t] \in Int
    <3>1. Intervals \cup {0} \subseteq Int /\ every \in [Timers -> Intervals \cup {0}]
      BY TimerAssumption DEF TypeOK
    <3> QED
      BY <3>1
  <2>2. lag \in Int /\ \A t \in Timers : left[t] \in Int
    BY TimerAssumption DEF TypeOK
  <2>3. ASSUME NEW t \in Timers PROVE every[t] - lag \in Int
    BY <2>1, <2>2
  <2> QED
    BY <2>2, <2>3
<1>3. dropped \subseteq all /\ all \subseteq queued \cup In("expired") /\ queued \subseteq all
      /\ all \subseteq Timers
  BY DEF Restarts, In, queued
<1> HIDE DEF l, dropped, all
<1>4. phase' = [t \in Timers |-> IF t \in rest THEN "queued"
                                ELSE IF t \in queued \cup In("expired") THEN "over"
                                ELSE phase[t]]
  BY <1>1, <1>3
<1>5. fd' \in [left : Nat, readable : BOOLEAN]
  <2>1. CASE rest = {}
    BY <1>1, <2>1 DEF Rearm, TypeOK
  <2>2. CASE rest # {}
    <3>1. rest \in SUBSET Timers
      BY <1>3
    <3>2. l[Top(rest, l)] \in Int
      BY <1>2, <2>2, <3>1, TopFacts
    <3> QED
      BY <1>1, <2>2, <3>2, ResetTimerFdType DEF Rearm, TypeOK
  <2> QED
    BY <2>1, <2>2
<1>6. rest \in SUBSET (queued \cup Restarts)
  BY DEF all
<1> QED
  BY <1>1, <1>2, <1>4, <1>5, <1>6 DEF l

LEMMA ResetStep ==
  ASSUME DueInv, Reset
  PROVE  DueInv'
<1>1. /\ pc = "expired" /\ todo = <<>> /\ pc' = "io" /\ lag' = 0
      /\ UNCHANGED <<prompt, made, every, deleted, fired, hot, todo, functors, batch>>
  BY DEF Reset
<1>2. PICK rest \in SUBSET (queued \cup Restarts), l \in [Timers -> Int] :
        /\ l = [t \in Timers |-> IF t \in Restarts THEN every[t] - lag ELSE left[t]]
        /\ phase' = [t \in Timers |-> IF t \in rest THEN "queued"
                                      ELSE IF t \in queued \cup In("expired") THEN "over"
                                      ELSE phase[t]]
        /\ left' = l /\ fd' \in [left : Nat, readable : BOOLEAN]
  BY ResetFacts DEF DueInv
<1>3. phase \in [Timers -> Phases]
  BY DEF DueInv, TypeOK
<1>4. \A t \in Timers :
        /\ t \in rest => phase'[t] = "queued" /\ phase[t] \in {"queued", "expired"}
                         /\ (phase[t] = "expired" => every[t] > 0)
        /\ t \notin rest /\ phase[t] \in {"queued", "expired"} => phase'[t] = "over"
        /\ phase[t] \notin {"queued", "expired"} => phase'[t] = phase[t]
  BY <1>2, <1>3 DEF Restarts, queued, In
<1>5. \A t \in Timers : (phase'[t] = "unmade" <=> phase[t] = "unmade")
                        /\ (phase'[t] = "adding" <=> phase[t] = "adding")
                        /\ phase'[t] # "expired" /\ phase'[t] \in Phases
  <2> SUFFICES ASSUME NEW t \in Timers
               PROVE  /\ phase'[t] = "unmade" <=> phase[t] = "unmade"
                      /\ phase'[t] = "adding" <=> phase[t] = "adding"
                      /\ phase'[t] # "expired" /\ phase'[t] \in Phases
    OBVIOUS
  <2>1. t \notin rest /\ phase[t] \notin {"queued", "expired"} => phase'[t] = phase[t]
    BY <1>4
  <2>2. phase[t] \in Phases
    BY <1>3
  <2> QED
    BY <1>4, <2>1, <2>2 DEF Phases
<1>6. TypeOK'
  <2>1. phase' \in [Timers -> Phases]
    BY <1>2, <1>5
  <2>2. In("expired")' = {}
    BY <1>5 DEF In
  <2>3. pc' \in Locations /\ lag' \in 0..MaxLate
    BY <1>1, TimerAssumption DEF Locations
  <2> QED
    BY <1>1, <1>2, <2>1, <2>2, <2>3 DEF DueInv, TypeOK
<1>7. Numbered' /\ AddOnce(functors)' /\ AddOnce(batch)' /\ Apart' /\ Waits'
  <2>1. \A i \in DOMAIN functors : functors[i].t \in Timers
    BY FunctorFacts DEF DueInv, AddOnce
  <2>2. \A i \in DOMAIN batch : batch[i].t \in Timers
    BY FunctorFacts DEF DueInv, AddOnce
  <2> QED
    BY <1>1, <1>5, <2>1, <2>2 DEF DueInv, Numbered, AddOnce, Apart, Waits
<1>8. Walk'
  <2>1. DOMAIN todo = {}
    BY <1>1
  <2> QED
    BY <1>1, <2>1 DEF DueInv, Walk
<1>9. Spent'
  <2> SUFFICES ASSUME NEW t \in Timers, fired[t] # 0
               PROVE  /\ phase'[t] \notin {"unmade", "adding"}
                      /\ every[t] = 0 => phase'[t] \in {"expired", "over"}
                                         /\ \A i \in DOMAIN todo : todo[i] # t
    BY <1>1 DEF Spent
  <2>1. /\ phase[t] \notin {"unmade", "adding"}
        /\ every[t] = 0 => phase[t] \in {"expired", "over"} /\ \A i \in DOMAIN todo : todo[i] # t
    BY DEF DueInv, Spent
  <2>2. ASSUME every[t] = 0 PROVE phase'[t] \in {"expired", "over"}
    <3>1. t \notin rest
      BY <1>4, <2>1, <2>2
    <3> QED
      BY <1>4, <2>1, <2>2, <3>1
  <2> QED
    BY <1>5, <2>1, <2>2
<1> QED
  BY <1>6, <1>7, <1>8, <1>9 DEF DueInv

LEMMA RunFunctorStep ==
  ASSUME DueInv, RunFunctor
  PROVE  DueInv'
<1> DEFINE f == Head(batch)
<1>1. /\ pc = "run" /\ batch # <<>> /\ batch' = Tail(batch)
      /\ \/ f.op = "add" /\ UNCHANGED <<left, deleted>> /\ AddTimerInLoop(f.t)
         \/ f.op = "cancel" /\ CancelInLoop(f.t) /\ UNCHANGED <<left, phase, fd>>
      /\ UNCHANGED <<prompt, made, every, fired, pc, hot, todo, lag, functors>>
  BY DEF RunFunctor
<1>2. batch \in Seq(Functor) /\ functors \in Seq(Functor) /\ phase \in [Timers -> Phases]
      /\ left \in [Timers -> Int]
  BY DEF DueInv, AddOnce, TypeOK
<1>3. /\ f \in Functor /\ f = batch[1] /\ 1 \in DOMAIN batch /\ batch' \in Seq(Functor)
      /\ \A i \in DOMAIN batch' : i + 1 \in DOMAIN batch /\ batch'[i] = batch[i + 1]
                                /\ i \in Nat /\ i + 1 # 1
      /\ \A i \in DOMAIN batch : i = 1 \/ (i - 1 \in DOMAIN batch' /\ batch'[i - 1] = batch[i])
  BY <1>1, <1>2, TailFacts
<1> HIDE DEF f
<1>4. f.t \in Timers /\ f.t <= made /\ (f.op = "add" => phase[f.t] = "adding")
  BY <1>3, FunctorFacts, <1>2 DEF DueInv, AddOnce
<1>5. /\ \A i \in DOMAIN batch' : batch'[i].t \in Timers /\ batch'[i].t <= made
                                  /\ (batch'[i].op = "add" => phase[batch'[i].t] = "adding")
      /\ \A i \in DOMAIN functors : functors[i].t \in Timers
  <2>1. \A i \in DOMAIN batch : batch[i].t \in Timers /\ batch[i].t <= made
                               /\ (batch[i].op = "add" => phase[batch[i].t] = "adding")
    BY <1>2, FunctorFacts DEF DueInv, AddOnce
  <2> QED
    BY <1>2, <1>3, <2>1, FunctorFacts
<1>6. \A i, j \in DOMAIN batch' :
        batch'[i].op = "add" /\ batch'[j].op = "add" /\ batch'[i].t = batch'[j].t => i = j
  <2> SUFFICES ASSUME NEW i \in DOMAIN batch', NEW j \in DOMAIN batch', batch'[i].op = "add",
                      batch'[j].op = "add", batch'[i].t = batch'[j].t
               PROVE  i = j
    OBVIOUS
  <2>1. \A k, n \in DOMAIN batch :
          batch[k].op = "add" /\ batch[n].op = "add" /\ batch[k].t = batch[n].t => k = n
    BY DEF DueInv, AddOnce
  <2>2. i + 1 = j + 1
    BY <1>3, <2>1
  <2> QED
    BY <1>3, <2>2
<1>7. Apart'
  BY <1>1, <1>3 DEF DueInv, Apart
<1>8. CASE f.op = "add" /\ UNCHANGED <<left, deleted>> /\ AddTimerInLoop(f.t)
  <2>1. /\ phase' = [phase EXCEPT ![f.t] = "queued"] /\ phase' \in [Timers -> Phases]
        /\ fd' \in [left : Nat, readable : BOOLEAN]
    BY <1>2, <1>4, <1>8, AddInLoopFacts DEF DueInv
  <2>2. phase[f.t] = "adding" /\ phase'[f.t] = "queued"
        /\ \A t \in Timers \ {f.t} : phase'[t] = phase[t]
    BY <1>2, <1>4, <1>8, <2>1
  <2>3. TypeOK'
    <3>1. In("expired")' = In("expired")
      BY <1>4, <2>2 DEF In
    <3>2. batch' \in Seq(Functor) /\ pc' = "run"
      BY <1>1, <1>3
    <3> QED
      BY <1>1, <1>8, <2>1, <3>1, <3>2 DEF DueInv, TypeOK
  <2>4. Numbered'
    BY <1>1, <1>4, <2>2 DEF DueInv, Numbered
  <2>5. AddOnce(batch)'
    <3>1. \A i \in DOMAIN batch' : batch'[i].op = "add" => batch'[i].t # f.t
      BY <1>3, <1>8 DEF DueInv, AddOnce
    <3> QED
      BY <1>1, <1>3, <1>5, <1>6, <2>2, <3>1 DEF AddOnce
  <2>6. AddOnce(functors)'
    <3>1. \A i \in DOMAIN functors : functors[i].op = "add" => functors[i].t # f.t
      BY <1>3, <1>8 DEF DueInv, Apart
    <3> QED
      BY <1>1, <1>5, <2>2, <3>1 DEF DueInv, AddOnce
  <2>7. Waits'
    <3> SUFFICES ASSUME NEW t \in Timers, phase'[t] = "adding"
                 PROVE  \/ \E i \in DOMAIN functors : functors[i] = [op |-> "add", t |-> t]
                        \/ \E i \in DOMAIN batch' : batch'[i] = [op |-> "add", t |-> t]
      BY <1>1 DEF Waits
    <3>1. t # f.t /\ phase[t] = "adding"
      BY <2>2
    <3>2. \A i \in DOMAIN batch : batch[i] = [op |-> "add", t |-> t] => i # 1
      BY <1>3, <3>1
    <3>3. CASE \E i \in DOMAIN functors : functors[i] = [op |-> "add", t |-> t]
      BY <3>3
    <3>4. CASE \E i \in DOMAIN batch : batch[i] = [op |-> "add", t |-> t]
      <4>1. PICK i \in DOMAIN batch : batch[i] = [op |-> "add", t |-> t]
        BY <3>4
      <4>2. i - 1 \in DOMAIN batch' /\ batch'[i - 1] = batch[i]
        BY <1>3, <3>2, <4>1
      <4> QED
        BY <4>1, <4>2
    <3> QED
      BY <3>1, <3>3, <3>4 DEF DueInv, Waits
  <2>8. Walk'
    BY <1>1, <1>8, <2>2 DEF DueInv, Walk
  <2>9. Spent'
    BY <1>1, <1>4, <2>2 DEF DueInv, Spent
  <2> QED
    BY <1>7, <2>3, <2>4, <2>5, <2>6, <2>7, <2>8, <2>9 DEF DueInv
<1>9. CASE f.op = "cancel" /\ CancelInLoop(f.t) /\ UNCHANGED <<left, phase, fd>>
  <2>1. f.t \in 1..made
    BY <1>4, TimerAssumption DEF DueInv, TypeOK, Timers
  <2>2. TypeOK'
    <3>1. deleted' \subseteq 1..made
      BY <1>9, <2>1 DEF CancelInLoop, DueInv, TypeOK
    <3>2. In("expired")' = In("expired")
      BY <1>9 DEF In
    <3> QED
      BY <1>1, <1>9, <3>1, <3>2 DEF DueInv, TypeOK
  <2>3. AddOnce(batch)' /\ AddOnce(functors)'
    BY <1>1, <1>3, <1>5, <1>6, <1>9 DEF DueInv, AddOnce
  <2>4. Waits'
    <3> SUFFICES ASSUME NEW t \in Timers, phase[t] = "adding"
                 PROVE  \/ \E i \in DOMAIN functors : functors[i] = [op |-> "add", t |-> t]
                        \/ \E i \in DOMAIN batch' : batch'[i] = [op |-> "add", t |-> t]
      BY <1>1, <1>9 DEF Waits
    <3>1. \A i \in DOMAIN batch : batch[i] = [op |-> "add", t |-> t] => i # 1
      BY <1>3, <1>9
    <3>2. CASE \E i \in DOMAIN functors : functors[i] = [op |-> "add", t |-> t]
      BY <3>2
    <3>3. CASE \E i \in DOMAIN batch : batch[i] = [op |-> "add", t |-> t]
      <4>1. PICK i \in DOMAIN batch : batch[i] = [op |-> "add", t |-> t]
        BY <3>3
      <4>2. i - 1 \in DOMAIN batch' /\ batch'[i - 1] = batch[i]
        BY <1>3, <3>1, <4>1
      <4> QED
        BY <4>1, <4>2
    <3> QED
      BY <3>1, <3>2, <3>3 DEF DueInv, Waits
  <2> QED
    BY <1>1, <1>7, <1>9, <2>2, <2>3, <2>4 DEF DueInv, Numbered, Walk, Spent
<1> QED
  BY <1>1, <1>8, <1>9

LEMMA TickStep ==
  ASSUME DueInv, Tick
  PROVE  DueInv'
<1>1. /\ left' = [t \in Timers |-> IF phase[t] \in {"unmade", "over"} \/ left[t] = -MaxLate
                                   THEN left[t] ELSE left[t] - 1]
      /\ fd' = IF fd.left = 0 THEN fd
               ELSE [left |-> fd.left - 1, readable |-> fd.readable \/ fd.left = 1]
      /\ lag' = IF pc \in {"expired", "callback"} /\ lag < MaxLate THEN lag + 1 ELSE lag
      /\ UNCHANGED <<prompt, made, phase, every, deleted, fired, pc, hot, todo, functors, batch>>
  BY DEF Tick
<1>2. TypeOK'
  <2>1. left' \in [Timers -> Int] /\ lag' \in 0..MaxLate
    BY <1>1, TimerAssumption DEF DueInv, TypeOK
  <2>2. fd' \in [left : Nat, readable : BOOLEAN]
    <3>1. fd.left \in Nat /\ fd.readable \in BOOLEAN
      BY DEF DueInv, TypeOK
    <3>2. CASE fd.left = 0
      BY <1>1, <3>2 DEF DueInv, TypeOK
    <3>3. CASE fd.left # 0
      <4>1. fd.left - 1 \in Nat /\ (fd.readable \/ fd.left = 1) \in BOOLEAN
        BY <3>1, <3>3
      <4> QED
        BY <1>1, <3>3, <4>1
    <3> QED
      BY <3>2, <3>3
  <2>3. In("expired")' = In("expired")
    BY <1>1 DEF In
  <2> QED
    BY <1>1, <2>1, <2>2, <2>3 DEF DueInv, TypeOK
<1>3. Walk'
  <2>1. ASSUME NEW i \in DOMAIN todo PROVE left'[todo[i]] <= 0
    <3>1. todo[i] \in Timers /\ left[todo[i]] <= 0 /\ left[todo[i]] \in Int
      BY DEF DueInv, Walk, TypeOK
    <3> QED
      BY <1>1, <3>1
  <2> QED
    BY <1>1, <2>1 DEF DueInv, Walk
<1> QED
  BY <1>1, <1>2, <1>3 DEF DueInv, Numbered, AddOnce, Apart, Waits, Spent

LEMMA DueStep ==
  ASSUME DueInv, [Next]_vars
  PROVE  DueInv'
<1>1. ASSUME NEW d \in Delays, AddTimer(d, 0) PROVE DueInv'
  BY <1>1, AddTimerStep, TimerAssumption
<1>2. ASSUME NEW i \in Intervals, AddTimer(i, i) PROVE DueInv'
  BY <1>2, AddTimerStep, TimerAssumption
<1>3. ASSUME NEW t \in Timers, Cancel(t) PROVE DueInv'
  BY <1>3, CancelStep
<1>4. CASE LoopStep \/ PollOther
  BY <1>4, ControlStep, HandleReadStep, NextExpiredStep, ResetStep, RunFunctorsStep, RunFunctorStep
     DEF LoopStep, Poll, PollOther
<1>5. CASE Tick
  BY <1>5, TickStep
<1>6. CASE UNCHANGED vars
  BY <1>6 DEF DueInv, TypeOK, Numbered, AddOnce, Apart, Waits, Walk, Spent, In, vars, timerVars
<1> QED
  BY <1>1, <1>2, <1>3, <1>4, <1>5, <1>6 DEF Next

\* A callback runs only when its timer is due and not cancelled, also by a
\* callback that ran just before, and that of a timer that does not repeat once.
THEOREM CallbacksAreDue == Spec => RunsAreDue
<1> DEFINE Due == \A t \in Timers : fired'[t] # fired[t] =>
                    /\ t \notin deleted /\ left[t] <= 0
                    /\ every[t] = 0 => fired[t] = 0
<1>1. ASSUME DueInv, Next PROVE Due
  <2>1. CASE NextExpired
    <3>1. todo \in Seq(Timers) /\ todo # <<>>
      BY <1>1, <2>1 DEF DueInv, Walk, NextExpired
    <3>2. Head(todo) \in Timers /\ Head(todo) = todo[1] /\ 1 \in DOMAIN todo
      BY <3>1, TailFacts
    <3>3. left[Head(todo)] <= 0 /\ (every[Head(todo)] = 0 => fired[Head(todo)] = 0)
      BY <1>1, <3>2 DEF DueInv, Walk, Spent
    <3> QED
      BY <1>1, <2>1, <3>2, <3>3 DEF NextExpired, Runs, DueInv, TypeOK
  <2>2. CASE fired' = fired
    BY <2>2
  <2> QED
    BY <1>1, <2>1, <2>2
       DEF Next, LoopStep, Poll, PollOther, WakeUp, HandleRead, CallbackReturns, Reset, RunFunctors,
           RunFunctor, EndFunctors, Tick, AddTimer, Cancel, timerVars
<1>2. DueInv /\ [Next]_vars => [Due]_vars
  BY <1>1
<1>3. Spec => [][Due]_vars
  BY DueInit, DueStep, <1>2, PTL DEF Spec
<1> QED
  BY <1>3 DEF RunsAreDue

(***************************************************************************)
(* Prompt loops.                                                           *)
(***************************************************************************)
\* The timerfd is not set for now: that would disarm it.
PositiveDelays == \A d \in Delays : d > 0

Walking == pc \in {"expired", "callback"}

\* The timerfd has reported whatever is due, and is armed for what is not.
QueuePart ==
  /\ \A t \in queued : left[t] >= 0 /\ (~fd.readable => left[t] > 0)
  /\ Walking => ~fd.readable
  /\ queued # {} /\ ~Walking => fd.readable \/ fd.left = left[Top(queued, left)]

\* Time stands still while the loop is busy.
OutsidePart ==
  /\ lag = 0
  /\ \A t \in In("adding") : left[t] > 0
  /\ \A t \in In("expired") : left[t] >= 0

PromptInv == DueInv /\ (prompt => QueuePart /\ OutsidePart)

LEMMA TopLeft ==
  ASSUME NEW l \in [Timers -> Int], NEW q \in SUBSET Timers, NEW t \in q,
         \A u \in q : l[t] <= l[u]
  PROVE  l[Top(q, l)] = l[t]
<1>1. /\ Top(q, l) \in q /\ l[Top(q, l)] \in Int /\ l[Top(q, l)] <= l[t] /\ l[t] \in Int
  BY TopFacts
<1>2. l[t] <= l[Top(q, l)]
  BY <1>1
<1> QED
  BY <1>1, <1>2

LEMMA AddInLoopArms ==
  ASSUME DueInv, QueuePart, NEW t \in Timers, t \notin queued, AddTimerInLoop(t),
         left' \in [Timers -> Int], left'[t] > 0, \A u \in queued : left'[u] = left[u], pc' = pc
  PROVE  QueuePart'
<1>1. /\ phase' = [phase EXCEPT ![t] = "queued"] /\ phase \in [Timers -> Phases]
      /\ left \in [Timers -> Int] /\ left'[t] \in Int
      /\ fd \in [left : Nat, readable : BOOLEAN] /\ queued \in SUBSET Timers
  BY DEF AddTimerInLoop, DueInv, TypeOK, queued, In
<1>2. queued' = queued \cup {t}
  BY <1>1 DEF queued, In
<1>3. queued' \in SUBSET Timers
  BY <1>1, <1>2
<1>4. ASSUME queued # {}
      PROVE  /\ Top(queued, left) \in queued /\ left[Top(queued, left)] \in Int
             /\ \A u \in queued : left[Top(queued, left)] <= left[u] /\ left[u] \in Int
  BY <1>1, <1>4, TopFacts
<1>5. CASE EarliestChanged(t)
  <2>1. fd' = [left |-> left'[t], readable |-> FALSE]
    BY <1>5 DEF AddTimerInLoop, ResetTimerFd
  <2>2. \A u \in queued' : left'[t] <= left'[u]
    <3>1. ASSUME NEW u \in queued PROVE left'[t] <= left[u]
      <4>1. left'[t] < left[Top(queued, left)]
        BY <1>5 DEF EarliestChanged
      <4>2. left[Top(queued, left)] \in Int /\ left[Top(queued, left)] <= left[u] /\ left[u] \in Int
        BY <1>4
      <4> QED
        BY <1>1, <4>1, <4>2
    <3> QED
      BY <1>1, <1>2, <3>1
  <2>3. left'[Top(queued', left')] = left'[t]
    BY <1>2, <1>3, <2>2, TopLeft
  <2>4. \A u \in queued' : left'[u] > 0
    <3> SUFFICES ASSUME NEW u \in queued' PROVE left'[u] > 0
      OBVIOUS
    <3>1. left'[u] \in Int /\ left'[t] <= left'[u]
      BY <1>3, <2>2
    <3> QED
      BY <1>1, <3>1
  <2>5. \A u \in queued' : left'[u] >= 0 /\ left'[u] > 0
    <3> SUFFICES ASSUME NEW u \in queued' PROVE left'[u] >= 0
      BY <2>4
    <3>1. left'[u] \in Int /\ left'[u] > 0
      BY <1>3, <2>4
    <3> QED
      BY <3>1
  <2> QED
    BY <2>1, <2>3, <2>5 DEF QueuePart, Walking
<1>6. CASE ~EarliestChanged(t)
  <2>1. fd' = fd /\ queued # {} /\ ~(left'[t] < left[Top(queued, left)])
    BY <1>6 DEF AddTimerInLoop, EarliestChanged
  <2> DEFINE m == Top(queued, left)
  <2>2. m \in queued /\ left'[m] = left[m] /\ left[m] \in Int
        /\ \A u \in queued : left[m] <= left[u]
    BY <1>4, <2>1
  <2> HIDE DEF m
  <2>3. \A u \in queued' : left'[m] <= left'[u]
    <3>1. left'[m] <= left'[t]
      BY <1>1, <2>1, <2>2 DEF m
    <3> QED
      BY <1>2, <2>2, <3>1
  <2>4. left'[Top(queued', left')] = left[m] /\ m \in queued'
    BY <1>2, <1>3, <2>2, <2>3, TopLeft
  <2>5. \A u \in queued' : left'[u] >= 0 /\ (~fd.readable => left'[u] > 0)
    <3>1. left'[t] >= 0
      BY <1>1
    <3> QED
      BY <1>2, <3>1 DEF QueuePart
  <2>6. Walking' = Walking
    BY DEF Walking
  <2> QED
    BY <2>1, <2>4, <2>5, <2>6 DEF QueuePart, m
<1> QED
  BY <1>5, <1>6

LEMMA PromptInit == Init => PromptInv
<1> SUFFICES ASSUME Init PROVE PromptInv
  OBVIOUS
<1>1. queued = {} /\ In("adding") = {} /\ In("expired") = {}
  BY DEF Init, queued, In
<1>2. lag = 0 /\ ~Walking
  BY DEF Init, Walking
<1> QED
  BY <1>1, <1>2, DueInit DEF PromptInv, QueuePart, OutsidePart

LEMMA AddTimerPrompt ==
  ASSUME DueInv, QueuePart, OutsidePart, NEW delay \in Int, delay > 0,
         NEW interval \in Intervals \cup {0}, AddTimer(delay, interval)
  PROVE  QueuePart' /\ OutsidePart'
<1>1. /\ made' \in Timers /\ phase[made'] = "unmade"
      /\ left' = [left EXCEPT ![made'] = delay] /\ left' \in [Timers -> Int]
      /\ pc' = pc /\ lag' = lag
  BY NewTimerFacts DEF AddTimer
<1>2. phase \in [Timers -> Phases] /\ left \in [Timers -> Int]
  BY DEF DueInv, TypeOK
<1>3. /\ left'[made'] > 0 /\ made' \notin queued
      /\ \A u \in queued : left'[u] = left[u]
      /\ \A u \in Timers : u # made' => left'[u] = left[u]
  BY <1>1, <1>2 DEF queued, In
<1>4. CASE InLoopThread /\ AddTimerInLoop(made') /\ UNCHANGED functors
  <2>1. QueuePart'
    BY <1>1, <1>3, <1>4, AddInLoopArms
  <2>2. phase' = [phase EXCEPT ![made'] = "queued"]
    BY <1>4 DEF AddTimerInLoop
  <2>3. OutsidePart'
    BY <1>1, <1>2, <1>3, <2>2 DEF OutsidePart, In
  <2> QED
    BY <2>1, <2>3
<1>5. CASE phase' = [phase EXCEPT ![made'] = "adding"] /\ UNCHANGED fd
  <2>1. queued' = queued /\ In("expired")' = In("expired")
        /\ In("adding")' = In("adding") \cup {made'}
    BY <1>1, <1>2, <1>5 DEF queued, In
  <2>2. queued \in SUBSET Timers /\ In("expired") \subseteq Timers /\ In("adding") \subseteq Timers
        /\ made' \notin In("expired") /\ made' \notin In("adding")
    BY <1>1 DEF queued, In
  <2>3. OutsidePart'
    BY <1>1, <1>3, <2>1, <2>2 DEF OutsidePart
  <2>4. queued # {} => left'[Top(queued, left')] = left[Top(queued, left)]
    <3> SUFFICES ASSUME queued # {} PROVE left'[Top(queued, left')] = left[Top(queued, left)]
      OBVIOUS
    <3> DEFINE m == Top(queued, left)
    <3>1. m \in queued /\ \A u \in queued : left[m] <= left[u]
      BY <1>2, <2>2, TopFacts
    <3> HIDE DEF m
    <3>2. left'[m] = left[m] /\ \A u \in queued : left'[m] <= left'[u]
      BY <1>3, <3>1
    <3>3. left'[Top(queued, left')] = left'[m]
      BY <1>1, <2>2, <3>1, <3>2, TopLeft
    <3> QED
      BY <3>2, <3>3 DEF m
  <2>5. QueuePart'
    BY <1>1, <1>3, <1>5, <2>1, <2>4 DEF QueuePart, Walking
  <2> QED
    BY <2>3, <2>5
<1> QED
  BY <1>4, <1>5 DEF AddTimer

LEMMA RunFunctorPrompt ==
  ASSUME DueInv, QueuePart, OutsidePart, RunFunctor
  PROVE  QueuePart' /\ OutsidePart'
<1> DEFINE f == Head(batch)
<1>1. /\ batch # <<>>
      /\ \/ f.op = "add" /\ UNCHANGED <<left, deleted>> /\ AddTimerInLoop(f.t)
         \/ f.op = "cancel" /\ CancelInLoop(f.t) /\ UNCHANGED <<left, phase, fd>>
      /\ pc' = pc /\ lag' = lag
  BY DEF RunFunctor
<1>2. batch \in Seq(Functor) /\ phase \in [Timers -> Phases] /\ left \in [Timers -> Int]
  BY DEF DueInv, AddOnce, TypeOK
<1>3. f.t \in Timers /\ (f.op = "add" => phase[f.t] = "adding")
  <2>1. f = batch[1] /\ 1 \in DOMAIN batch
    BY <1>1, <1>2, TailFacts
  <2> HIDE DEF f
  <2> QED
    BY <1>2, <2>1, FunctorFacts DEF DueInv, AddOnce
<1> HIDE DEF f
<1>4. CASE f.op = "add" /\ UNCHANGED <<left, deleted>> /\ AddTimerInLoop(f.t)
  <2>1. f.t \in In("adding") /\ f.t \notin queued
    BY <1>3, <1>4 DEF queued, In
  <2>2. QueuePart'
    BY <1>1, <1>2, <1>3, <1>4, <2>1, AddInLoopArms DEF OutsidePart
  <2>3. phase' = [phase EXCEPT ![f.t] = "queued"]
    BY <1>4 DEF AddTimerInLoop
  <2>4. In("adding")' \subseteq In("adding") /\ In("expired")' \subseteq In("expired")
    BY <1>2, <1>3, <2>3 DEF In
  <2> QED
    BY <1>1, <1>4, <2>2, <2>4 DEF OutsidePart
<1>5. CASE UNCHANGED <<left, phase, fd>>
  BY <1>1, <1>5 DEF QueuePart, OutsidePart, Walking, queued, In
<1> QED
  BY <1>1, <1>4, <1>5

LEMMA HandleReadPrompt ==
  ASSUME DueInv, QueuePart, OutsidePart, HandleRead
  PROVE  QueuePart' /\ OutsidePart'
<1> DEFINE due == {t \in queued : left[t] <= 0}
<1>1. /\ phase' = [t \in Timers |-> IF t \in due \ deleted THEN "expired"
                                    ELSE IF t \in due THEN "over" ELSE phase[t]]
      /\ pc' = "expired" /\ lag' = 0 /\ fd' = [fd EXCEPT !.readable = FALSE] /\ left' = left
  BY DEF HandleRead, GetExpired
<1>2. /\ phase \in [Timers -> Phases] /\ left \in [Timers -> Int]
      /\ fd \in [left : Nat, readable : BOOLEAN]
  BY DEF DueInv, TypeOK
<1>3. /\ queued' \subseteq queued \ due /\ In("adding")' \subseteq In("adding")
      /\ In("expired")' \subseteq In("expired") \cup queued
  BY <1>1, <1>2 DEF queued, In
<1>4. \A t \in queued \ due : left[t] > 0 /\ left[t] >= 0
  BY <1>2 DEF queued, In, QueuePart
<1>5. Walking' /\ ~fd'.readable
  BY <1>1, <1>2 DEF Walking
<1>6. QueuePart'
  BY <1>1, <1>3, <1>4, <1>5 DEF QueuePart
<1>7. OutsidePart'
  BY <1>1, <1>3 DEF OutsidePart, QueuePart
<1> QED
  BY <1>6, <1>7

LEMMA ResetPrompt ==
  ASSUME DueInv, QueuePart, OutsidePart, Reset
  PROVE  QueuePart' /\ OutsidePart'
<1>1. pc = "expired" /\ pc' = "io" /\ lag' = 0
  BY DEF Reset
<1>2. PICK rest \in SUBSET (queued \cup Restarts), l \in [Timers -> Int] :
        /\ l = [t \in Timers |-> IF t \in Restarts THEN every[t] - lag ELSE left[t]]
        /\ phase' = [t \in Timers |-> IF t \in rest THEN "queued"
                                      ELSE IF t \in queued \cup In("expired") THEN "over"
                                      ELSE phase[t]]
        /\ left' = l /\ Rearm(rest, l)
  BY ResetFacts DEF DueInv
<1>3. phase \in [Timers -> Phases] /\ left \in [Timers -> Int]
  BY DEF DueInv, TypeOK
<1>4. Restarts \subseteq Timers /\ \A t \in Restarts : every[t] > 0 /\ every[t] \in Int
  <2>1. Intervals \cup {0} \subseteq Int /\ every \in [Timers -> Intervals \cup {0}]
    BY TimerAssumption DEF DueInv, TypeOK
  <2> QED
    BY <2>1 DEF Restarts, In
<1>5. queued \subseteq Timers /\ rest \in SUBSET Timers
  BY <1>2, <1>4 DEF queued, In
<1>6. \A t \in rest : l[t] > 0
  <2> SUFFICES ASSUME NEW t \in rest PROVE l[t] > 0
    OBVIOUS
  <2>1. CASE t \in Restarts
    <3>1. lag = 0 /\ every[t] > 0 /\ every[t] \in Int /\ t \in Timers
      BY <1>4, <2>1 DEF OutsidePart
    <3>2. every[t] - lag > 0
      BY <3>1
    <3> QED
      BY <1>2, <2>1, <3>1, <3>2
  <2>2. CASE t \notin Restarts
    <3>1. t \in queued /\ t \in Timers
      BY <1>2, <1>5, <2>2
    <3>2. left[t] > 0
      BY <1>1, <3>1 DEF QueuePart, Walking
    <3> QED
      BY <1>2, <2>2, <3>1, <3>2
  <2> QED
    BY <2>1, <2>2
<1>7. queued' = rest /\ In("expired")' = {} /\ In("adding")' \subseteq In("adding")
  BY <1>2, <1>3, <1>5, <1>4 DEF queued, In
<1>8. \A t \in rest : l[t] >= 0
  <2> SUFFICES ASSUME NEW t \in rest PROVE l[t] >= 0
    OBVIOUS
  <2>1. l[t] \in Int /\ l[t] > 0
    BY <1>5, <1>6
  <2> QED
    BY <2>1
<1>9. ASSUME rest # {} PROVE fd' = [left |-> l[Top(rest, l)], readable |-> FALSE]
  <2>1. Top(rest, l) \in rest
    BY <1>5, <1>9, TopFacts
  <2>2. l[Top(rest, l)] > 0 /\ l[Top(rest, l)] \in Int
    BY <1>5, <1>6, <2>1
  <2> QED
    BY <1>2, <1>9, <2>2 DEF Rearm, ResetTimerFd
<1>10. QueuePart'
  <2>1. ~Walking'
    BY <1>1 DEF Walking
  <2>2. rest # {} => fd'.left = l[Top(rest, l)]
    BY <1>9
  <2> QED
    BY <1>2, <1>6, <1>7, <1>8, <2>1, <2>2 DEF QueuePart
<1>11. OutsidePart'
  <2>1. \A t \in In("adding") : t \in Timers /\ t \notin Restarts
    BY DEF In, Restarts
  <2>2. \A t \in In("adding")' : l[t] > 0
    BY <1>2, <1>7, <2>1 DEF OutsidePart
  <2> QED
    BY <1>1, <1>2, <1>7, <2>2 DEF OutsidePart
<1> QED
  BY <1>10, <1>11

LEMMA TickPrompt ==
  ASSUME DueInv, QueuePart, OutsidePart, prompt, Tick
  PROVE  QueuePart' /\ OutsidePart'
<1>1. /\ pc = "poll" /\ ~fd.readable /\ functors = <<>> /\ batch = <<>>
      /\ left' = [t \in Timers |-> IF phase[t] \in {"unmade", "over"} \/ left[t] = -MaxLate
                                   THEN left[t] ELSE left[t] - 1]
      /\ fd' = IF fd.left = 0 THEN fd
               ELSE [left |-> fd.left - 1, readable |-> fd.readable \/ fd.left = 1]
      /\ lag' = lag /\ phase' = phase /\ pc' = pc
  BY DEF Tick, Idle, DueInv, TypeOK
<1>2. left \in [Timers -> Int] /\ fd \in [left : Nat, readable : BOOLEAN] /\ MaxLate \in Nat
  BY TimerAssumption DEF DueInv, TypeOK
<1>3. In("adding") = {} /\ In("expired") = {}
  <2>1. DOMAIN functors = {} /\ DOMAIN batch = {}
    BY <1>1
  <2> QED
    BY <1>1, <2>1 DEF DueInv, Waits, In, TypeOK
<1>4. queued' = queued /\ In("adding")' = {} /\ In("expired")' = {}
  BY <1>1, <1>3 DEF queued, In
<1>5. ASSUME NEW t \in queued PROVE left'[t] = left[t] - 1 /\ left[t] \in Int /\ left[t] > 0
  <2>1. t \in Timers /\ phase[t] = "queued" /\ left[t] > 0 /\ left[t] \in Int
    BY <1>1, <1>2, <1>5 DEF QueuePart, queued, In
  <2>2. left[t] # -MaxLate
    BY <1>2, <2>1
  <2> QED
    BY <1>1, <2>1, <2>2
<1>6. QueuePart'
  <2>1. CASE queued = {}
    BY <1>1, <1>4, <2>1 DEF QueuePart, Walking
  <2>2. CASE queued # {}
    <3> DEFINE m == Top(queued, left)
    <3>1. /\ m \in queued /\ fd.left = left[m] /\ queued \in SUBSET Timers
          /\ \A u \in queued : left[m] <= left[u]
      <4>1. queued \in SUBSET Timers
        BY DEF queued, In
      <4> QED
        BY <1>1, <1>2, <2>2, <4>1, TopFacts DEF QueuePart, Walking
    <3> HIDE DEF m
    <3>2. left' \in [Timers -> Int]
      BY <1>1, <1>2
    <3>3. \A u \in queued : left'[m] <= left'[u]
      <4> SUFFICES ASSUME NEW u \in queued PROVE left'[m] <= left'[u]
        OBVIOUS
      <4>1. left'[m] = left[m] - 1 /\ left[m] \in Int /\ left'[u] = left[u] - 1 /\ left[u] \in Int
        BY <1>5, <3>1
      <4> QED
        BY <3>1, <4>1
    <3>4. left'[Top(queued, left')] = left[m] - 1 /\ left[m] \in Int /\ left[m] > 0
      BY <1>5, <3>1, <3>2, <3>3, TopLeft
    <3>5. fd'.left = left[m] - 1 /\ (~fd'.readable => left[m] > 1)
      <4>1. fd' = [left |-> fd.left - 1, readable |-> fd.readable \/ fd.left = 1]
        BY <1>1, <3>1, <3>4
      <4>2. fd'.left = fd.left - 1 /\ (fd.left = 1 => fd'.readable)
        BY <4>1
      <4> QED
        BY <3>1, <3>4, <4>2
    <3>6. ASSUME NEW u \in queued PROVE left'[u] >= 0 /\ (~fd'.readable => left'[u] > 0)
      <4>1. left'[u] = left[u] - 1 /\ left[u] \in Int /\ left[u] > 0 /\ left[m] <= left[u]
        BY <1>5, <3>1
      <4> QED
        BY <3>4, <3>5, <4>1
    <3> QED
      BY <1>1, <1>4, <3>4, <3>5, <3>6 DEF QueuePart, Walking
  <2> QED
    BY <2>1, <2>2
<1> QED
  BY <1>1, <1>4, <1>6 DEF OutsidePart

LEMMA QuietPrompt ==
  ASSUME DueInv, QueuePart, OutsidePart, UNCHANGED <<phase, left, fd, lag>>, Walking' <=> Walking
  PROVE  QueuePart' /\ OutsidePart'
BY DEF QueuePart, OutsidePart, queued, In

LEMMA PromptStep ==
  ASSUME PositiveDelays, PromptInv, [Next]_vars
  PROVE  PromptInv'
<1>1. DueInv' /\ prompt' = prompt
  <2>1. DueInv'
    BY DueStep DEF PromptInv
  <2>2. prompt' = prompt
    BY DEF Next, LoopStep, Poll, PollOther, WakeUp, HandleRead, NextExpired, CallbackReturns, Reset,
           RunFunctors, RunFunctor, EndFunctors, Tick, AddTimer, Cancel, vars
  <2> QED
    BY <2>1, <2>2
<1> SUFFICES ASSUME prompt PROVE QueuePart' /\ OutsidePart'
  BY <1>1 DEF PromptInv
<1>2. DueInv /\ QueuePart /\ OutsidePart
  BY DEF PromptInv
<1>3. ASSUME NEW d \in Delays, AddTimer(d, 0) PROVE QueuePart' /\ OutsidePart'
  <2>1. d \in Int /\ d > 0
    BY TimerAssumption DEF PositiveDelays
  <2> QED
    BY <1>2, <1>3, <2>1, AddTimerPrompt
<1>4. ASSUME NEW i \in Intervals, AddTimer(i, i) PROVE QueuePart' /\ OutsidePart'
  <2>1. i \in Int /\ i > 0
    BY TimerAssumption
  <2> QED
    BY <1>2, <1>4, <2>1, AddTimerPrompt
<1>5. ASSUME NEW t \in Timers, Cancel(t) PROVE QueuePart' /\ OutsidePart'
  BY <1>2, <1>5, QuietPrompt DEF Cancel, Walking
<1>6. CASE WakeUp \/ CallbackReturns \/ EndFunctors \/ RunFunctors
  BY <1>2, <1>6, QuietPrompt
     DEF WakeUp, CallbackReturns, EndFunctors, RunFunctors, timerVars, Walking
<1>7. CASE NextExpired
  BY <1>2, <1>7, QuietPrompt DEF NextExpired, Walking
<1>8. CASE HandleRead \/ Reset \/ RunFunctor \/ Tick
  BY <1>2, <1>8, HandleReadPrompt, ResetPrompt, RunFunctorPrompt, TickPrompt
<1>9. CASE UNCHANGED vars
  BY <1>2, <1>9, QuietPrompt DEF vars, timerVars, Walking
<1> QED
  BY <1>3, <1>4, <1>5, <1>6, <1>7, <1>8, <1>9 DEF Next, LoopStep, Poll, PollOther

\* Whenever a prompt loop may sleep, the timerfd is armed for the first timer, or
\* has reported it, whatever was added, cancelled and restarted.
THEOREM TimerFdIsArmed == ASSUME PositiveDelays PROVE Spec => []ArmedForTop
<1>1. PromptInv => ArmedForTop
  BY DEF PromptInv, DueInv, QueuePart, Walking, ArmedForTop
<1> QED
  BY PromptInit, PromptStep, <1>1, PTL DEF Spec

\* No timer of a prompt loop is late.
THEOREM TimersAreNeverLate == ASSUME PositiveDelays PROVE Spec => []NeverLate
<1>1. PromptInv => NeverLate
  BY DEF PromptInv, QueuePart, OutsidePart, NeverLate
<1> QED
  BY PromptInit, PromptStep, <1>1, PTL DEF Spec
=============================================================================
