---------------------------- MODULE Server_proofs ----------------------------
(***************************************************************************)
(* Proofs about Server, for any number of clients, other files, threads    *)
(* and descriptors: no client that waits is forgotten by the edge-triggered*)
(* watch, and every descriptor that accept() returned has an owner.        *)
(***************************************************************************)
EXTENDS Server, FiniteSetTheorems, TLAPS

(***************************************************************************)
(* The invariant.                                                          *)
(***************************************************************************)

\* loops_ is filled by start() and has numThreads_ loops from then on.
PoolSettled == IF pc = "made" THEN loops = 0 ELSE loops = numThreads

\* Where the base loop's thread stands with the watch and the spare descriptor.
Watch ==
  /\ watched <=> pc \notin {"made", "listen", "enable"}
  /\ pc \in {"acceptIdle", "openIdle"} => idle = NoFile
  /\ idle \in Clients => pc = "dropIdle" /\ stage[idle] = "accepted"

NoRepeats(s) == \A i, j \in DOMAIN s : s[i] = s[j] => i = j

\* A client waits once in the backlog, and is dealt once to one loop.
Waits ==
  /\ NoRepeats(backlog)
  /\ \A i \in DOMAIN backlog : stage[backlog[i]] = "waiting"
Deals ==
  \A l \in Loops :
    /\ NoRepeats(queue[l])
    /\ \A i \in DOMAIN queue[l] : stage[queue[l][i]] = "dealt" /\ home[queue[l][i]] = l

ServerInv ==
  /\ TypeOK /\ PoolSettled /\ Watch /\ Waits /\ Deals
  /\ NoDescriptorLeaks /\ NobodyForgotten

(***************************************************************************)
(* Sequences.                                                              *)
(***************************************************************************)
LEMMA AppendSeq ==
  ASSUME NEW S, NEW s \in Seq(S), NEW c \in S
  PROVE  /\ Append(s, c) \in Seq(S) /\ Append(s, c) # <<>>
         /\ DOMAIN s = 1..Len(s) /\ Len(s) \in Nat
         /\ DOMAIN Append(s, c) = 1..(Len(s) + 1)
         /\ \A i \in DOMAIN s : i \in DOMAIN Append(s, c) /\ Append(s, c)[i] = s[i]
         /\ \A i \in DOMAIN Append(s, c) : i \in DOMAIN s \/ i = Len(s) + 1
         /\ Append(s, c)[Len(s) + 1] = c
         /\ Len(s) + 1 \in DOMAIN Append(s, c)
  OBVIOUS

LEMMA AppendNew ==
  ASSUME NEW S, NEW s \in Seq(S), NEW c \in S, NoRepeats(s),
         \A i \in DOMAIN s : s[i] # c
  PROVE  NoRepeats(Append(s, c))
<1> DEFINE t == Append(s, c)
<1>1. /\ \A i \in DOMAIN s : t[i] = s[i]
      /\ \A i \in DOMAIN t : i \in DOMAIN s \/ i = Len(s) + 1
      /\ t[Len(s) + 1] = c
  BY AppendSeq
<1> HIDE DEF t
<1>2. NoRepeats(t)
  BY <1>1 DEF NoRepeats
<1> QED
  BY <1>2 DEF t

LEMMA TailSeq ==
  ASSUME NEW S, NEW s \in Seq(S), s # <<>>
  PROVE  /\ Head(s) \in S /\ Head(s) = s[1] /\ 1 \in DOMAIN s
         /\ Tail(s) \in Seq(S)
         /\ \A i \in DOMAIN Tail(s) : i + 1 \in DOMAIN s /\ Tail(s)[i] = s[i + 1] /\ i \in Nat
         /\ \A i \in DOMAIN s : i = 1 \/ (i - 1 \in DOMAIN Tail(s) /\ Tail(s)[i - 1] = s[i])
  OBVIOUS

LEMMA TailLoses ==
  ASSUME NEW S, NEW s \in Seq(S), s # <<>>, NoRepeats(s)
  PROVE  /\ NoRepeats(Tail(s))
         /\ \A i \in DOMAIN Tail(s) : Tail(s)[i] # Head(s)
         /\ \A i \in DOMAIN s : s[i] # Head(s) => \E j \in DOMAIN Tail(s) : Tail(s)[j] = s[i]
<1> DEFINE t == Tail(s)
<1>1. /\ Head(s) = s[1] /\ 1 \in DOMAIN s
      /\ \A i \in DOMAIN t : i + 1 \in DOMAIN s /\ t[i] = s[i + 1] /\ i \in Nat
      /\ \A i \in DOMAIN s : i = 1 \/ (i - 1 \in DOMAIN t /\ t[i - 1] = s[i])
  BY TailSeq
<1>2. \A i \in DOMAIN t : i # 0
  OBVIOUS
<1> HIDE DEF t
<1>3. NoRepeats(t)
  <2> SUFFICES ASSUME NEW i \in DOMAIN t, NEW j \in DOMAIN t, t[i] = t[j] PROVE i = j
    BY DEF NoRepeats
  <2>1. i + 1 = j + 1
    BY <1>1 DEF NoRepeats
  <2> QED
    BY <1>1, <2>1
<1>4. \A i \in DOMAIN t : t[i] # Head(s)
  <2> SUFFICES ASSUME NEW i \in DOMAIN t, t[i] = Head(s) PROVE FALSE
    OBVIOUS
  <2>1. i + 1 = 1 /\ i \in Nat
    BY <1>1 DEF NoRepeats
  <2> QED
    BY <1>2, <2>1
<1>5. \A i \in DOMAIN s : s[i] # Head(s) => \E j \in DOMAIN t : t[j] = s[i]
  BY <1>1
<1> QED
  BY <1>3, <1>4, <1>5 DEF t

(***************************************************************************)
(* Types.                                                                  *)
(***************************************************************************)
LEMMA NextLoop ==
  ASSUME TypeOK
  PROVE  GetNextLoop \in Loops
BY ServerAssumption DEF TypeOK, GetNextLoop, Loops, Base

LEMMA TypesInit == Init => TypeOK /\ PoolSettled
<1> SUFFICES ASSUME Init PROVE TypeOK /\ PoolSettled
  OBVIOUS
<1>1. <<>> \in Seq(Clients) /\ 0 \in 0..MaxThreads
  BY ServerAssumption
<1>2. queue \in [Loops -> Seq(Clients)] /\ home \in [Clients -> Loops \cup {NoLoop}]
  BY <1>1 DEF Init
<1> QED
  BY <1>1, <1>2 DEF Init, TypeOK, PoolSettled, InHandler

LEMMA TypesStep == TypeOK /\ PoolSettled /\ [Next]_vars => (TypeOK /\ PoolSettled)'
<1> SUFFICES ASSUME TypeOK, PoolSettled, [Next]_vars PROVE (TypeOK /\ PoolSettled)'
  OBVIOUS
<1> USE DEF TypeOK, PoolSettled, InHandler
<1>1. ASSUME NEW n \in 0..MaxThreads, SetThreadNum(n) PROVE (TypeOK /\ PoolSettled)'
  BY <1>1 DEF SetThreadNum
<1>2. CASE StartUp
  BY <1>2 DEF StartUp, Start, Listen, EnableEvents, pool
<1>3. CASE Poll \/ AcceptDone \/ AcceptFull \/ CloseIdle \/ DropIdle \/ OpenIdle \/ EndRun
  BY <1>3 DEF Poll, AcceptDone, AcceptFull, CloseIdle, DropIdle, OpenIdle, EndRun, pool
<1>4. CASE Accept
  <2>1. Head(backlog) \in Clients /\ Tail(backlog) \in Seq(Clients)
    BY <1>4, TailSeq DEF Accept
  <2>2. GetNextLoop \in Loops
    BY NextLoop
  <2>3. next' \in Nat /\ (loops = 0 => next' = 0) /\ (loops > 0 => next' < loops)
    BY <1>4 DEF Accept, NewConnection, NextIndex
  <2>4. queue' \in [Loops -> Seq(Clients)]
    BY <1>4, <2>1, <2>2, AppendSeq DEF Accept, NewConnection
  <2> QED
    BY <1>4, <2>1, <2>2, <2>3, <2>4 DEF Accept, NewConnection
<1>5. CASE AcceptAborted \/ AcceptIdle
  <2>1. backlog # <<>> => Head(backlog) \in Clients /\ Tail(backlog) \in Seq(Clients)
    BY TailSeq
  <2>2. CASE AcceptAborted
    BY <2>1, <2>2 DEF AcceptAborted, pool
  <2>3. CASE AcceptIdle /\ Room /\ backlog # <<>>
    BY <2>1, <2>3 DEF AcceptIdle, pool
  <2>4. CASE AcceptIdle /\ ~(Room /\ backlog # <<>>)
    BY <2>4 DEF AcceptIdle, pool
  <2> QED
    BY <1>5, <2>2, <2>3, <2>4
<1>6. ASSUME NEW c \in Clients, Connect(c) \/ Leave(c) \/ CloseConnection(c)
      PROVE  (TypeOK /\ PoolSettled)'
  <2>1. CASE Connect(c)
    <3>1. backlog' \in Seq(Clients) /\ edge' \in BOOLEAN
      BY <2>1 DEF Connect
    <3> QED
      BY <2>1, <3>1 DEF Connect, pool
  <2>2. CASE Leave(c) \/ CloseConnection(c)
    BY <2>2 DEF Leave, CloseConnection, pool
  <2> QED
    BY <1>6, <2>1, <2>2
<1>7. ASSUME NEW o \in Others, OpenFile(o) \/ CloseFile(o) PROVE (TypeOK /\ PoolSettled)'
  BY <1>7 DEF OpenFile, CloseFile, pool
<1>8. ASSUME NEW l \in Loops, Create(l) PROVE (TypeOK /\ PoolSettled)'
  BY <1>8, TailSeq DEF Create, pool
<1>9. CASE UNCHANGED vars
  BY <1>9 DEF vars, pool
<1> QED
  BY <1>1, <1>2, <1>3, <1>4, <1>5, <1>6, <1>7, <1>8, <1>9 DEF Next, AcceptHandRead

\* The variables that say where clients are.
clientVars == <<backlog, stage, home, queue>>

LEMMA ClientsStay ==
  ASSUME ServerInv, UNCHANGED clientVars, TypeOK', PoolSettled', Watch', NobodyForgotten',
         \A c \in Clients : idle = c => idle' = c
  PROVE  ServerInv'
<1>1. Waits' /\ Deals'
  BY DEF ServerInv, Waits, Deals, clientVars
<1>2. NoDescriptorLeaks'
  BY DEF ServerInv, NoDescriptorLeaks, Connected, clientVars
<1> QED
  BY <1>1, <1>2 DEF ServerInv

(***************************************************************************)
(* The steps that move a client.  Each takes it from one place to another. *)
(***************************************************************************)
LEMMA ConnectStep ==
  ASSUME ServerInv, NEW c \in Clients, Connect(c), TypeOK', PoolSettled'
  PROVE  ServerInv'
<1>1. /\ stage[c] = "away" /\ stage' = [stage EXCEPT ![c] = "waiting"]
      /\ backlog' = Append(backlog, c) /\ edge' = watched
      /\ UNCHANGED <<pc, watched, home, queue, idle>>
  BY DEF Connect
<1>2. /\ stage \in [Clients -> {"away", "waiting", "accepted", "dealt", "served", "closed"}]
      /\ backlog \in Seq(Clients) /\ queue \in [Loops -> Seq(Clients)]
  BY DEF ServerInv, TypeOK
<1>3. stage'[c] = "waiting" /\ \A d \in Clients : d # c => stage'[d] = stage[d]
  BY <1>1, <1>2
<1>4. Watch'
  BY <1>1, <1>3 DEF ServerInv, Watch
<1>5. Waits'
  <2>1. \A i \in DOMAIN backlog : backlog[i] # c /\ backlog[i] \in Clients
    BY <1>1, <1>2 DEF ServerInv, Waits
  <2>2. NoRepeats(backlog')
    BY <1>1, <1>2, <2>1, AppendNew DEF ServerInv, Waits
  <2>3. \A i \in DOMAIN backlog' : stage'[backlog'[i]] = "waiting"
    BY <1>1, <1>2, <1>3, <2>1, AppendSeq DEF ServerInv, Waits
  <2> QED
    BY <2>2, <2>3 DEF Waits
<1>6. Deals'
  <2>1. \A l \in Loops : \A i \in DOMAIN queue[l] : queue[l][i] \in Clients /\ queue[l][i] # c
    BY <1>1, <1>2 DEF ServerInv, Deals
  <2> QED
    BY <1>1, <1>3, <2>1 DEF ServerInv, Deals
<1>7. NoDescriptorLeaks'
  BY <1>1, <1>3 DEF ServerInv, NoDescriptorLeaks, Connected
<1>8. NobodyForgotten'
  BY <1>1 DEF NobodyForgotten
<1> QED
  BY <1>4, <1>5, <1>6, <1>7, <1>8 DEF ServerInv

\* What the accepting thread may rely on for the first client in the backlog.
LEMMA FirstClient ==
  ASSUME ServerInv, backlog # <<>>
  PROVE  /\ Head(backlog) \in Clients /\ stage[Head(backlog)] = "waiting"
         /\ Tail(backlog) \in Seq(Clients) /\ NoRepeats(Tail(backlog))
         /\ \A i \in DOMAIN Tail(backlog) :
              /\ Tail(backlog)[i] \in Clients /\ Tail(backlog)[i] # Head(backlog)
              /\ stage[Tail(backlog)[i]] = "waiting"
         /\ \A l \in Loops : \A i \in DOMAIN queue[l] :
              queue[l][i] \in Clients /\ queue[l][i] # Head(backlog)
<1>1. backlog \in Seq(Clients) /\ queue \in [Loops -> Seq(Clients)]
      /\ NoRepeats(backlog) /\ \A i \in DOMAIN backlog : stage[backlog[i]] = "waiting"
  BY DEF ServerInv, TypeOK, Waits
<1>2. Head(backlog) \in Clients /\ stage[Head(backlog)] = "waiting"
  BY <1>1, TailSeq
<1>3. Tail(backlog) \in Seq(Clients) /\ NoRepeats(Tail(backlog))
      /\ \A i \in DOMAIN Tail(backlog) :
           Tail(backlog)[i] # Head(backlog) /\ stage[Tail(backlog)[i]] = "waiting"
           /\ Tail(backlog)[i] \in Clients
  BY <1>1, TailSeq, TailLoses, SMTT(30)
<1>4. \A l \in Loops : \A i \in DOMAIN queue[l] :
        queue[l][i] \in Clients /\ queue[l][i] # Head(backlog)
  BY <1>1, <1>2 DEF ServerInv, Deals
<1> QED
  BY <1>2, <1>3, <1>4

LEMMA AcceptStep ==
  ASSUME ServerInv, Accept, TypeOK', PoolSettled'
  PROVE  ServerInv'
<1> DEFINE c == Head(backlog)
           k == GetNextLoop
<1>1. /\ backlog # <<>> /\ backlog' = Tail(backlog) /\ pc = "accept"
      /\ stage' = [stage EXCEPT ![c] = "dealt"]
      /\ home' = [home EXCEPT ![c] = k]
      /\ queue' = [queue EXCEPT ![k] = Append(@, c)]
      /\ UNCHANGED <<pc, watched, edge, idle>>
  BY DEF Accept, NewConnection
<1>2. /\ c \in Clients /\ stage[c] = "waiting" /\ NoRepeats(Tail(backlog))
      /\ \A i \in DOMAIN Tail(backlog) :
           /\ Tail(backlog)[i] \in Clients /\ Tail(backlog)[i] # c
           /\ stage[Tail(backlog)[i]] = "waiting"
      /\ \A l \in Loops : \A i \in DOMAIN queue[l] : queue[l][i] \in Clients /\ queue[l][i] # c
  BY <1>1, FirstClient
<1>3. k \in Loops
  BY NextLoop DEF ServerInv
<1> HIDE DEF c, k
<1>4. /\ stage'[c] = "dealt" /\ home'[c] = k
      /\ \A d \in Clients : d # c => stage'[d] = stage[d] /\ home'[d] = home[d]
      /\ queue'[k] = Append(queue[k], c)
      /\ \A l \in Loops : l # k => queue'[l] = queue[l]
      /\ \A l \in Loops : queue[l] \in Seq(Clients)
  BY <1>1, <1>2, <1>3 DEF ServerInv, TypeOK
<1>5. Watch'
  BY <1>1, <1>2, <1>4 DEF ServerInv, Watch
<1>6. Waits'
  BY <1>1, <1>2, <1>4 DEF Waits
<1>7. Deals'
  <2> SUFFICES ASSUME NEW l \in Loops
               PROVE  /\ NoRepeats(queue'[l])
                      /\ \A i \in DOMAIN queue'[l] :
                           stage'[queue'[l][i]] = "dealt" /\ home'[queue'[l][i]] = l
    BY DEF Deals
  <2>1. /\ NoRepeats(queue[l])
        /\ \A i \in DOMAIN queue[l] :
             stage'[queue[l][i]] = "dealt" /\ home'[queue[l][i]] = l
    BY <1>2, <1>4 DEF ServerInv, Deals
  <2>2. CASE l = k
    <3>1. queue[k] \in Seq(Clients) /\ NoRepeats(queue[k])
          /\ \A i \in DOMAIN queue[k] : queue[k][i] # c
      BY <1>2, <1>3, <1>4, <2>1, <2>2, SMTT(30)
    <3>2. NoRepeats(Append(queue[k], c))
      BY <1>2, <3>1, AppendNew
    <3>3. \A i \in DOMAIN Append(queue[k], c) :
            \/ i \in DOMAIN queue[k] /\ Append(queue[k], c)[i] = queue[k][i]
            \/ Append(queue[k], c)[i] = c
      BY <1>2, <3>1, AppendSeq
    <3>4. \A i \in DOMAIN Append(queue[k], c) :
            /\ stage'[Append(queue[k], c)[i]] = "dealt"
            /\ home'[Append(queue[k], c)[i]] = k
      <4> SUFFICES ASSUME NEW i \in DOMAIN Append(queue[k], c)
                   PROVE  /\ stage'[Append(queue[k], c)[i]] = "dealt"
                          /\ home'[Append(queue[k], c)[i]] = k
        OBVIOUS
      <4>1. CASE i \in DOMAIN queue[k] /\ Append(queue[k], c)[i] = queue[k][i]
        BY <2>1, <2>2, <4>1
      <4>2. CASE Append(queue[k], c)[i] = c
        BY <1>4, <4>2
      <4> QED
        BY <3>3, <4>1, <4>2
    <3>5. queue'[l] = Append(queue[k], c) /\ l = k
      BY <1>4, <2>2
    <3> QED
      BY <3>2, <3>4, <3>5, ZenonT(30)
  <2>3. CASE l # k
    BY <1>4, <2>1, <2>3
  <2> QED
    BY <2>2, <2>3
<1>8. NoDescriptorLeaks'
  <2> SUFFICES ASSUME NEW d \in Clients, stage'[d] \in {"accepted", "dealt", "served"}
               PROVE  \/ stage'[d] = "accepted" /\ idle = d
                      \/ stage'[d] = "dealt" /\ home'[d] \in Loops
                         /\ \E i \in DOMAIN queue'[home'[d]] : queue'[home'[d]][i] = d
                      \/ stage'[d] = "served" /\ home'[d] \in Loops
    BY <1>1 DEF NoDescriptorLeaks, Connected
  <2>1. CASE d = c
    <3>1. Len(queue[k]) + 1 \in DOMAIN queue'[k] /\ queue'[k][Len(queue[k]) + 1] = c
      BY <1>2, <1>3, <1>4, AppendSeq
    <3> QED
      BY <1>3, <1>4, <2>1, <3>1
  <2>2. CASE d # c
    <3>1. stage'[d] = stage[d] /\ home'[d] = home[d]
      BY <1>4, <2>2
    <3>2. \/ stage[d] = "accepted" /\ idle = d
          \/ stage[d] = "dealt" /\ home[d] \in Loops
             /\ \E i \in DOMAIN queue[home[d]] : queue[home[d]][i] = d
          \/ stage[d] = "served" /\ home[d] \in Loops
      BY <3>1 DEF ServerInv, NoDescriptorLeaks, Connected
    <3>3. \A l \in Loops : \A i \in DOMAIN queue[l] :
            i \in DOMAIN queue'[l] /\ queue'[l][i] = queue[l][i]
      BY <1>2, <1>4, AppendSeq, SMTT(30)
    <3> QED
      BY <3>1, <3>2, <3>3
  <2> QED
    BY <2>1, <2>2
<1>9. NobodyForgotten'
  BY <1>1 DEF NobodyForgotten, InHandler
<1> QED
  BY <1>5, <1>6, <1>7, <1>8, <1>9 DEF ServerInv

\* A client is dropped from the backlog, or taken through the spare descriptor.
LEMMA DropStep ==
  ASSUME ServerInv, AcceptAborted \/ AcceptIdle, TypeOK', PoolSettled'
  PROVE  ServerInv'
<1> DEFINE c == Head(backlog)
<1>1. /\ UNCHANGED <<watched, edge, home, queue>> /\ pc \in {"accept", "acceptIdle"}
      /\ idle \notin Clients
      /\ pc' = pc \/ pc' = "dropIdle"
  BY DEF AcceptAborted, AcceptIdle, ServerInv, Watch
<1>2. NobodyForgotten'
  BY <1>1 DEF NobodyForgotten, InHandler
<1>3. CASE UNCHANGED clientVars
  <2>1. idle' = idle
    BY <1>3, FirstClient DEF AcceptAborted, AcceptIdle, clientVars, ServerInv, TypeOK
  <2>2. Watch'
    BY <1>1, <2>1 DEF ServerInv, Watch
  <2> QED
    BY <1>2, <1>3, <2>1, <2>2, ClientsStay
<1>4. CASE ~UNCHANGED clientVars
  <2>1. /\ backlog # <<>> /\ backlog' = Tail(backlog)
        /\ \/ /\ stage' = [stage EXCEPT ![c] = "closed"] /\ idle' = idle /\ pc' = "accept"
           \/ /\ stage' = [stage EXCEPT ![c] = "accepted"] /\ idle' = c
              /\ pc = "acceptIdle" /\ pc' = "dropIdle"
    BY <1>4 DEF AcceptAborted, AcceptIdle, clientVars
  <2>2. /\ c \in Clients /\ stage[c] = "waiting" /\ NoRepeats(Tail(backlog))
        /\ \A i \in DOMAIN Tail(backlog) :
             /\ Tail(backlog)[i] \in Clients /\ Tail(backlog)[i] # c
             /\ stage[Tail(backlog)[i]] = "waiting"
        /\ \A l \in Loops : \A i \in DOMAIN queue[l] : queue[l][i] \in Clients /\ queue[l][i] # c
    BY <2>1, FirstClient
  <2> HIDE DEF c
  <2>3. \A d \in Clients : d # c => stage'[d] = stage[d]
    BY <2>1, <2>2 DEF ServerInv, TypeOK
  <2>4. stage'[c] = "closed" \/ (stage'[c] = "accepted" /\ idle' = c)
    BY <2>1, <2>2 DEF ServerInv, TypeOK
  <2>5. Watch'
    BY <1>1, <2>1, <2>2, <2>4 DEF ServerInv, Watch, TypeOK
  <2>6. Waits' /\ Deals'
    BY <1>1, <2>1, <2>2, <2>3 DEF ServerInv, Waits, Deals
  <2>7. NoDescriptorLeaks'
    <3> SUFFICES ASSUME NEW d \in Clients, stage'[d] \in {"accepted", "dealt", "served"}
                 PROVE  \/ stage'[d] = "accepted" /\ idle' = d
                        \/ stage[d] = "dealt" /\ stage'[d] = "dealt" /\ home[d] \in Loops
                           /\ \E i \in DOMAIN queue[home[d]] : queue[home[d]][i] = d
                        \/ stage'[d] = "served" /\ home[d] \in Loops
      BY <1>1 DEF NoDescriptorLeaks, Connected
    <3>1. CASE d = c
      BY <2>4, <3>1
    <3>2. CASE d # c
      BY <1>1, <2>3, <3>2 DEF ServerInv, NoDescriptorLeaks, Connected
    <3> QED
      BY <3>1, <3>2
  <2> QED
    BY <1>2, <2>5, <2>6, <2>7 DEF ServerInv
<1> QED
  BY <1>3, <1>4

LEMMA DropIdleStep ==
  ASSUME ServerInv, DropIdle, TypeOK', PoolSettled'
  PROVE  ServerInv'
<1>1. /\ pc = "dropIdle" /\ pc' = "openIdle" /\ idle' = NoFile
      /\ stage' = [d \in Clients |-> IF d = idle THEN "closed" ELSE stage[d]]
      /\ UNCHANGED <<watched, edge, backlog, home, queue>>
  BY DEF DropIdle
<1>2. \A d \in Clients : stage'[d] # stage[d] => d = idle /\ stage[d] = "accepted"
  BY <1>1 DEF ServerInv, Watch
<1>3. Watch'
  BY <1>1, ServerAssumption DEF ServerInv, Watch
<1>4. Waits' /\ Deals'
  <2>1. \A i \in DOMAIN backlog : backlog[i] \in Clients
    BY DEF ServerInv, TypeOK
  <2>2. \A l \in Loops : \A i \in DOMAIN queue[l] : queue[l][i] \in Clients
    BY DEF ServerInv, TypeOK
  <2>3. Waits'
    BY <1>1, <1>2, <2>1 DEF ServerInv, Waits
  <2>4. Deals'
    BY <1>1, <1>2, <2>2 DEF ServerInv, Deals
  <2> QED
    BY <2>3, <2>4
<1>5. NoDescriptorLeaks'
  <2>1. \A d \in Connected' : d \in Connected /\ stage'[d] = stage[d] /\ d # idle
    BY <1>1 DEF Connected
  <2> QED
    BY <1>1, <2>1 DEF ServerInv, NoDescriptorLeaks
<1>6. NobodyForgotten'
  BY <1>1 DEF NobodyForgotten, InHandler
<1> QED
  BY <1>3, <1>4, <1>5, <1>6 DEF ServerInv

LEMMA CreateStep ==
  ASSUME ServerInv, NEW l \in Loops, Create(l), TypeOK', PoolSettled'
  PROVE  ServerInv'
<1> DEFINE c == Head(queue[l])
<1>1. /\ queue[l] # <<>> /\ stage' = [stage EXCEPT ![c] = "served"]
      /\ queue' = [queue EXCEPT ![l] = Tail(@)]
      /\ UNCHANGED <<pc, watched, edge, backlog, home, idle>>
  BY DEF Create
<1>2. queue[l] \in Seq(Clients) /\ NoRepeats(queue[l])
  BY DEF ServerInv, TypeOK, Deals
<1>3. /\ c \in Clients /\ c = queue[l][1] /\ 1 \in DOMAIN queue[l]
      /\ NoRepeats(Tail(queue[l]))
      /\ \A i \in DOMAIN Tail(queue[l]) :
           Tail(queue[l])[i] # c /\ \E j \in DOMAIN queue[l] : Tail(queue[l])[i] = queue[l][j]
      /\ \A i \in DOMAIN queue[l] :
           queue[l][i] # c => \E j \in DOMAIN Tail(queue[l]) : Tail(queue[l])[j] = queue[l][i]
  BY <1>1, <1>2, TailSeq, TailLoses
<1>4. stage[c] = "dealt" /\ home[c] = l
  BY <1>3 DEF ServerInv, Deals
<1> HIDE DEF c
<1>5. /\ stage'[c] = "served" /\ \A d \in Clients : d # c => stage'[d] = stage[d]
      /\ queue'[l] = Tail(queue[l]) /\ \A k \in Loops : k # l => queue'[k] = queue[k]
  BY <1>1, <1>3 DEF ServerInv, TypeOK
<1>6. Watch'
  BY <1>1, <1>3, <1>4, <1>5 DEF ServerInv, Watch
<1>7. Waits'
  <2>1. \A i \in DOMAIN backlog : backlog[i] \in Clients
    BY DEF ServerInv, TypeOK
  <2> QED
    BY <1>1, <1>4, <1>5, <2>1 DEF ServerInv, Waits
<1>8. Deals'
  <2> SUFFICES ASSUME NEW k \in Loops
               PROVE  /\ NoRepeats(queue'[k])
                      /\ \A i \in DOMAIN queue'[k] :
                           stage'[queue'[k][i]] = "dealt" /\ home[queue'[k][i]] = k
    BY <1>1 DEF Deals
  <2>1. /\ NoRepeats(queue[k])
        /\ \A i \in DOMAIN queue[k] : /\ stage[queue[k][i]] = "dealt" /\ home[queue[k][i]] = k
                                      /\ queue[k][i] \in Clients
    BY DEF ServerInv, Deals, TypeOK
  <2>2. CASE k = l
    <3>1. \A i \in DOMAIN Tail(queue[l]) :
            stage'[Tail(queue[l])[i]] = "dealt" /\ home[Tail(queue[l])[i]] = l
      <4> SUFFICES ASSUME NEW i \in DOMAIN Tail(queue[l])
                   PROVE  stage'[Tail(queue[l])[i]] = "dealt" /\ home[Tail(queue[l])[i]] = l
        OBVIOUS
      <4>1. PICK j \in DOMAIN queue[l] : Tail(queue[l])[i] = queue[l][j]
        BY <1>3
      <4>2. queue[l][j] \in Clients /\ queue[l][j] # c
            /\ stage[queue[l][j]] = "dealt" /\ home[queue[l][j]] = l
        BY <1>3, <2>1, <2>2, <4>1
      <4> QED
        BY <1>5, <4>1, <4>2
    <3> QED
      BY <1>3, <1>5, <2>2, <3>1
  <2>3. CASE k # l
    <3>1. \A i \in DOMAIN queue[k] : queue[k][i] # c
      BY <1>4, <2>1, <2>3
    <3> QED
      BY <1>5, <2>1, <2>3, <3>1
  <2> QED
    BY <2>2, <2>3
<1>9. NoDescriptorLeaks'
  <2> SUFFICES ASSUME NEW d \in Clients, stage'[d] \in {"accepted", "dealt", "served"}
               PROVE  \/ stage'[d] = "accepted" /\ idle = d
                      \/ stage'[d] = "dealt" /\ home[d] \in Loops
                         /\ \E i \in DOMAIN queue'[home[d]] : queue'[home[d]][i] = d
                      \/ stage'[d] = "served" /\ home[d] \in Loops
    BY <1>1 DEF NoDescriptorLeaks, Connected
  <2>1. CASE d = c
    BY <1>4, <1>5, <2>1
  <2>2. CASE d # c
    <3>1. \/ stage[d] = "accepted" /\ idle = d
          \/ stage[d] = "dealt" /\ home[d] \in Loops
             /\ \E i \in DOMAIN queue[home[d]] : queue[home[d]][i] = d
          \/ stage[d] = "served" /\ home[d] \in Loops
      BY <1>5, <2>2 DEF ServerInv, NoDescriptorLeaks, Connected
    <3>2. ASSUME NEW k \in Loops, NEW i \in DOMAIN queue[k], queue[k][i] = d
          PROVE  \E j \in DOMAIN queue'[k] : queue'[k][j] = d
      <4>1. CASE k = l
        <5>1. PICK j \in DOMAIN Tail(queue[l]) : Tail(queue[l])[j] = queue[l][i]
          BY <1>3, <2>2, <3>2, <4>1
        <5> QED
          BY <1>5, <3>2, <4>1, <5>1
      <4>2. CASE k # l
        BY <1>5, <3>2, <4>2
      <4> QED
        BY <4>1, <4>2
    <3> QED
      BY <1>5, <2>2, <3>1, <3>2
  <2> QED
    BY <2>1, <2>2
<1>10. NobodyForgotten'
  BY <1>1 DEF ServerInv, NobodyForgotten, InHandler
<1> QED
  BY <1>6, <1>7, <1>8, <1>9, <1>10 DEF ServerInv

LEMMA CloseStep ==
  ASSUME ServerInv, NEW c \in Clients, CloseConnection(c), TypeOK', PoolSettled'
  PROVE  ServerInv'
<1>1. /\ stage[c] = "served" /\ stage' = [stage EXCEPT ![c] = "closed"]
      /\ UNCHANGED <<pc, watched, edge, backlog, home, queue, idle>>
  BY DEF CloseConnection
<1>2. stage'[c] = "closed" /\ \A d \in Clients : d # c => stage'[d] = stage[d]
  BY <1>1 DEF ServerInv, TypeOK
<1>3. Watch'
  BY <1>1, <1>2 DEF ServerInv, Watch
<1>4. Waits'
  <2>1. \A i \in DOMAIN backlog : backlog[i] \in Clients /\ backlog[i] # c
    BY <1>1 DEF ServerInv, TypeOK, Waits
  <2> QED
    BY <1>1, <1>2, <2>1 DEF ServerInv, Waits
<1>5. Deals'
  <2>1. \A l \in Loops : \A i \in DOMAIN queue[l] : queue[l][i] \in Clients /\ queue[l][i] # c
    BY <1>1 DEF ServerInv, TypeOK, Deals
  <2> QED
    BY <1>1, <1>2, <2>1 DEF ServerInv, Deals
<1>6. NoDescriptorLeaks'
  BY <1>1, <1>2 DEF ServerInv, NoDescriptorLeaks, Connected
<1>7. NobodyForgotten'
  BY <1>1 DEF ServerInv, NobodyForgotten, InHandler
<1> QED
  BY <1>3, <1>4, <1>5, <1>6, <1>7 DEF ServerInv

(***************************************************************************)
(* All steps.                                                              *)
(***************************************************************************)
LEMMA ServerInit == Init => ServerInv
<1> SUFFICES ASSUME Init PROVE ServerInv
  OBVIOUS
<1>1. TypeOK /\ PoolSettled
  BY TypesInit
<1>2. Watch
  BY ServerAssumption DEF Init, Watch
<1>3. Waits /\ Deals
  BY DEF Init, Waits, Deals, NoRepeats
<1>4. NoDescriptorLeaks /\ NobodyForgotten
  BY DEF Init, NoDescriptorLeaks, NobodyForgotten, Connected
<1> QED
  BY <1>1, <1>2, <1>3, <1>4 DEF ServerInv

LEMMA ServerStep == ServerInv /\ [Next]_vars => ServerInv'
<1> SUFFICES ASSUME ServerInv, [Next]_vars PROVE ServerInv'
  OBVIOUS
<1>0. TypeOK' /\ PoolSettled'
  BY TypesStep DEF ServerInv
<1>1. CASE (\E n \in 0..MaxThreads : SetThreadNum(n)) \/ StartUp
  <2>1. UNCHANGED clientVars /\ UNCHANGED idle
    BY <1>1 DEF SetThreadNum, StartUp, Start, Listen, EnableEvents, clientVars
  <2>2. Watch'
    BY <1>1, <2>1 DEF ServerInv, Watch, SetThreadNum, StartUp, Start, Listen, EnableEvents,
                      clientVars
  <2>3. NobodyForgotten'
    BY <1>1, <2>1 DEF ServerInv, NobodyForgotten, InHandler, SetThreadNum, StartUp, Start,
                      Listen, EnableEvents, clientVars, Watch
  <2> QED
    BY <1>0, <2>1, <2>2, <2>3, ClientsStay
<1>2. CASE Poll \/ AcceptDone \/ AcceptFull \/ CloseIdle \/ OpenIdle \/ EndRun
  <2>1. UNCHANGED clientVars /\ UNCHANGED watched
        /\ \A c \in Clients : idle = c => idle' = c
    BY <1>2 DEF ServerInv, Watch, Poll, AcceptDone, AcceptFull, CloseIdle, OpenIdle, EndRun,
                clientVars
  <2>2. Watch'
    BY <1>2, <2>1, ServerAssumption
    DEF ServerInv, Watch, Poll, AcceptDone, AcceptFull, CloseIdle, OpenIdle, EndRun, clientVars
  <2>3. NobodyForgotten'
    BY <1>2, <2>1
    DEF ServerInv, NobodyForgotten, InHandler, Poll, AcceptDone, AcceptedAll, AcceptFull,
        CloseIdle, OpenIdle, EndRun, clientVars
  <2> QED
    BY <1>0, <2>1, <2>2, <2>3, ClientsStay
<1>3. CASE (\E c \in Clients : Leave(c)) \/ (\E o \in Others : OpenFile(o) \/ CloseFile(o))
           \/ UNCHANGED vars
  <2>1. UNCHANGED <<clientVars, pc, watched, edge, idle>>
    BY <1>3 DEF Leave, OpenFile, CloseFile, vars, clientVars
  <2>2. Watch' /\ NobodyForgotten'
    BY <2>1 DEF ServerInv, Watch, NobodyForgotten, InHandler, clientVars
  <2> QED
    BY <1>0, <2>1, <2>2, ClientsStay
<1>4. CASE Accept \/ AcceptAborted \/ AcceptIdle \/ DropIdle
  BY <1>0, <1>4, AcceptStep, DropStep, DropIdleStep
<1>5. CASE \E c \in Clients : Connect(c) \/ CloseConnection(c)
  BY <1>0, <1>5, ConnectStep, CloseStep
<1>6. CASE \E l \in Loops : Create(l)
  BY <1>0, <1>6, CreateStep
<1> QED
  BY <1>1, <1>2, <1>3, <1>4, <1>5, <1>6 DEF Next, AcceptHandRead

LEMMA ServerInvariant == Spec => []ServerInv
BY ServerInit, ServerStep, PTL DEF Spec

\* acceptHandRead never returns before the backlog is empty, so that the edge-
\* triggered watch still owes an event for every client that waits, for any number
\* of clients, threads, descriptors and foreign files.
THEOREM ClientsAreNotForgotten == Spec => []NobodyForgotten
BY ServerInvariant, PTL DEF ServerInv

\* Whatever accept() returned is known to idleFd_ or to exactly one loop, also
\* while the descriptor table is full and the spare descriptor is exchanged.
THEOREM DescriptorsHaveOwners == Spec => []NoDescriptorLeaks
BY ServerInvariant, PTL DEF ServerInv

(***************************************************************************)
(* Dealing in turn.                                                        *)
(***************************************************************************)
\* Nobody comes before the socket listens, and a client has no loop until it is
\* dealt to one.
Fresh ==
  /\ ~Listening => \A c \in Clients : stage[c] = "away"
  /\ \A c \in Clients : stage[c] \in {"away", "waiting"} => home[c] = NoLoop

\* The first next_ loops of the pool are one client ahead of the others.
InTurn ==
  IF loops = 0 THEN \A l \in Loops \ {Base} : Dealt(l) = 0
  ELSE /\ Dealt(Base) = 0
       /\ \E k \in Nat : \A l \in 1..loops : Dealt(l) = IF l <= next THEN k + 1 ELSE k

DealInv == ServerInv /\ Fresh /\ InTurn

LEMMA DealtFacts ==
  ASSUME NEW l \in Loops, NEW c \in Clients, home \in [Clients -> Loops \cup {NoLoop}],
         home[c] = NoLoop, home' = [home EXCEPT ![c] = l]
  PROVE  \A k \in Loops : Dealt(k) \in Nat /\ Dealt(k)' = IF k = l THEN Dealt(k) + 1 ELSE Dealt(k)
<1> SUFFICES ASSUME NEW k \in Loops
             PROVE  Dealt(k) \in Nat /\ Dealt(k)' = IF k = l THEN Dealt(k) + 1 ELSE Dealt(k)
  OBVIOUS
<1> DEFINE S == {d \in Clients : home[d] = k}
           T == {d \in Clients : home'[d] = k}
<1>1. IsFiniteSet(S) /\ Cardinality(S) \in Nat
  <2>1. IsFiniteSet(S)
    BY ServerAssumption, FS_Subset
  <2> QED
    BY <2>1, FS_CardinalityType
<1>2. NoLoop # k
  BY ServerAssumption DEF NoLoop, Loops
<1>3. CASE k = l
  <2>1. T = S \cup {c} /\ c \notin S
    BY <1>2, <1>3
  <2>2. Cardinality(S \cup {c}) = Cardinality(S) + 1
    BY <1>1, <2>1, FS_AddElement
  <2> QED
    BY <1>1, <1>3, <2>1, <2>2 DEF Dealt
<1>4. CASE k # l
  <2>1. T = S
    BY <1>2, <1>4
  <2> QED
    BY <1>1, <1>4, <2>1 DEF Dealt
<1> QED
  BY <1>3, <1>4

LEMMA NobodyDealt ==
  ASSUME \A c \in Clients : home[c] = NoLoop
  PROVE  \A l \in Loops : Dealt(l) = 0
<1> SUFFICES ASSUME NEW l \in Loops PROVE Dealt(l) = 0
  OBVIOUS
<1>1. NoLoop # l
  BY ServerAssumption DEF NoLoop, Loops
<1>2. {c \in Clients : home[c] = l} = {}
  BY <1>1
<1> QED
  BY <1>2, FS_EmptySet DEF Dealt

LEMMA InTurnAtStart ==
  ASSUME loops \in 0..MaxThreads, next = 0, \A c \in Clients : home[c] = NoLoop
  PROVE  InTurn
<1>1. \A l \in Loops : Dealt(l) = 0
  BY NobodyDealt
<1>2. Base \in Loops /\ \A l \in 1..loops : l \in Loops /\ ~(l <= 0)
  BY ServerAssumption DEF Loops, Base
<1> QED
  BY <1>1, <1>2 DEF InTurn

LEMMA AcceptInTurn ==
  ASSUME DealInv, Accept
  PROVE  Fresh' /\ InTurn'
<1> DEFINE c == Head(backlog)
<1>1. /\ stage' = [stage EXCEPT ![c] = "dealt"] /\ home' = [home EXCEPT ![c] = GetNextLoop]
      /\ next' = NextIndex /\ loops' = loops /\ pc' = pc /\ pc = "accept" /\ backlog # <<>>
  BY DEF Accept, NewConnection
<1>2. /\ home \in [Clients -> Loops \cup {NoLoop}] /\ GetNextLoop \in Loops
      /\ loops \in 0..MaxThreads /\ next \in Nat /\ (loops > 0 => next < loops)
      /\ (loops = 0 => next = 0) /\ loops = numThreads
      /\ stage \in [Clients -> {"away", "waiting", "accepted", "dealt", "served", "closed"}]
  BY <1>1, NextLoop DEF DealInv, ServerInv, TypeOK, PoolSettled
<1>3. c \in Clients /\ stage[c] = "waiting"
  BY <1>1, TailSeq DEF DealInv, ServerInv, TypeOK, Waits
<1> HIDE DEF c
<1>4. home[c] = NoLoop
  BY <1>3 DEF DealInv, Fresh
<1>5. \A k \in Loops : Dealt(k) \in Nat
                     /\ Dealt(k)' = IF k = GetNextLoop THEN Dealt(k) + 1 ELSE Dealt(k)
  BY <1>1, <1>2, <1>3, <1>4, DealtFacts
<1>6. Fresh'
  BY <1>1, <1>2, <1>3 DEF DealInv, Fresh, Listening
<1>7. CASE loops = 0
  <2>1. \A l \in Loops \ {Base} : Dealt(l)' = Dealt(l)
    BY <1>5, <1>7 DEF GetNextLoop
  <2> QED
    BY <1>1, <1>6, <1>7, <2>1 DEF DealInv, InTurn
<1>8. CASE loops > 0
  <2>1. GetNextLoop = next + 1 /\ next' = (next + 1) % loops /\ loops \in Nat /\ loops # 0
    BY <1>1, <1>2, <1>8, ServerAssumption DEF GetNextLoop, NextIndex
  <2>2. \A l \in 1..loops : l \in Loops
    BY <1>2, ServerAssumption DEF Loops
  <2>3. Base \in Loops /\ Base # GetNextLoop
    BY <1>2, <2>1, ServerAssumption DEF Loops, Base
  <2>4. Dealt(Base)' = 0
    BY <1>5, <1>8, <2>1, <2>3 DEF DealInv, InTurn
  <2>5. PICK k \in Nat : \A l \in 1..loops : Dealt(l) = IF l <= next THEN k + 1 ELSE k
    BY <2>1 DEF DealInv, InTurn
  <2>6. \A l \in 1..loops : Dealt(l)' = IF l <= next + 1 THEN k + 1 ELSE k
    <3> SUFFICES ASSUME NEW l \in 1..loops
                 PROVE  Dealt(l)' = IF l <= next + 1 THEN k + 1 ELSE k
      OBVIOUS
    <3>1. Dealt(l)' = IF l = next + 1 THEN Dealt(l) + 1 ELSE Dealt(l)
      BY <1>5, <2>1, <2>2
    <3>2. Dealt(l) = IF l <= next THEN k + 1 ELSE k
      BY <2>5
    <3>3. l \in Nat /\ next \in Nat
      BY <1>2, <2>1
    <3> QED
      BY <3>1, <3>2, <3>3
  <2>7. CASE next + 1 < loops
    <3>1. next' = next + 1
      BY <1>2, <2>1, <2>7
    <3>2. \A l \in 1..loops : Dealt(l)' = IF l <= next' THEN k + 1 ELSE k
      BY <2>6, <3>1
    <3> QED
      BY <1>1, <1>6, <2>1, <2>4, <3>2 DEF InTurn
  <2>8. CASE next + 1 = loops
    <3>1. next' = 0
      BY <1>2, <2>1, <2>8
    <3>2. \A l \in 1..loops : l <= next + 1 /\ ~(l <= 0)
      BY <2>8
    <3>3. k + 1 \in Nat /\ \A l \in 1..loops : Dealt(l)' = IF l <= next' THEN (k + 1) + 1 ELSE k + 1
      BY <2>6, <3>1, <3>2
    <3> QED
      BY <1>1, <1>6, <2>1, <2>4, <3>3 DEF InTurn
  <2> QED
    BY <1>2, <1>8, <2>1, <2>7, <2>8
<1> QED
  BY <1>2, <1>7, <1>8

LEMMA DealInit == Init => DealInv
<1> SUFFICES ASSUME Init PROVE DealInv
  OBVIOUS
<1>1. Fresh
  BY DEF Init, Fresh
<1>2. InTurn
  <2>1. loops \in 0..MaxThreads /\ next = 0 /\ \A c \in Clients : home[c] = NoLoop
    BY ServerAssumption DEF Init
  <2> QED
    BY <2>1, InTurnAtStart
<1> QED
  BY <1>1, <1>2, ServerInit DEF DealInv

LEMMA DealStep == DealInv /\ [Next]_vars => DealInv'
<1> SUFFICES ASSUME DealInv, [Next]_vars PROVE DealInv'
  OBVIOUS
<1>0. ServerInv'
  BY ServerStep DEF DealInv
<1>1. CASE Start
  <2>1. /\ pc = "made" /\ pc' = "listen" /\ loops' = numThreads /\ next' = next /\ loops = 0
        /\ UNCHANGED <<stage, home>>
    BY <1>1 DEF Start, DealInv, ServerInv, PoolSettled
  <2>2. Fresh' /\ \A c \in Clients : home'[c] = NoLoop
    BY <2>1 DEF DealInv, Fresh, Listening
  <2>3. loops' \in 0..MaxThreads /\ next' \in Nat /\ next' = 0
    BY <2>1 DEF DealInv, ServerInv, TypeOK
  <2>4. InTurn'
    <3>1. \A l \in Loops : Dealt(l)' = 0
      BY <2>1, <2>2, NobodyDealt DEF Dealt
    <3>2. Base \in Loops /\ \A l \in 1..loops' : l \in Loops /\ ~(l <= 0)
      BY <2>3, ServerAssumption DEF Loops, Base
    <3> QED
      BY <2>3, <3>1, <3>2 DEF InTurn
  <2> QED
    BY <1>0, <2>2, <2>4 DEF DealInv
<1>2. CASE Accept
  BY <1>0, <1>2, AcceptInTurn DEF DealInv
<1>3. ASSUME UNCHANGED <<loops, next, home>>,
             ~Listening' => ~Listening /\ \A c \in Clients : stage'[c] = stage[c],
             \A c \in Clients : stage'[c] \in {"away", "waiting"} => stage[c] \in {"away", "waiting"}
      PROVE  DealInv'
  <2>1. Fresh'
    BY <1>3 DEF DealInv, Fresh
  <2>2. InTurn'
    BY <1>3 DEF DealInv, InTurn, Dealt
  <2> QED
    BY <1>0, <2>1, <2>2 DEF DealInv
<1>4. CASE (\E n \in 0..MaxThreads : SetThreadNum(n)) \/ Listen \/ EnableEvents
  BY <1>3, <1>4 DEF SetThreadNum, Listen, EnableEvents, Listening, pool
<1>5. CASE Poll \/ AcceptDone \/ AcceptFull \/ CloseIdle \/ OpenIdle \/ EndRun
  BY <1>3, <1>5
     DEF Poll, AcceptDone, AcceptFull, CloseIdle, OpenIdle, EndRun, Listening, pool
<1>6. CASE (\E c \in Clients : Leave(c)) \/ (\E o \in Others : OpenFile(o) \/ CloseFile(o))
           \/ UNCHANGED vars
  BY <1>3, <1>6 DEF Leave, OpenFile, CloseFile, vars, Listening, pool
<1>7. CASE AcceptAborted \/ AcceptIdle
  <2>1. backlog # <<>> => Head(backlog) \in Clients
    BY TailSeq DEF DealInv, ServerInv, TypeOK
  <2>2. stage \in [Clients -> {"away", "waiting", "accepted", "dealt", "served", "closed"}]
    BY DEF DealInv, ServerInv, TypeOK
  <2>3. \A c \in Clients : stage'[c] = stage[c] \/ stage'[c] \in {"accepted", "closed"}
    BY <1>7, <2>1, <2>2 DEF AcceptAborted, AcceptIdle
  <2>4. UNCHANGED <<loops, next, home>> /\ Listening'
    BY <1>7 DEF AcceptAborted, AcceptIdle, Listening, pool
  <2> QED
    BY <1>3, <2>3, <2>4
<1>8. CASE DropIdle
  <2>1. \A c \in Clients : stage'[c] = stage[c] \/ stage'[c] = "closed"
    BY <1>8 DEF DropIdle
  <2>2. UNCHANGED <<loops, next, home>> /\ Listening'
    BY <1>8 DEF DropIdle, Listening, pool
  <2> QED
    BY <1>3, <2>1, <2>2
<1>9. ASSUME NEW c \in Clients, Connect(c) \/ CloseConnection(c) PROVE DealInv'
  <2>1. stage \in [Clients -> {"away", "waiting", "accepted", "dealt", "served", "closed"}]
    BY DEF DealInv, ServerInv, TypeOK
  <2>2. \A d \in Clients : \/ stage'[d] = stage[d]
                           \/ d = c /\ stage[c] = "away" /\ stage'[c] = "waiting"
                           \/ d = c /\ stage'[c] = "closed"
    BY <1>9, <2>1 DEF Connect, CloseConnection
  <2>3. UNCHANGED <<loops, next, home, pc>> /\ Listening
    BY <1>9 DEF Connect, CloseConnection, pool, DealInv, Fresh
  <2> QED
    BY <1>3, <2>2, <2>3 DEF Listening
<1>10. ASSUME NEW l \in Loops, Create(l) PROVE DealInv'
  <2> DEFINE c == Head(queue[l])
  <2>1. c \in Clients /\ stage[c] = "dealt"
    <3>1. queue[l] \in Seq(Clients) /\ queue[l] # <<>>
      BY <1>10 DEF Create, DealInv, ServerInv, TypeOK
    <3> QED
      BY <3>1, TailSeq DEF DealInv, ServerInv, Deals
  <2>2. stage' = [stage EXCEPT ![c] = "served"] /\ UNCHANGED <<loops, next, home, pc>>
    BY <1>10 DEF Create, pool
  <2> HIDE DEF c
  <2>3. \A d \in Clients : stage'[d] = stage[d] \/ stage'[d] = "served"
    BY <2>1, <2>2 DEF DealInv, ServerInv, TypeOK
  <2>4. Listening
    BY <2>1 DEF DealInv, Fresh
  <2> QED
    BY <1>3, <2>2, <2>3, <2>4 DEF Listening
<1> QED
  BY <1>1, <1>2, <1>4, <1>5, <1>6, <1>7, <1>8, <1>9, <1>10 DEF Next, AcceptHandRead, StartUp

LEMMA InTurnBalances == DealInv => Balanced
<1> SUFFICES ASSUME DealInv PROVE Balanced
  OBVIOUS
<1>1. TypeOK
  BY DEF DealInv, ServerInv
<1>2. CASE loops = 0
  BY <1>1, <1>2 DEF DealInv, InTurn, Balanced
<1>3. CASE loops # 0
  <2>1. PICK k \in Nat : \A l \in 1..loops : Dealt(l) = IF l <= next THEN k + 1 ELSE k
    BY <1>3 DEF DealInv, InTurn
  <2>2. \A l, m \in 1..loops : Dealt(l) <= Dealt(m) + 1
    <3> SUFFICES ASSUME NEW l \in 1..loops, NEW m \in 1..loops PROVE Dealt(l) <= Dealt(m) + 1
      OBVIOUS
    <3>1. Dealt(l) \in {k, k + 1} /\ Dealt(m) \in {k, k + 1}
      BY <2>1
    <3> QED
      BY <3>1
  <2> QED
    BY <1>1, <1>3, <2>2 DEF DealInv, InTurn, Balanced
<1> QED
  BY <1>2, <1>3

\* The clients are spread evenly, however many there are and however the loops run
\* meanwhile: getNextLoop goes round.
THEOREM ClientsAreBalanced == Spec => []Balanced
BY DealInit, DealStep, InTurnBalances, PTL DEF Spec

(***************************************************************************)
(* The spare descriptor.                                                   *)
(***************************************************************************)
OpenFiles == {o \in Others : file[o] = "open"}
Untouched == \A o \in Others : file[o] = "none"

\* As long as nobody else opens files, the descriptor that the exchange gave up is
\* there when it is taken back.
Spare ==
  Untouched =>
    /\ ~InExchange => idle = NullFile
    /\ pc \in {"acceptIdle", "openIdle"} => InUse < MaxFds
    /\ pc = "dropIdle" /\ idle \notin Clients => InUse < MaxFds /\ idle = NoFile

SpareInv == ServerInv /\ InUse <= MaxFds /\ Spare

LEMMA CountFacts ==
  /\ IsFiniteSet(Connected) /\ IsFiniteSet(OpenFiles)
  /\ Cardinality(Connected) \in Nat /\ Cardinality(OpenFiles) \in Nat
  /\ InUse = Cardinality(Connected) + (IF idle = NullFile THEN 1 ELSE 0) + Cardinality(OpenFiles)
  /\ InUse \in Nat
<1>1. IsFiniteSet(Connected) /\ IsFiniteSet(OpenFiles)
  BY ServerAssumption, FS_Subset DEF Connected, OpenFiles
<1>2. Cardinality(Connected) \in Nat /\ Cardinality(OpenFiles) \in Nat
  BY <1>1, FS_CardinalityType
<1>3. InUse = Cardinality(Connected) + (IF idle = NullFile THEN 1 ELSE 0) + Cardinality(OpenFiles)
  BY DEF InUse, OpenFiles
<1> QED
  BY <1>1, <1>2, <1>3

\* The descriptors of the connections, after a step that touches one at most.
LEMMA ConnectedSame ==
  ASSUME \A c \in Clients : stage'[c] = stage[c]
                            \/ {stage[c], stage'[c]} \cap {"accepted", "dealt", "served"} = {}
                            \/ {stage[c], stage'[c]} \subseteq {"accepted", "dealt", "served"}
  PROVE  Cardinality(Connected') = Cardinality(Connected)
<1>1. Connected' = Connected
  BY DEF Connected
<1> QED
  BY <1>1

LEMMA ConnectedMore ==
  ASSUME NEW c \in Clients, c \notin Connected, stage'[c] \in {"accepted", "dealt", "served"},
         \A d \in Clients : d # c => stage'[d] = stage[d]
  PROVE  Cardinality(Connected') = Cardinality(Connected) + 1
<1>1. Connected' = Connected \cup {c}
  BY DEF Connected
<1> QED
  BY <1>1, CountFacts, FS_AddElement

LEMMA ConnectedLess ==
  ASSUME NEW c \in Clients, c \in Connected, stage'[c] = "closed",
         \A d \in Clients : d # c => stage'[d] = stage[d]
  PROVE  Cardinality(Connected') = Cardinality(Connected) - 1
<1>1. Connected' = Connected \ {c}
  BY DEF Connected
<1> QED
  BY <1>1, CountFacts, FS_RemoveElement

LEMMA InUseNext ==
  /\ InUse' = Cardinality(Connected') + (IF idle' = NullFile THEN 1 ELSE 0) + Cardinality(OpenFiles')
  /\ Cardinality(Connected') \in Nat /\ Cardinality(OpenFiles') \in Nat
<1>1. IsFiniteSet(Connected') /\ IsFiniteSet(OpenFiles')
  BY ServerAssumption, FS_Subset DEF Connected, OpenFiles
<1>2. Cardinality(Connected') \in Nat /\ Cardinality(OpenFiles') \in Nat
  BY <1>1, FS_CardinalityType
<1> QED
  BY <1>2 DEF InUse, OpenFiles

LEMMA SpareInit == Init => SpareInv
<1> SUFFICES ASSUME Init PROVE SpareInv
  OBVIOUS
<1>1. Connected = {} /\ OpenFiles = {} /\ idle = NullFile /\ ~InExchange /\ pc = "made"
  BY DEF Init, Connected, OpenFiles, InExchange
<1>2. InUse = 1
  BY <1>1, CountFacts, FS_EmptySet
<1> QED
  BY <1>1, <1>2, ServerInit, ServerAssumption DEF SpareInv, Spare

LEMMA SpareStep == SpareInv /\ [Next]_vars => SpareInv'
<1> SUFFICES ASSUME SpareInv, [Next]_vars PROVE SpareInv'
  OBVIOUS
<1> USE DEF InExchange
<1>0. /\ ServerInv' /\ ServerInv /\ MaxFds \in Nat
      /\ stage \in [Clients -> {"away", "waiting", "accepted", "dealt", "served", "closed"}]
      /\ file \in [Others -> {"none", "open", "closed"}]
      /\ (pc \in {"acceptIdle", "openIdle"} => idle = NoFile) /\ NullFile # NoFile
      /\ (idle \in Clients => pc = "dropIdle" /\ stage[idle] = "accepted")
      /\ NullFile \notin Clients /\ NoFile \notin Clients
  BY ServerStep, ServerAssumption DEF SpareInv, ServerInv, TypeOK, Watch
<1>a. InUse \in Nat /\ InUse' \in Nat
  BY CountFacts, InUseNext
<1>1. ASSUME idle' = idle, pc' = pc \/ (~InExchange /\ ~InExchange'),
             Untouched' => Untouched, InUse' <= InUse
      PROVE  SpareInv'
  BY <1>0, <1>a, <1>1 DEF SpareInv, Spare
<1>2. ASSUME idle' = idle, Cardinality(Connected') <= Cardinality(Connected), file' = file
      PROVE  InUse' <= InUse
  <2>1. OpenFiles' = OpenFiles
    BY <1>2 DEF OpenFiles
  <2> QED
    BY <1>2, <2>1, CountFacts, InUseNext
<1>3. ASSUME stage' = stage \/ \E c \in Clients :
               /\ \A d \in Clients : d # c => stage'[d] = stage[d]
               /\ {stage[c], stage'[c]} \cap {"accepted", "dealt", "served"} = {}
      PROVE  Cardinality(Connected') <= Cardinality(Connected)
  <2>1. Cardinality(Connected') = Cardinality(Connected)
    BY <1>3, ConnectedSame
  <2> QED
    BY <2>1, CountFacts
<1>4. backlog # <<>> => Head(backlog) \in Clients /\ stage[Head(backlog)] = "waiting"
  BY <1>0, TailSeq DEF ServerInv, TypeOK, Waits
<1>5. CASE Accept
  <2> DEFINE c == Head(backlog)
  <2>1. /\ c \in Clients /\ stage[c] = "waiting" /\ stage' = [stage EXCEPT ![c] = "dealt"]
        /\ idle' = idle /\ file' = file /\ pc' = pc /\ pc = "accept" /\ InUse < MaxFds
    BY <1>4, <1>5 DEF Accept, Room
  <2> HIDE DEF c
  <2>2. c \notin Connected
    BY <2>1 DEF Connected
  <2>3. Cardinality(Connected') = Cardinality(Connected) + 1
    BY <1>0, <2>1, <2>2, ConnectedMore
  <2>4. OpenFiles' = OpenFiles
    BY <2>1 DEF OpenFiles
  <2>5. InUse' = InUse + 1
    BY <2>1, <2>3, <2>4, CountFacts, InUseNext
  <2> QED
    BY <1>0, <1>a, <2>1, <2>5 DEF SpareInv, Spare, Untouched
<1>6. CASE AcceptAborted
  <2>1. /\ idle' = idle /\ file' = file /\ pc' = pc
        /\ Head(backlog) \in Clients /\ stage[Head(backlog)] = "waiting"
        /\ stage' = [stage EXCEPT ![Head(backlog)] = "closed"]
    BY <1>4, <1>6 DEF AcceptAborted
  <2>2. Cardinality(Connected') <= Cardinality(Connected)
    BY <1>0, <1>3, <2>1
  <2> QED
    BY <1>1, <1>2, <2>1, <2>2 DEF Untouched
<1>7. CASE (\E n \in 0..MaxThreads : SetThreadNum(n)) \/ StartUp \/ Poll \/ AcceptDone \/ AcceptFull
           \/ EndRun \/ (\E c \in Clients : Leave(c)) \/ UNCHANGED vars
  <2>1. idle' = idle /\ file' = file /\ stage' = stage
    BY <1>7 DEF SetThreadNum, StartUp, Start, Listen, EnableEvents, Poll, AcceptDone, AcceptFull,
                EndRun, Leave, vars
  <2>2. pc' = pc \/ (~InExchange /\ ~InExchange')
    BY <1>7 DEF SetThreadNum, StartUp, Start, Listen, EnableEvents, Poll, AcceptDone, AcceptFull,
                EndRun, Leave, vars
  <2> QED
    BY <1>1, <1>2, <1>3, <2>1, <2>2 DEF Untouched
<1>8. ASSUME NEW c \in Clients, Connect(c) PROVE SpareInv'
  <2>1. /\ idle' = idle /\ file' = file /\ pc' = pc
        /\ stage[c] = "away" /\ stage' = [stage EXCEPT ![c] = "waiting"]
    BY <1>8 DEF Connect
  <2>2. Cardinality(Connected') <= Cardinality(Connected)
    BY <1>0, <1>3, <2>1
  <2> QED
    BY <1>1, <1>2, <2>1, <2>2 DEF Untouched
<1>9. ASSUME NEW c \in Clients, CloseConnection(c) PROVE SpareInv'
  <2>1. /\ idle' = idle /\ file' = file /\ pc' = pc
        /\ stage[c] = "served" /\ stage' = [stage EXCEPT ![c] = "closed"]
    BY <1>9 DEF CloseConnection
  <2>2. c \in Connected
    BY <2>1 DEF Connected
  <2>3. Cardinality(Connected') = Cardinality(Connected) - 1
    BY <1>0, <2>1, <2>2, ConnectedLess
  <2>4. Cardinality(Connected') <= Cardinality(Connected)
    BY <2>3, CountFacts
  <2> QED
    BY <1>1, <1>2, <2>1, <2>4 DEF Untouched
<1>10. ASSUME NEW l \in Loops, Create(l) PROVE SpareInv'
  <2> DEFINE c == Head(queue[l])
  <2>1. c \in Clients /\ stage[c] = "dealt"
    <3>1. queue[l] \in Seq(Clients) /\ queue[l] # <<>>
      BY <1>0, <1>10 DEF Create, ServerInv, TypeOK
    <3> QED
      BY <1>0, <3>1, TailSeq DEF ServerInv, Deals
  <2>2. /\ idle' = idle /\ file' = file /\ pc' = pc /\ stage' = [stage EXCEPT ![c] = "served"]
    BY <1>10 DEF Create
  <2> HIDE DEF c
  <2>3. Cardinality(Connected') = Cardinality(Connected)
    BY <1>0, <2>1, <2>2, ConnectedSame
  <2>4. Cardinality(Connected') <= Cardinality(Connected)
    BY <2>3, CountFacts
  <2> QED
    BY <1>1, <1>2, <2>2, <2>4 DEF Untouched
<1>11. ASSUME NEW o \in Others, OpenFile(o) PROVE SpareInv'
  <2>1. /\ idle' = idle /\ stage' = stage /\ file[o] = "none" /\ file' = [file EXCEPT ![o] = "open"]
        /\ InUse < MaxFds
    BY <1>11 DEF OpenFile, Room
  <2>2. OpenFiles' = OpenFiles \cup {o} /\ o \notin OpenFiles
    BY <1>0, <2>1 DEF OpenFiles
  <2>3. Cardinality(OpenFiles') = Cardinality(OpenFiles) + 1
    BY <2>2, CountFacts, FS_AddElement
  <2>4. Connected' = Connected
    BY <2>1 DEF Connected
  <2>5. InUse' = InUse + 1
    BY <2>1, <2>3, <2>4, CountFacts, InUseNext
  <2>6. ~Untouched'
    BY <1>0, <2>1 DEF Untouched
  <2> QED
    BY <1>0, <1>a, <2>1, <2>5, <2>6 DEF SpareInv, Spare
<1>12. ASSUME NEW o \in Others, CloseFile(o) PROVE SpareInv'
  <2>1. /\ idle' = idle /\ pc' = pc /\ stage' = stage /\ file[o] = "open"
        /\ file' = [file EXCEPT ![o] = "closed"]
    BY <1>12 DEF CloseFile
  <2>2. OpenFiles' = OpenFiles \ {o} /\ o \in OpenFiles
    BY <1>0, <2>1 DEF OpenFiles
  <2>3. Cardinality(OpenFiles') = Cardinality(OpenFiles) - 1
    BY <2>2, CountFacts, FS_RemoveElement
  <2>4. Connected' = Connected
    BY <2>1 DEF Connected
  <2>5. InUse' <= InUse
    BY <2>1, <2>3, <2>4, CountFacts, InUseNext
  <2>6. ~Untouched'
    BY <1>0, <2>1 DEF Untouched
  <2> QED
    BY <1>1, <2>1, <2>5, <2>6
<1>13. CASE CloseIdle
  <2>1. /\ pc = "closeIdle" /\ pc' = "acceptIdle" /\ idle' = NoFile /\ stage' = stage /\ file' = file
    BY <1>13 DEF CloseIdle
  <2>2. Connected' = Connected /\ OpenFiles' = OpenFiles
    BY <2>1 DEF Connected, OpenFiles
  <2>3. InUse' <= InUse /\ (idle = NullFile => InUse' = InUse - 1)
    BY <1>0, <2>1, <2>2, CountFacts, InUseNext
  <2> QED
    BY <1>0, <1>a, <2>1, <2>3 DEF SpareInv, Spare, Untouched
<1>14. CASE AcceptIdle
  <2>1. pc = "acceptIdle" /\ pc' = "dropIdle" /\ file' = file /\ idle = NoFile
    BY <1>0, <1>14 DEF AcceptIdle
  <2>2. OpenFiles' = OpenFiles
    BY <2>1 DEF OpenFiles
  <2>3. CASE Room /\ backlog # <<>>
    <3> DEFINE c == Head(backlog)
    <3>1. /\ c \in Clients /\ stage[c] = "waiting" /\ stage' = [stage EXCEPT ![c] = "accepted"]
          /\ idle' = c /\ InUse < MaxFds
      BY <1>4, <1>14, <2>3 DEF AcceptIdle, Room
    <3> HIDE DEF c
    <3>2. c \notin Connected
      BY <3>1 DEF Connected
    <3>3. Cardinality(Connected') = Cardinality(Connected) + 1
      BY <1>0, <3>1, <3>2, ConnectedMore
    <3>4. InUse' = InUse + 1
      BY <1>0, <2>1, <2>2, <3>1, <3>3, CountFacts, InUseNext
    <3> QED
      BY <1>0, <1>a, <2>1, <3>1, <3>4 DEF SpareInv, Spare
  <2>4. CASE ~(Room /\ backlog # <<>>)
    <3>1. idle' = idle /\ stage' = stage
      BY <1>14, <2>4 DEF AcceptIdle
    <3>2. Connected' = Connected
      BY <3>1 DEF Connected
    <3>3. InUse' = InUse
      BY <2>2, <3>1, <3>2, CountFacts, InUseNext
    <3> QED
      BY <1>0, <2>1, <3>1, <3>3 DEF SpareInv, Spare, Untouched
  <2> QED
    BY <2>3, <2>4
<1>15. CASE DropIdle
  <2>1. /\ pc = "dropIdle" /\ pc' = "openIdle" /\ idle' = NoFile /\ file' = file
        /\ stage' = [c \in Clients |-> IF c = idle THEN "closed" ELSE stage[c]]
    BY <1>15 DEF DropIdle
  <2>2. OpenFiles' = OpenFiles
    BY <2>1 DEF OpenFiles
  <2>3. CASE idle \in Clients
    <3>1. idle \in Connected
      BY <1>0, <2>3 DEF Connected
    <3>2. Cardinality(Connected') = Cardinality(Connected) - 1
      BY <2>1, <2>3, <3>1, ConnectedLess
    <3>3. InUse' = InUse - 1
      BY <1>0, <2>1, <2>2, <2>3, <3>2, CountFacts, InUseNext
    <3> QED
      BY <1>0, <1>a, <2>1, <3>3 DEF SpareInv, Spare
  <2>4. CASE idle \notin Clients
    <3>1. Connected' = Connected
      BY <2>1, <2>4 DEF Connected
    <3>2. InUse' <= InUse
      BY <1>0, <2>1, <2>2, <3>1, CountFacts, InUseNext
    <3> QED
      BY <1>0, <1>a, <2>1, <2>4, <3>2 DEF SpareInv, Spare, Untouched
  <2> QED
    BY <2>3, <2>4
<1>16. CASE OpenIdle
  <2>1. /\ pc = "openIdle" /\ pc' = "accept" /\ idle' = IF Room THEN NullFile ELSE NoFile
        /\ stage' = stage /\ file' = file /\ idle = NoFile
    BY <1>0, <1>16 DEF OpenIdle
  <2>2. Connected' = Connected /\ OpenFiles' = OpenFiles
    BY <2>1 DEF Connected, OpenFiles
  <2>3. InUse' = IF Room THEN InUse + 1 ELSE InUse
    BY <1>0, <2>1, <2>2, CountFacts, InUseNext
  <2> QED
    BY <1>0, <1>a, <2>1, <2>3 DEF SpareInv, Spare, Untouched, Room
<1> QED
  BY <1>5, <1>6, <1>7, <1>8, <1>9, <1>10, <1>11, <1>12, <1>13, <1>14, <1>15, <1>16
     DEF Next, AcceptHandRead

\* Unless another thread opens a file meanwhile, acceptHandRead has its spare
\* descriptor again when it goes on: the exchange cannot lose it.
THEOREM SpareIsKept == Spec => []SpareKept
<1>1. SpareInv => SpareKept
  BY DEF SpareInv, Spare, SpareKept, Untouched
<1> QED
  BY SpareInit, SpareStep, <1>1, PTL DEF Spec
=============================================================================
