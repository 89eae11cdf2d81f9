------------------------- MODULE Connections_proofs -------------------------
(***************************************************************************)
(* Proofs about Connections, for any number of objects, descriptors and    *)
(* peers and any usage that is WellUsed: every object has one home, the    *)
(* epoll instance watches what the channels think it does, the handlers    *)
(* of one event meet the connection they were reported for, shutdown() is  *)
(* performed and the end of a connection is reported; and, where           *)
(* forceClose() answers messages only, nobody closes another's connection. *)
(***************************************************************************)
EXTENDS Connections, SequenceTheorems, TLAPS

\* How the user's code may stop reading.  Either no callback does, or peers do not
\* reset and nobody closes a direction or the connection, so that no HUP comes,
\* and a message is answered while it is at hand.
NeverStops(u) ==
  \A at \in Callbacks : "stopRead" \notin u.calls[at] /\ "startRead" \notin u.calls[at]
PausesOnly(u) ==
  /\ "reset" \notin u.peers
  /\ \A at \in Callbacks : "shutdown" \notin u.calls[at] /\ "forceClose" \notin u.calls[at]
  /\ \A at \in Callbacks : "send" \in u.calls[at] => at = "message"
WellUsed == \A u \in Usages : NeverStops(u) \/ PausesOnly(u)

(***************************************************************************)
(* The invariant.                                                          *)
(***************************************************************************)
ObjectStates ==
  [state : States, fd : Fds \cup {NoFd}, is : Sockets \cup {NoSocket},
   status : {"new", "added", "deleted"}, events : SUBSET Events, reading : BOOLEAN]
KernelSockets == [phase : {"new", "open", "closed"}, data : BOOLEAN, fin : BOOLEAN,
                  err : BOOLEAN, gone : BOOLEAN, shut : BOOLEAN]
Functors == [op : {"create"}, fd : Fds] \cup [op : {"complete", "forceClose"}, of : Objects]

WorldTypes ==
  /\ object \in [Objects -> ObjectStates]
  /\ connections \in [Fds -> Objects \cup {NoObject}]
  /\ pool \in Seq(Objects \cup {NoObject})
  /\ interest \in [Fds -> [of : Objects \cup {NoObject}, events : SUBSET Events]]
  /\ file \in [Fds -> Sockets \cup {NoSocket}]
  /\ socket \in [Sockets -> KernelSockets]
LoopTypes ==
  /\ usage \in Usages
  /\ pc \in {"poll", "handle", "run"}
  /\ functors \in Seq(Functors) /\ batch \in Seq(Functors)
  /\ callback = Quiet \/ callback \in [at : Callbacks, of : Objects]
  /\ agenda = Idle \/ agenda \in [of : Objects, handlers : SUBSET Handlers]
  /\ DOMAIN active \subseteq Objects
  /\ pc # "handle" => active = <<>> /\ agenda = Idle
  /\ pc # "run" => batch = <<>>

\* An object is made, lives at its descriptor and rests in the pool.
Homes ==
  /\ \A c \in Objects : Live(c) => object[c].fd \in Fds /\ connections[object[c].fd] = c
  /\ \A f \in Fds : connections[f] # NoObject
       => Live(connections[f]) /\ object[connections[f]].fd = f
  /\ \A c \in Objects : object[c].state = "disconnected" <=> \E i \in DOMAIN pool : pool[i] = c
  /\ \A i \in DOMAIN pool : pool[i] # NoObject
  /\ \A i, j \in DOMAIN pool : pool[i] = pool[j] => i = j

\* A descriptor names an open socket that no other descriptor names.
Files ==
  /\ \A f \in Fds : file[f] # NoSocket => socket[file[f]].phase = "open"
  /\ \A f, g \in Fds : file[f] # NoSocket /\ file[f] = file[g] => f = g

\* A live connection is on its own socket and is watched with the events of its
\* channel, if it has any; nothing else is watched.  reading_ agrees with them.
StatusOf(ev) == IF ev = {} THEN "deleted" ELSE "added"
WatchOf(c, ev) == IF ev = {} THEN NoWatch ELSE [of |-> c, events |-> ev]
ReadsAs(u, rec) ==
  /\ rec.status = StatusOf(rec.events)
  /\ rec.reading <=> "in" \in rec.events
  /\ NeverStops(u) => "in" \in rec.events
Watching ==
  /\ \A c \in Objects : Live(c) =>
       /\ object[c].is # NoSocket /\ file[object[c].fd] = object[c].is
       /\ ReadsAs(usage, object[c])
       /\ interest[object[c].fd] = WatchOf(c, object[c].events)
  /\ \A c \in Objects : ~Live(c) => object[c].events = {}
  /\ \A f \in Fds : connections[f] = NoObject => interest[f] = NoWatch

\* A descriptor whose createConnection is queued has a socket and no connection,
\* and is queued once.
Unconnected(f) == file[f] # NoSocket /\ connections[f] = NoObject
SameCreate(x, y) == x.op = "create" /\ y.op = "create" /\ x.fd = y.fd
Queued ==
  /\ \A i \in DOMAIN functors : functors[i].op = "create" => Unconnected(functors[i].fd)
  /\ \A i \in DOMAIN batch : batch[i].op = "create" => Unconnected(batch[i].fd)
  /\ \A i, j \in DOMAIN functors : SameCreate(functors[i], functors[j]) => i = j
  /\ \A i, j \in DOMAIN batch : SameCreate(batch[i], batch[j]) => i = j
  /\ \A i \in DOMAIN functors, j \in DOMAIN batch : ~SameCreate(functors[i], batch[j])

\* The channels with events are live.  No event is a bare HUP, so that only the
\* read handler closes the connection in hand, with no use of it to follow.
Handling ==
  /\ \A c \in DOMAIN active : Live(c) /\ ("hup" \in active[c] => "in" \in active[c])
  /\ "close" \notin agenda.handlers
  /\ agenda.handlers \cap {"error", "read"} # {} => Live(agenda.of)
  /\ agenda.handlers # {} => agenda.of \notin DOMAIN active

\* The objects with the kernel, and the loop.
World == WorldTypes /\ Homes /\ Files /\ Watching /\ ShutdownReachesKernel
ConnectionsInv == World /\ LoopTypes /\ Queued /\ Handling

\* Where callbacks stop reading, nothing was reset or shut down.
Calm == ~NeverStops(usage) =>
  /\ \A s \in Sockets : ~socket[s].gone /\ ~socket[s].err /\ ~socket[s].shut
  /\ \A c \in Objects : object[c].state # "disconnecting"

\* Nothing of this turn of the loop will close c.
Settled(c) ==
  /\ Live(c) /\ c \notin DOMAIN active
  /\ agenda.of = c => agenda.handlers \cap {"close", "read"} = {}

\* Callbacks run where handlers and functors do.  A message is of a settled
\* connection, and where callbacks stop reading every other one is too.
InCall ==
  /\ callback.at = "message" => pc = "handle" /\ Settled(callback.of)
  /\ callback.at \in {"connection", "writeComplete"} => pc = "run"
  /\ ~NeverStops(usage) /\ callback # Quiet => Settled(callback.of)

\* There a completion, queued by an event, finds its connection alive.
Finds(x) == x.op # "forceClose" /\ (x.op = "complete" => Settled(x.of))
Promised == ~NeverStops(usage) =>
  /\ \A i \in DOMAIN functors :
       Finds(functors[i]) /\ (functors[i].op = "complete" => pc = "handle")
  /\ \A i \in DOMAIN batch : Finds(batch[i])

Settling == Calm /\ InCall /\ Promised

worldVars == <<usage, object, connections, pool, interest, file, socket, excused>>

(***************************************************************************)
(* Steps of the world.                                                     *)
(***************************************************************************)
LEMMA WorldStays ==
  ASSUME World, UNCHANGED worldVars
  PROVE  World' /\ \A c \in Objects : Live(c)' = Live(c)
BY DEF World, WorldTypes, Homes, Files, Watching, ReadsAs, ShutdownReachesKernel, worldVars, Live

\* A socket may change in anything but its phase, and stays shut.
SocketsKeep ==
  /\ socket' \in [Sockets -> KernelSockets]
  /\ \A s \in Sockets : socket'[s].phase = socket[s].phase /\ (socket[s].shut => socket'[s].shut)
  /\ excused \subseteq excused'

LEMMA SocketMoves ==
  ASSUME socket \in [Sockets -> KernelSockets], NEW s \in Sockets, NEW rec \in KernelSockets,
         socket' = [socket EXCEPT ![s] = rec], rec.phase = socket[s].phase,
         socket[s].shut => rec.shut, excused \subseteq excused'
  PROVE  SocketsKeep /\ socket'[s] = rec
<1>1. socket' \in [Sockets -> KernelSockets] /\ socket'[s] = rec
      /\ \A r \in Sockets : r # s => socket'[r] = socket[r]
  OBVIOUS
<1> QED
  BY <1>1 DEF SocketsKeep

LEMMA ShutKeeps ==
  ASSUME socket \in [Sockets -> KernelSockets], NEW s \in Sockets,
         socket' = [socket EXCEPT ![s].shut = TRUE], UNCHANGED excused
  PROVE  SocketsKeep /\ socket'[s].shut
<1> DEFINE rec == [socket[s] EXCEPT !.shut = TRUE]
<1>1. rec \in KernelSockets /\ rec.phase = socket[s].phase /\ rec.shut
  BY DEF KernelSockets
<1> HIDE DEF rec
<1>2. socket' = [socket EXCEPT ![s] = rec]
  BY DEF rec
<1> QED
  BY <1>1, <1>2, SocketMoves

LEMMA SocketsChange ==
  ASSUME World, SocketsKeep, UNCHANGED <<usage, object, connections, pool, interest, file>>
  PROVE  World' /\ \A c \in Objects : Live(c)' = Live(c)
<1>1. WorldTypes'
  BY DEF World, WorldTypes, SocketsKeep
<1>2. Homes' /\ Watching'
  BY DEF World, Homes, Watching, ReadsAs, Live
<1>3. Files'
  BY DEF World, WorldTypes, Files, SocketsKeep
<1>4. ShutdownReachesKernel'
  <2> SUFFICES ASSUME NEW c \in Objects,
                      object[c].state = "disconnecting", "out" \notin object[c].events
               PROVE  socket'[object[c].is].shut \/ object[c].is \in excused'
    BY DEF ShutdownReachesKernel
  <2>1. object[c].is \in Sockets
    BY DEF World, WorldTypes, Watching, Live, ObjectStates
  <2> QED
    BY <2>1 DEF World, ShutdownReachesKernel, SocketsKeep
<1> QED
  BY <1>1, <1>2, <1>3, <1>4 DEF World, Live

LEMMA WatchIsTyped ==
  ASSUME NEW c \in Objects, NEW ev \in SUBSET Events
  PROVE  WatchOf(c, ev) \in [of : Objects \cup {NoObject}, events : SUBSET Events]
BY DEF WatchOf, NoWatch

\* The record of a live connection changes to rec and the interest list with it.
LEMMA RecordChanges ==
  ASSUME World, SocketsKeep, UNCHANGED <<usage, connections, pool, file>>,
         NEW c \in Objects, Live(c), NEW rec \in ObjectStates,
         rec.state \in {"connected", "disconnecting"}, rec.fd = object[c].fd,
         rec.is = object[c].is, ReadsAs(usage, rec),
         object' = [object EXCEPT ![c] = rec],
         interest' = [interest EXCEPT ![rec.fd] = WatchOf(c, rec.events)],
         rec.state = "disconnecting" /\ "out" \notin rec.events
           => socket'[rec.is].shut \/ rec.is \in excused'
  PROVE  World' /\ \A d \in Objects : Live(d)' = Live(d)
<1>1. /\ object \in [Objects -> ObjectStates] /\ object[c].fd \in Fds
      /\ rec.events \subseteq Events
      /\ object'[c] = rec /\ \A d \in Objects : d # c => object'[d] = object[d]
      /\ interest'[rec.fd] = WatchOf(c, rec.events)
      /\ \A f \in Fds : f # rec.fd => interest'[f] = interest[f]
  BY DEF World, WorldTypes, Homes, ObjectStates
<1>2. \A d \in Objects : Live(d)' = Live(d)
  BY <1>1 DEF Live
<1>3. WorldTypes'
  <2>1. WatchOf(c, rec.events) \in [of : Objects \cup {NoObject}, events : SUBSET Events]
    BY <1>1, WatchIsTyped
  <2> QED
    BY <1>1, <2>1 DEF World, WorldTypes, SocketsKeep
<1>4. \A d \in Objects : object'[d].fd = object[d].fd /\ object'[d].is = object[d].is
  BY <1>1
<1>5. Homes'
  <2>1. \A d \in Objects : object'[d].state = "disconnected" <=> object[d].state = "disconnected"
    BY <1>1 DEF Live
  <2>2. connections \in [Fds -> Objects \cup {NoObject}]
    BY DEF World, WorldTypes
  <2> QED
    BY <1>2, <1>4, <2>1, <2>2 DEF World, Homes
<1>6. Files'
  BY DEF World, WorldTypes, Files, SocketsKeep
<1>7. Watching'
  <2>1. \A d \in Objects : d # c /\ Live(d) => object[d].fd # rec.fd /\ object[d].fd \in Fds
    BY DEF World, Homes
  <2>2. \A d \in Objects : Live(d)' =>
          /\ object'[d].is # NoSocket /\ file'[object'[d].fd] = object'[d].is
          /\ ReadsAs(usage, object'[d])
          /\ interest'[object'[d].fd] = WatchOf(d, object'[d].events)
    <3> SUFFICES ASSUME NEW d \in Objects, Live(d)
                 PROVE  /\ object'[d].is # NoSocket /\ file'[object'[d].fd] = object'[d].is
                        /\ ReadsAs(usage, object'[d])
                        /\ interest'[object'[d].fd] = WatchOf(d, object'[d].events)
      BY <1>2
    <3>1. object[d].is # NoSocket /\ file[object[d].fd] = object[d].is
          /\ ReadsAs(usage, object[d])
          /\ interest[object[d].fd] = WatchOf(d, object[d].events)
      BY DEF World, Watching
    <3>2. CASE d = c
      BY <1>1, <3>1, <3>2
    <3>3. CASE d # c
      BY <1>1, <2>1, <3>1, <3>3
    <3> QED
      BY <3>2, <3>3
  <2>3. \A d \in Objects : ~Live(d)' => object'[d].events = {}
    BY <1>1, <1>2 DEF World, Watching
  <2>4. \A f \in Fds : connections'[f] = NoObject => interest'[f] = NoWatch
    BY <1>1, NullAssumption DEF World, Watching, Homes
  <2> QED
    BY <2>2, <2>3, <2>4 DEF Watching
<1>8. ShutdownReachesKernel'
  <2> SUFFICES ASSUME NEW d \in Objects,
                      object'[d].state = "disconnecting", "out" \notin object'[d].events
               PROVE  socket'[object'[d].is].shut \/ object'[d].is \in excused'
    BY DEF ShutdownReachesKernel
  <2>1. CASE d = c
    BY <1>1, <2>1
  <2>2. CASE d # c
    <3>1. object'[d] = object[d] /\ object[d].is \in Sockets
      BY <1>1, <2>2 DEF World, WorldTypes, Watching, Live, ObjectStates
    <3> QED
      BY <3>1 DEF World, ShutdownReachesKernel, SocketsKeep
  <2> QED
    BY <2>1, <2>2
<1> QED
  BY <1>2, <1>3, <1>5, <1>6, <1>7, <1>8 DEF World

\* handleClose of a live connection: it goes from its descriptor to the pool.
LEMMA ConnectionCloses ==
  ASSUME World, NEW c \in Objects, Live(c), HandleClose(c), UNCHANGED <<usage, excused>>
  PROVE  /\ World' /\ pc' = pc
         /\ \A d \in Objects : d # c => Live(d)' = Live(d)
         /\ \A g \in Fds : connections[g] = NoObject
              => connections'[g] = NoObject /\ file'[g] = file[g]
<1> DEFINE f == object[c].fd
           s == object[c].is
<1>1. /\ f \in Fds /\ connections[f] = c /\ object[c].fd = f
      /\ s \in Sockets /\ file[f] = s /\ s # NoSocket /\ socket[s].phase = "open"
  <2>1. f \in Fds /\ connections[f] = c
    BY DEF World, Homes
  <2>2. s \in Sockets /\ file[f] = s /\ s # NoSocket
    BY DEF World, WorldTypes, Watching, ObjectStates
  <2> QED
    BY <2>1, <2>2 DEF World, Files
<1>2. /\ object' = [object EXCEPT ![c].state = "disconnected", ![c].events = {},
                                  ![c].status = "new"]
      /\ pool' = Append(pool, c)
      /\ connections' = [connections EXCEPT ![f] = NoObject]
      /\ file' = [file EXCEPT ![f] = NoSocket]
      /\ interest' = [interest EXCEPT ![f] = NoWatch]
      /\ socket' = [socket EXCEPT ![s] = Closed]
      /\ pc' = pc
  <2>1. /\ object' = [object EXCEPT ![c].state = "disconnected", ![c].events = {},
                                    ![c].status = "new"]
        /\ KeepConnection(c)
        /\ file' = [file EXCEPT ![f] = NoSocket]
        /\ interest' = [interest EXCEPT ![f] = NoWatch]
        /\ socket' = IF file[f] = NoSocket THEN socket ELSE [socket EXCEPT ![file[f]] = Closed]
        /\ pc' = pc
    BY DEF HandleClose, Live
  <2> HIDE DEF s
  <2> QED
    BY <1>1, <2>1 DEF KeepConnection
<1>3. /\ object \in [Objects -> ObjectStates]
      /\ connections \in [Fds -> Objects \cup {NoObject}]
      /\ pool \in Seq(Objects \cup {NoObject})
      /\ interest \in [Fds -> [of : Objects \cup {NoObject}, events : SUBSET Events]]
      /\ file \in [Fds -> Sockets \cup {NoSocket}]
      /\ socket \in [Sockets -> KernelSockets]
  BY DEF World, WorldTypes
<1> HIDE DEF f, s
<1>4. /\ object'[c].state = "disconnected" /\ object'[c].events = {}
      /\ object' \in [Objects -> ObjectStates]
      /\ \A d \in Objects : d # c => object'[d] = object[d]
  <2>1. object'[c] = [object[c] EXCEPT !.state = "disconnected", !.events = {}, !.status = "new"]
        /\ \A d \in Objects : d # c => object'[d] = object[d]
        /\ DOMAIN object' = Objects
    BY <1>2, <1>3
  <2>2. object[c] \in ObjectStates
    BY <1>3
  <2>3. [object[c] EXCEPT !.state = "disconnected", !.events = {}, !.status = "new"] \in ObjectStates
    BY <2>2 DEF ObjectStates, States, Events
  <2>4. object'[c].state = "disconnected" /\ object'[c].events = {}
    BY <2>1, <2>2 DEF ObjectStates
  <2>5. object' \in [Objects -> ObjectStates]
    BY <1>2, <1>3, <2>1, <2>3
  <2> QED
    BY <2>1, <2>4, <2>5
<1>5. /\ connections'[f] = NoObject /\ file'[f] = NoSocket /\ interest'[f] = NoWatch
      /\ \A g \in Fds : g # f => /\ connections'[g] = connections[g] /\ file'[g] = file[g]
                                 /\ interest'[g] = interest[g]
      /\ \A t \in Sockets : t # s => socket'[t] = socket[t]
  BY <1>1, <1>2, <1>3
<1>6. WorldTypes'
  <2>1. pool' \in Seq(Objects \cup {NoObject})
    BY <1>2, <1>3
  <2>2. NoWatch \in [of : Objects \cup {NoObject}, events : SUBSET Events]
    BY DEF NoWatch
  <2>3. Closed \in KernelSockets
    BY DEF Closed, NewSocket, KernelSockets
  <2>4. interest' \in [Fds -> [of : Objects \cup {NoObject}, events : SUBSET Events]]
    BY <1>1, <1>2, <1>3, <2>2
  <2>5. socket' \in [Sockets -> KernelSockets]
    BY <1>1, <1>2, <1>3, <2>3
  <2> QED
    BY <1>1, <1>2, <1>3, <1>4, <2>1, <2>4, <2>5 DEF WorldTypes
<1>7. /\ ~Live(c)' /\ \A d \in Objects : d # c => Live(d)' = Live(d)
      /\ \A d \in Objects : d # c /\ Live(d) => object[d].fd # f
  <2>1. \A d \in Objects : d # c /\ Live(d) => object[d].fd # f
    BY <1>1 DEF World, Homes
  <2> QED
    BY <1>4, <2>1 DEF Live
<1>8. Homes'
  <2>1. \A d \in Objects : Live(d)' => object'[d].fd \in Fds /\ connections'[object'[d].fd] = d
    BY <1>4, <1>5, <1>7 DEF World, Homes
  <2>2. \A g \in Fds : connections'[g] # NoObject
          => object'[connections'[g]].state \in {"connected", "disconnecting"} /\ object'[connections'[g]].fd = g
    <3> SUFFICES ASSUME NEW g \in Fds, connections'[g] # NoObject
                 PROVE  object'[connections'[g]].state \in {"connected", "disconnecting"} /\ object'[connections'[g]].fd = g
      OBVIOUS
    <3>1. g # f /\ connections'[g] = connections[g] /\ connections[g] \in Objects
      BY <1>3, <1>5
    <3>2. Live(connections[g]) /\ object[connections[g]].fd = g
      BY <3>1 DEF World, Homes
    <3>3. connections[g] # c
      BY <1>1, <3>1, <3>2
    <3>4. object'[connections[g]] = object[connections[g]]
      BY <1>4, <3>1, <3>3
    <3> QED
      BY <3>1, <3>2, <3>4 DEF Live
  <2>3. /\ \A i \in DOMAIN pool' : (i \in DOMAIN pool /\ pool'[i] = pool[i]) \/ (i = Len(pool) + 1 /\ pool'[i] = c)
        /\ \A i \in DOMAIN pool : i \in DOMAIN pool' /\ i # Len(pool) + 1
        /\ Len(pool) + 1 \in DOMAIN pool'
    BY <1>2, <1>3
  <2>4. \A i \in DOMAIN pool : pool[i] # c
    BY DEF World, Homes, Live
  <2>5. \A d \in Objects : object'[d].state = "disconnected" <=> \E i \in DOMAIN pool' : pool'[i] = d
    <3>1. object'[c].state = "disconnected" /\ \E i \in DOMAIN pool' : pool'[i] = c
      BY <1>4, <2>3
    <3>2. ASSUME NEW d \in Objects, d # c
          PROVE  object'[d].state = "disconnected" <=> \E i \in DOMAIN pool' : pool'[i] = d
      <4>1. object[d].state = "disconnected" <=> \E i \in DOMAIN pool : pool[i] = d
        BY DEF World, Homes
      <4>2. (\E i \in DOMAIN pool : pool[i] = d) <=> (\E i \in DOMAIN pool' : pool'[i] = d)
        BY <2>3, <3>2
      <4> QED
        BY <1>4, <3>2, <4>1, <4>2
    <3> QED
      BY <3>1, <3>2
  <2>6. \A i \in DOMAIN pool' : pool'[i] # NoObject
    BY <2>3, NullAssumption DEF World, Homes
  <2>7. \A i, j \in DOMAIN pool' : pool'[i] = pool'[j] => i = j
    BY <2>3, <2>4 DEF World, Homes
  <2> QED
    BY <2>1, <2>2, <2>5, <2>6, <2>7 DEF Homes, Live
<1>9. Files'
  <2>1. \A g \in Fds : file'[g] # NoSocket => g # f /\ file'[g] = file[g] /\ file[g] \in Sockets
    BY <1>3, <1>5
  <2>2. \A g \in Fds : file'[g] # NoSocket => file[g] # s
    BY <1>1, <2>1 DEF World, Files
  <2> QED
    BY <1>5, <2>1, <2>2 DEF World, Files
<1>10. Watching'
  <2>1. \A d \in Objects : Live(d)' => d # c /\ Live(d) /\ object'[d] = object[d]
          /\ object[d].fd \in Fds /\ object[d].fd # f
    BY <1>4, <1>7 DEF World, Homes
  <2>2. \A d \in Objects : Live(d)' =>
          /\ object'[d].is # NoSocket /\ file'[object'[d].fd] = object'[d].is
          /\ ReadsAs(usage, object'[d])
          /\ interest'[object'[d].fd] = WatchOf(d, object'[d].events)
    BY <1>5, <2>1 DEF World, Watching
  <2>3. \A d \in Objects : ~Live(d)' => object'[d].events = {}
    BY <1>4, <1>7 DEF World, Watching
  <2>4. \A g \in Fds : connections'[g] = NoObject => interest'[g] = NoWatch
    BY <1>5 DEF World, Watching
  <2> QED
    BY <2>2, <2>3, <2>4 DEF Watching
<1>11. ShutdownReachesKernel'
  <2> SUFFICES ASSUME NEW d \in Objects,
                      object'[d].state = "disconnecting", "out" \notin object'[d].events
               PROVE  socket'[object'[d].is].shut \/ object'[d].is \in excused
    BY DEF ShutdownReachesKernel
  <2>1. d # c /\ object'[d] = object[d] /\ Live(d)
    BY <1>4 DEF Live
  <2>2. /\ object[d].fd \in Fds /\ object[d].fd # f
        /\ object[d].is \in Sockets /\ file[object[d].fd] = object[d].is
    BY <1>3, <1>7, <2>1 DEF World, Homes, Watching, ObjectStates
  <2>3. object[d].is # s
    BY <1>1, <2>2 DEF World, Files
  <2> QED
    <3>1. socket[object[d].is].shut \/ object[d].is \in excused
      BY <2>1 DEF World, ShutdownReachesKernel
    <3> QED
      BY <1>5, <2>1, <2>2, <2>3, <3>1
<1>12. \A g \in Fds : connections[g] = NoObject => connections'[g] = NoObject /\ file'[g] = file[g]
  BY <1>1, <1>5, NullAssumption
<1> QED
  BY <1>2, <1>6, <1>7, <1>8, <1>9, <1>10, <1>11, <1>12 DEF World

\* createConnection on a descriptor that waits for it, with an object that the
\* pool holds no more.
LEMMA ConnectionOpens ==
  ASSUME World, NEW c \in Objects, NEW f \in Fds, Establish(c, f),
         file[f] # NoSocket, connections[f] = NoObject, ~Live(c),
         pool' \in Seq(Objects \cup {NoObject}), UNCHANGED usage,
         \A i \in DOMAIN pool' : i \in DOMAIN pool /\ pool'[i] = pool[i] /\ pool[i] # c,
         \A i \in DOMAIN pool : pool[i] # c => i \in DOMAIN pool'
  PROVE  /\ World'
         /\ \A g \in Fds : g # f => connections'[g] = connections[g]
<1> DEFINE s == file[f]
           ev == {"in"}
           rec == [Renewed(c, f) EXCEPT !.status = "added"]
<1>1. /\ object' = [object EXCEPT ![c] = rec]
      /\ interest' = [interest EXCEPT ![f] = [of |-> c, events |-> ev]]
      /\ connections' = [connections EXCEPT ![f] = c]
      /\ UNCHANGED <<file, socket, excused>>
  <2>1. Update(c, Renewed(c, f)) /\ connections' = [connections EXCEPT ![f] = c]
        /\ UNCHANGED <<file, socket, excused>>
    BY DEF Establish
  <2>2. Renewed(c, f).status = "new" /\ Renewed(c, f).fd = f /\ Renewed(c, f).events = ev
    BY DEF Renewed
  <2> QED
    BY <2>1, <2>2 DEF Update
<1>2. /\ object \in [Objects -> ObjectStates]
      /\ connections \in [Fds -> Objects \cup {NoObject}]
      /\ interest \in [Fds -> [of : Objects \cup {NoObject}, events : SUBSET Events]]
      /\ file \in [Fds -> Sockets \cup {NoSocket}]
      /\ socket \in [Sockets -> KernelSockets]
  BY DEF World, WorldTypes
<1>3. s \in Sockets /\ ev \subseteq Events /\ "in" \in ev
  BY <1>2 DEF Events
<1>4. /\ rec \in ObjectStates
      /\ rec.state = "connected" /\ rec.fd = f /\ rec.is = s
      /\ rec.events = ev /\ ReadsAs(usage, rec)
  <2>1. Renewed(c, f) \in ObjectStates
    BY <1>3 DEF Renewed, ObjectStates, States
  <2>2. /\ Renewed(c, f).state = "connected" /\ Renewed(c, f).fd = f /\ Renewed(c, f).is = s
        /\ Renewed(c, f).events = ev /\ Renewed(c, f).reading
    BY DEF Renewed
  <2>3. rec \in ObjectStates /\ rec.status = "added" /\ rec.events = ev /\ rec.reading
    BY <2>1, <2>2 DEF ObjectStates
  <2>4. ReadsAs(usage, rec)
    BY <1>3, <2>3 DEF ReadsAs, StatusOf
  <2> QED
    BY <2>1, <2>2, <2>3, <2>4 DEF ObjectStates
<1>5. file[f] = s /\ WatchOf(c, ev) = [of |-> c, events |-> ev]
  BY DEF WatchOf
<1> HIDE DEF s, ev, rec
<1>6. /\ object'[c] = rec /\ \A d \in Objects : d # c => object'[d] = object[d]
      /\ interest'[f] = WatchOf(c, ev) /\ connections'[f] = c
      /\ \A g \in Fds : g # f => interest'[g] = interest[g] /\ connections'[g] = connections[g]
  BY <1>1, <1>2, <1>5
<1>7. /\ Live(c)' /\ \A d \in Objects : d # c => Live(d)' = Live(d)
  BY <1>4, <1>6 DEF Live
<1>8. \A d \in Objects : d # c /\ Live(d) => object[d].fd \in Fds /\ object[d].fd # f
  BY NullAssumption DEF World, Homes
<1>9. WorldTypes'
  <2>1. [of |-> c, events |-> ev] \in [of : Objects \cup {NoObject}, events : SUBSET Events]
    BY <1>3
  <2>2. interest' \in [Fds -> [of : Objects \cup {NoObject}, events : SUBSET Events]]
    BY <1>1, <1>2, <2>1
  <2>3. object' \in [Objects -> ObjectStates] /\ connections' \in [Fds -> Objects \cup {NoObject}]
    BY <1>1, <1>2, <1>4
  <2> QED
    BY <1>1, <1>2, <2>2, <2>3 DEF WorldTypes
<1>10. Homes'
  <2>1. \A d \in Objects : Live(d)' => object'[d].fd \in Fds /\ connections'[object'[d].fd] = d
    <3> SUFFICES ASSUME NEW d \in Objects, Live(d)'
                 PROVE  object'[d].fd \in Fds /\ connections'[object'[d].fd] = d
      OBVIOUS
    <3>1. CASE d = c
      BY <1>4, <1>6, <3>1
    <3>2. CASE d # c
      BY <1>6, <1>7, <1>8, <3>2 DEF World, Homes
    <3> QED
      BY <3>1, <3>2
  <2>2. \A g \in Fds : connections'[g] # NoObject
          => /\ object'[connections'[g]].state \in {"connected", "disconnecting"}
             /\ object'[connections'[g]].fd = g
    <3> SUFFICES ASSUME NEW g \in Fds, connections'[g] # NoObject
                 PROVE  /\ object'[connections'[g]].state \in {"connected", "disconnecting"}
                        /\ object'[connections'[g]].fd = g
      OBVIOUS
    <3>1. CASE g = f
      BY <1>4, <1>6, <3>1
    <3>2. CASE g # f
      <4>1. connections'[g] = connections[g] /\ connections[g] \in Objects
        BY <1>2, <1>6, <3>2
      <4>2. Live(connections[g]) /\ object[connections[g]].fd = g
        BY <4>1 DEF World, Homes
      <4>3. object'[connections[g]] = object[connections[g]]
        BY <1>6, <4>1, <4>2
      <4> QED
        BY <4>1, <4>2, <4>3 DEF Live
    <3> QED
      BY <3>1, <3>2
  <2>3. \A d \in Objects : object'[d].state = "disconnected" <=> \E i \in DOMAIN pool' : pool'[i] = d
    <3> SUFFICES ASSUME NEW d \in Objects
                 PROVE  object'[d].state = "disconnected" <=> \E i \in DOMAIN pool' : pool'[i] = d
      OBVIOUS
    <3>1. CASE d = c
      BY <1>4, <1>6, <3>1
    <3>2. CASE d # c
      <4>1. object[d].state = "disconnected" <=> \E i \in DOMAIN pool : pool[i] = d
        BY DEF World, Homes
      <4>2. (\E i \in DOMAIN pool : pool[i] = d) <=> \E i \in DOMAIN pool' : pool'[i] = d
        BY <3>2
      <4> QED
        BY <1>6, <3>2, <4>1, <4>2
    <3> QED
      BY <3>1, <3>2
  <2>4. /\ \A i \in DOMAIN pool' : pool'[i] # NoObject
        /\ \A i, j \in DOMAIN pool' : pool'[i] = pool'[j] => i = j
    BY DEF World, Homes
  <2> QED
    BY <2>1, <2>2, <2>3, <2>4 DEF Homes, Live
<1>11. Files'
  BY <1>1 DEF World, Files
<1>12. Watching'
  <2>1. \A d \in Objects : Live(d)' =>
          /\ object'[d].is # NoSocket /\ file'[object'[d].fd] = object'[d].is
          /\ ReadsAs(usage, object'[d])
          /\ interest'[object'[d].fd] = WatchOf(d, object'[d].events)
    <3> SUFFICES ASSUME NEW d \in Objects, Live(d)'
                 PROVE  /\ object'[d].is # NoSocket /\ file'[object'[d].fd] = object'[d].is
                        /\ ReadsAs(usage, object'[d])
                        /\ interest'[object'[d].fd] = WatchOf(d, object'[d].events)
      OBVIOUS
    <3>1. CASE d = c
      BY <1>1, <1>3, <1>4, <1>5, <1>6, <3>1, NullAssumption
    <3>2. CASE d # c
      <4>1. object'[d] = object[d] /\ Live(d) /\ object[d].fd \in Fds /\ object[d].fd # f
        BY <1>6, <1>7, <1>8, <3>2
      <4>2. /\ object[d].is # NoSocket /\ file[object[d].fd] = object[d].is
            /\ ReadsAs(usage, object[d])
            /\ interest[object[d].fd] = WatchOf(d, object[d].events)
        BY <4>1 DEF World, Watching
      <4> QED
        BY <1>1, <1>6, <4>1, <4>2
    <3> QED
      BY <3>1, <3>2
  <2>2. \A d \in Objects : ~Live(d)' => object'[d].events = {}
    BY <1>6, <1>7 DEF World, Watching
  <2>3. \A g \in Fds : connections'[g] = NoObject => interest'[g] = NoWatch
    BY <1>6, NullAssumption DEF World, Watching
  <2> QED
    BY <2>1, <2>2, <2>3 DEF Watching
<1>13. ShutdownReachesKernel'
  <2> SUFFICES ASSUME NEW d \in Objects,
                      object'[d].state = "disconnecting", "out" \notin object'[d].events
               PROVE  socket'[object'[d].is].shut \/ object'[d].is \in excused'
    BY DEF ShutdownReachesKernel
  <2>1. object'[d] = object[d]
    BY <1>4, <1>6
  <2> QED
    BY <1>1, <2>1 DEF World, ShutdownReachesKernel
<1> QED
  BY <1>6, <1>9, <1>10, <1>11, <1>12, <1>13 DEF World

\* accept() returns the lowest free number, which no connection has.
LEMMA SocketOpens ==
  ASSUME World, NEW s \in Sockets, NEW f \in Fds, Accept(s, f), UNCHANGED usage
  PROVE  /\ World' /\ connections[f] = NoObject
         /\ \A c \in Objects : Live(c)' = Live(c)
         /\ \A g \in Fds : g # f => file'[g] = file[g]
         /\ file'[f] # NoSocket
<1>1. /\ socket[s].phase = "new" /\ file[f] = NoSocket
      /\ file' = [file EXCEPT ![f] = s]
      /\ socket' = [socket EXCEPT ![s].phase = "open"]
      /\ UNCHANGED <<object, connections, pool, interest, excused>>
  BY DEF Accept, owner
<1>2. /\ object \in [Objects -> ObjectStates]
      /\ connections \in [Fds -> Objects \cup {NoObject}]
      /\ file \in [Fds -> Sockets \cup {NoSocket}]
      /\ socket \in [Sockets -> KernelSockets]
  BY DEF World, WorldTypes
<1>3. \A c \in Objects : Live(c) =>
        object[c].fd \in Fds /\ object[c].fd # f /\ object[c].is \in Sockets
  <2> SUFFICES ASSUME NEW c \in Objects, Live(c)
               PROVE  object[c].fd \in Fds /\ object[c].fd # f /\ object[c].is \in Sockets
    OBVIOUS
  <2>1. object[c].fd \in Fds /\ object[c].is # NoSocket /\ file[object[c].fd] = object[c].is
    BY DEF World, Homes, Watching
  <2> QED
    BY <1>1, <1>2, <2>1
<1>4. connections[f] = NoObject
  BY <1>1, <1>2, <1>3 DEF World, Homes
<1>5. \A c \in Objects : Live(c)' = Live(c)
  BY <1>1 DEF Live
<1>6. /\ \A g \in Fds : g # f => file'[g] = file[g]
      /\ file'[f] = s /\ s # NoSocket
      /\ socket'[s].phase = "open" /\ socket'[s].shut = socket[s].shut
      /\ \A t \in Sockets : t # s => socket'[t] = socket[t]
  BY <1>1, <1>2, NullAssumption DEF KernelSockets
<1>7. WorldTypes'
  <2>1. socket' \in [Sockets -> KernelSockets]
    BY <1>1, <1>2 DEF KernelSockets
  <2> QED
    BY <1>1, <1>2, <2>1 DEF World, WorldTypes
<1>8. Homes'
  BY <1>1, <1>5 DEF World, Homes, Live
<1>9. Files'
  <2>1. \A g \in Fds : file[g] # NoSocket => file[g] # s /\ file[g] \in Sockets
    BY <1>1, <1>2 DEF World, Files
  <2> QED
    BY <1>1, <1>6, <2>1 DEF World, Files
<1>10. Watching'
  BY <1>1, <1>3, <1>5, <1>6 DEF World, Watching
<1>11. ShutdownReachesKernel'
  <2> SUFFICES ASSUME NEW c \in Objects,
                      object[c].state = "disconnecting", "out" \notin object[c].events
               PROVE  socket'[object[c].is].shut \/ object[c].is \in excused
    BY <1>1 DEF ShutdownReachesKernel
  <2>1. object[c].is \in Sockets
    BY <1>3 DEF Live
  <2>2. socket'[object[c].is].shut = socket[object[c].is].shut
    BY <1>6, <2>1
  <2> QED
    BY <2>2 DEF World, ShutdownReachesKernel
<1> QED
  BY <1>4, <1>5, <1>6, <1>7, <1>8, <1>9, <1>10, <1>11 DEF World

(***************************************************************************)
(* Steps of the queues.                                                    *)
(***************************************************************************)
LEMMA AppendSeq ==
  ASSUME NEW S, NEW s \in Seq(S), NEW x \in S
  PROVE  /\ Append(s, x) \in Seq(S)
         /\ \A i \in DOMAIN s : i \in DOMAIN Append(s, x) /\ Append(s, x)[i] = s[i]
                                /\ i # Len(s) + 1
         /\ \A i \in DOMAIN Append(s, x) : i \in DOMAIN s \/ i = Len(s) + 1
         /\ Append(s, x)[Len(s) + 1] = x
OBVIOUS

LEMMA TailSeq ==
  ASSUME NEW S, NEW s \in Seq(S), s # <<>>
  PROVE  /\ Head(s) \in S /\ Head(s) = s[1] /\ 1 \in DOMAIN s
         /\ Tail(s) \in Seq(S)
         /\ \A i \in DOMAIN Tail(s) :
              i \in Nat /\ i + 1 # 1 /\ i + 1 \in DOMAIN s /\ Tail(s)[i] = s[i + 1]
         /\ \A i, j \in DOMAIN Tail(s) : i + 1 = j + 1 => i = j
OBVIOUS

LEMMA CreateHasFd ==
  ASSUME NEW x \in Functors, x.op = "create"
  PROVE  x.fd \in Fds
BY DEF Functors

\* No descriptor that waits for its connection is touched.
Undisturbed == \A f \in Fds : Unconnected(f) => file'[f] # NoSocket /\ connections'[f] = NoObject

LEMMA QueuesStay ==
  ASSUME LoopTypes, Queued, Undisturbed, UNCHANGED <<functors, batch>>
  PROVE  Queued'
<1>1. \A i \in DOMAIN functors : functors[i].op = "create" => functors[i].fd \in Fds
  BY CreateHasFd DEF LoopTypes
<1>2. \A i \in DOMAIN batch : batch[i].op = "create" => batch[i].fd \in Fds
  BY CreateHasFd DEF LoopTypes
<1> QED
  BY <1>1, <1>2 DEF Queued, Undisturbed, Unconnected, SameCreate

\* A functor is queued, one that creates no connection or a new one.
LEMMA FunctorQueued ==
  ASSUME LoopTypes, Queued, Undisturbed, NEW x \in Functors,
         functors' = Append(functors, x), UNCHANGED batch,
         x.op = "create" => /\ ~Unconnected(x.fd)
                            /\ file'[x.fd] # NoSocket /\ connections'[x.fd] = NoObject
  PROVE  functors' \in Seq(Functors) /\ Queued'
<1>1. /\ functors \in Seq(Functors)
      /\ \A i \in DOMAIN functors : functors[i].op = "create" => functors[i].fd \in Fds
      /\ \A i \in DOMAIN batch : batch[i].op = "create" => batch[i].fd \in Fds
  BY CreateHasFd DEF LoopTypes
<1>2. /\ functors' \in Seq(Functors)
      /\ \A i \in DOMAIN functors' :
           \/ i \in DOMAIN functors /\ functors'[i] = functors[i]
           \/ i = Len(functors) + 1 /\ functors'[i] = x
  BY <1>1, AppendSeq
<1>3. /\ \A i \in DOMAIN functors : ~SameCreate(functors[i], x) /\ ~SameCreate(x, functors[i])
      /\ \A i \in DOMAIN batch : ~SameCreate(x, batch[i])
  BY DEF Queued, SameCreate
<1>4. \A i \in DOMAIN functors' : functors'[i].op = "create"
        => file'[functors'[i].fd] # NoSocket /\ connections'[functors'[i].fd] = NoObject
  BY <1>1, <1>2 DEF Queued, Undisturbed
<1>5. \A i \in DOMAIN batch : batch[i].op = "create"
        => file'[batch[i].fd] # NoSocket /\ connections'[batch[i].fd] = NoObject
  BY <1>1 DEF Queued, Undisturbed
<1>6. \A i, j \in DOMAIN functors' : SameCreate(functors'[i], functors'[j]) => i = j
  BY <1>2, <1>3 DEF Queued
<1>7. \A i \in DOMAIN functors', j \in DOMAIN batch : ~SameCreate(functors'[i], batch[j])
  BY <1>2, <1>3 DEF Queued
<1> QED
  BY <1>2, <1>4, <1>5, <1>6, <1>7 DEF Queued, Unconnected, SameCreate

\* The first functor of the batch runs, and touches its own descriptor at most.
LEMMA FunctorTaken ==
  ASSUME LoopTypes, Queued, batch # <<>>, batch' = Tail(batch), UNCHANGED functors,
         \A f \in Fds : Unconnected(f) /\ ~(Head(batch).op = "create" /\ Head(batch).fd = f)
           => file'[f] # NoSocket /\ connections'[f] = NoObject
  PROVE  batch' \in Seq(Functors) /\ Queued'
<1>1. /\ functors \in Seq(Functors) /\ batch \in Seq(Functors)
      /\ \A i \in DOMAIN functors : functors[i].op = "create" => functors[i].fd \in Fds
      /\ \A i \in DOMAIN batch : batch[i].op = "create" => batch[i].fd \in Fds
  BY CreateHasFd DEF LoopTypes
<1>2. /\ batch' \in Seq(Functors) /\ Head(batch) = batch[1] /\ 1 \in DOMAIN batch
      /\ \A i \in DOMAIN batch' :
           i + 1 # 1 /\ i + 1 \in DOMAIN batch /\ batch'[i] = batch[i + 1]
      /\ \A i, j \in DOMAIN batch' : i + 1 = j + 1 => i = j
  BY <1>1, TailSeq
<1>3. \A i \in DOMAIN batch' : ~SameCreate(Head(batch), batch'[i])
  BY <1>2 DEF Queued
<1>4. \A i \in DOMAIN functors : ~SameCreate(functors[i], Head(batch))
  BY <1>2 DEF Queued
<1>5. \A i \in DOMAIN functors : functors[i].op = "create"
        => file'[functors[i].fd] # NoSocket /\ connections'[functors[i].fd] = NoObject
  BY <1>1, <1>4 DEF Queued, SameCreate
<1>6. \A i \in DOMAIN batch' : batch'[i].op = "create"
        => file'[batch'[i].fd] # NoSocket /\ connections'[batch'[i].fd] = NoObject
  BY <1>1, <1>2, <1>3 DEF Queued, SameCreate
<1>7. \A i, j \in DOMAIN batch' : SameCreate(batch'[i], batch'[j]) => i = j
  BY <1>2 DEF Queued
<1>8. \A i \in DOMAIN functors, j \in DOMAIN batch' : ~SameCreate(functors[i], batch'[j])
  BY <1>2 DEF Queued
<1> QED
  BY <1>2, <1>5, <1>6, <1>7, <1>8 DEF Queued, Unconnected, SameCreate

(***************************************************************************)
(* Steps of handleEvent.                                                   *)
(***************************************************************************)
LEMMA HandlingStays ==
  ASSUME LoopTypes, Handling, UNCHANGED <<active, agenda>>,
         \A c \in Objects : Live(c)' = Live(c)
  PROVE  Handling'
<1>1. agenda.handlers # {} => agenda.of \in Objects
  BY DEF LoopTypes, Idle
<1>2. \A c \in DOMAIN active : Live(c)'
  BY DEF LoopTypes, Handling
<1>3. agenda.handlers \cap {"error", "read"} # {} => Live(agenda.of)'
  BY <1>1 DEF Handling
<1> QED
  BY <1>2, <1>3 DEF Handling, Live

\* Handler h of the channel in hand runs; only the read handler may close it.
LEMMA HandlerRuns ==
  ASSUME LoopTypes, Handling, NEW h \in {"error", "read", "write"}, Handle(h),
         \A c \in Objects : c # agenda.of \/ h # "read" => Live(c)' = Live(c)
  PROVE  /\ Handling' /\ agenda.of \in Objects
         /\ h \in {"error", "read"} => Live(agenda.of)
         /\ agenda' = Idle \/ agenda' \in [of : Objects, handlers : SUBSET Handlers]
<1>1. /\ pc = "handle" /\ h \in agenda.handlers /\ Earlier(h) \cap agenda.handlers = {}
      /\ agenda' = IF agenda.handlers = {h} THEN Idle ELSE [agenda EXCEPT !.handlers = @ \ {h}]
      /\ active' = active
  BY DEF Handle, InHand
<1>2. agenda \in [of : Objects, handlers : SUBSET Handlers]
  BY <1>1 DEF LoopTypes, Idle
<1>3. /\ agenda' = Idle \/ agenda' \in [of : Objects, handlers : SUBSET Handlers]
      /\ agenda'.handlers = agenda.handlers \ {h}
      /\ agenda'.handlers # {} => agenda'.of = agenda.of
  <2>1. CASE agenda.handlers = {h}
    BY <1>1, <2>1 DEF Idle
  <2>2. CASE agenda.handlers # {h}
    BY <1>1, <1>2, <2>2
  <2> QED
    BY <2>1, <2>2
<1>4. \A c \in DOMAIN active : c \in Objects /\ c # agenda.of
  BY <1>1 DEF Handling, LoopTypes
<1>5. \A c \in DOMAIN active : Live(c)'
  BY <1>4 DEF Handling
<1>6. agenda'.handlers \cap {"error", "read"} # {} => h # "read" /\ Live(agenda.of)
  <2>1. h = "read" => "error" \notin agenda.handlers
    BY <1>1 DEF Earlier
  <2> QED
    BY <1>3, <2>1 DEF Handling
<1>7. agenda'.handlers \cap {"error", "read"} # {}
      => object'[agenda.of].state \in {"connected", "disconnecting"}
  <2>1. agenda.of \in Objects
    BY <1>2
  <2> QED
    BY <1>6, <2>1 DEF Live
<1>8. agenda'.handlers \cap {"error", "read"} # {} => Live(agenda.of)'
  BY <1>3, <1>7 DEF Live
<1>9. Handling'
  BY <1>1, <1>3, <1>5, <1>8 DEF Handling, Live
<1> QED
  BY <1>1, <1>2, <1>3, <1>9 DEF Handling

(***************************************************************************)
(* The peers, epoll_wait and the handlers.                                 *)
(***************************************************************************)
LEMMA SameUndisturbed ==
  ASSUME UNCHANGED <<connections, file>>
  PROVE  Undisturbed
BY DEF Undisturbed, Unconnected

LEMMA AcceptStep ==
  ASSUME ConnectionsInv, UNCHANGED usage, NEW s \in Sockets, NEW f \in Fds, Accept(s, f)
  PROVE  ConnectionsInv'
<1> DEFINE x == [op |-> "create", fd |-> f]
<1>1. /\ World' /\ connections[f] = NoObject /\ file'[f] # NoSocket
      /\ \A c \in Objects : Live(c)' = Live(c)
      /\ \A g \in Fds : g # f => file'[g] = file[g]
  BY SocketOpens DEF ConnectionsInv
<1>2. /\ functors' = Append(functors, x) /\ file[f] = NoSocket
      /\ UNCHANGED <<connections, pc, active, agenda, callback, batch>>
  BY DEF Accept, owner
<1>3. x \in Functors /\ x.op = "create" /\ x.fd = f
  BY DEF Functors
<1>4. Undisturbed
  BY <1>1, <1>2 DEF Undisturbed, Unconnected
<1> HIDE DEF x
<1>5. functors' \in Seq(Functors) /\ Queued'
  BY <1>1, <1>2, <1>3, <1>4, FunctorQueued DEF ConnectionsInv, Unconnected
<1>6. LoopTypes'
  BY <1>2, <1>5 DEF ConnectionsInv, LoopTypes
<1>7. Handling'
  BY <1>1, <1>2, HandlingStays DEF ConnectionsInv
<1> QED
  BY <1>1, <1>5, <1>6, <1>7 DEF ConnectionsInv

\* A step that changes no more than flags of sockets keeps the invariant.
LEMMA FlagsStep ==
  ASSUME ConnectionsInv, UNCHANGED usage, SocketsKeep,
         UNCHANGED <<object, connections, pool, interest, file, pc, active, agenda, functors, batch>>,
         callback' = callback \/ callback' = Quiet
  PROVE  ConnectionsInv'
<1>1. World' /\ \A c \in Objects : Live(c)' = Live(c)
  BY SocketsChange DEF ConnectionsInv
<1>2. LoopTypes'
  BY DEF ConnectionsInv, LoopTypes
<1>3. Queued'
  BY SameUndisturbed, QueuesStay DEF ConnectionsInv
<1>4. Handling'
  BY <1>1, HandlingStays DEF ConnectionsInv
<1> QED
  BY <1>1, <1>2, <1>3, <1>4 DEF ConnectionsInv

LEMMA PeerStep ==
  ASSUME ConnectionsInv, UNCHANGED usage, NEW s \in Sockets, PeerSend(s) \/ PeerEnd(s)
  PROVE  ConnectionsInv'
<1>1. socket \in [Sockets -> KernelSockets]
  BY DEF ConnectionsInv, World, WorldTypes
<1>2. SocketsKeep
  <2>1. CASE PeerSend(s)
    BY <1>1, <2>1 DEF PeerSend, SocketsKeep, KernelSockets
  <2>2. CASE PeerEnd(s)
    <3>1. excused \subseteq excused'
      BY <2>2 DEF PeerEnd
    <3>2. CASE socket' = [socket EXCEPT ![s].fin = TRUE]
      <4> DEFINE rec == [socket[s] EXCEPT !.fin = TRUE]
      <4>1. /\ rec \in KernelSockets
            /\ rec.phase = socket[s].phase /\ rec.shut = socket[s].shut
        BY <1>1 DEF KernelSockets
      <4> HIDE DEF rec
      <4>2. socket' = [socket EXCEPT ![s] = rec]
        BY <3>2 DEF rec
      <4> QED
        BY <1>1, <3>1, <4>1, <4>2, SocketMoves
    <3>3. CASE socket' = [socket EXCEPT ![s].gone = TRUE, ![s].err = TRUE]
      <4> DEFINE rec == [socket[s] EXCEPT !.gone = TRUE, !.err = TRUE]
      <4>1. /\ rec \in KernelSockets
            /\ rec.phase = socket[s].phase /\ rec.shut = socket[s].shut
        BY <1>1 DEF KernelSockets
      <4> HIDE DEF rec
      <4>2. socket' = [socket EXCEPT ![s] = rec]
        BY <3>3 DEF rec
      <4> QED
        BY <1>1, <3>1, <4>1, <4>2, SocketMoves
    <3> QED
      BY <2>2, <3>2, <3>3 DEF PeerEnd
  <2> QED
    BY <2>1, <2>2
<1>3. /\ UNCHANGED <<object, connections, pool, interest, file>>
      /\ UNCHANGED <<pc, active, agenda, callback, functors, batch>>
  BY DEF PeerSend, PeerEnd, owner, loopVars
<1> QED
  BY <1>2, <1>3, FlagsStep

\* The sockets of live connections are watched for input, and a peer's end is
\* input; or nothing ends in both directions: HUP does not come alone.
LEMMA PollStep ==
  ASSUME ConnectionsInv, Calm, UNCHANGED usage, Poll
  PROVE  ConnectionsInv'
<1>1. PICK writable \in SUBSET {file[f] : f \in {w \in Watched : "out" \in interest[w].events}} :
        active' = [c \in {interest[f].of : f \in {g \in Watched : Reported(g, writable) # {}}} |->
                     Reported(object[c].fd, writable)]
  BY DEF Poll
<1>2. /\ pc = "poll" /\ pc' = "handle" /\ UNCHANGED worldVars
      /\ UNCHANGED <<agenda, callback, functors, batch>>
  BY DEF Poll, owner, kernel, worldVars
<1>3. World' /\ \A c \in Objects : Live(c)' = Live(c)
  BY <1>2, WorldStays DEF ConnectionsInv
<1>4. agenda = Idle /\ agenda.handlers = {}
  BY <1>2 DEF ConnectionsInv, LoopTypes, Idle
<1>5. \A f \in Watched : /\ interest[f].of \in Objects /\ Live(interest[f].of)
                         /\ object[interest[f].of].fd = f
                         /\ file[f] \in Sockets
                         /\ NeverStops(usage) => "in" \in interest[f].events
  <2> SUFFICES ASSUME NEW f \in Watched
               PROVE  /\ interest[f].of \in Objects /\ Live(interest[f].of)
                      /\ object[interest[f].of].fd = f
                      /\ file[f] \in Sockets
                      /\ NeverStops(usage) => "in" \in interest[f].events
    OBVIOUS
  <2>1. f \in Fds /\ connections[f] # NoObject /\ connections[f] \in Objects
    BY DEF Watched, ConnectionsInv, World, WorldTypes, Watching
  <2>2. Live(connections[f]) /\ object[connections[f]].fd = f
    BY <2>1 DEF ConnectionsInv, World, Homes
  <2>3. /\ interest[f] = WatchOf(connections[f], object[connections[f]].events)
        /\ file[f] # NoSocket /\ ReadsAs(usage, object[connections[f]])
    BY <2>1, <2>2 DEF ConnectionsInv, World, Watching
  <2>4. interest[f] = [of |-> connections[f], events |-> object[connections[f]].events]
    BY <2>3 DEF Watched, WatchOf
  <2>5. file[f] \in Sockets
    BY <2>1, <2>3 DEF ConnectionsInv, World, WorldTypes
  <2> QED
    BY <2>1, <2>2, <2>3, <2>4, <2>5 DEF ReadsAs
<1>6. \A f \in Watched : "hup" \in Reported(f, writable) => "in" \in Reported(f, writable)
  <2>1. CASE NeverStops(usage)
    BY <1>5, <2>1 DEF Reported, Ready
  <2>2. CASE ~NeverStops(usage)
    <3>1. \A f \in Watched : ~socket[file[f]].gone /\ ~socket[file[f]].shut
      BY <1>5, <2>2 DEF Calm
    <3> QED
      BY <3>1 DEF Reported, Ready
  <2> QED
    BY <2>1, <2>2
<1>7. \A c \in DOMAIN active' : /\ c \in Objects /\ Live(c)
                                /\ "hup" \in active'[c] => "in" \in active'[c]
  <2> SUFFICES ASSUME NEW c \in DOMAIN active'
               PROVE  c \in Objects /\ Live(c) /\ ("hup" \in active'[c] => "in" \in active'[c])
    OBVIOUS
  <2>1. PICK f \in Watched : c = interest[f].of
    BY <1>1
  <2>2. active'[c] = Reported(f, writable)
    BY <1>1, <1>5, <2>1
  <2> QED
    BY <1>5, <1>6, <2>1, <2>2
<1>8. LoopTypes'
  BY <1>2, <1>7 DEF ConnectionsInv, LoopTypes
<1>9. Queued'
  <2>1. Undisturbed
    BY <1>2, SameUndisturbed DEF worldVars
  <2> QED
    BY <1>2, <2>1, QueuesStay DEF ConnectionsInv
<1>10. Handling'
  BY <1>2, <1>3, <1>4, <1>7 DEF Handling
<1> QED
  BY <1>3, <1>8, <1>9, <1>10 DEF ConnectionsInv

LEMMA EventStep ==
  ASSUME ConnectionsInv, UNCHANGED usage, NEW c \in Objects, HandleEvent(c)
  PROVE  ConnectionsInv'
<1>1. /\ pc = "handle" /\ c \in DOMAIN active
      /\ agenda' = [of |-> c, handlers |-> {h \in Handlers : Due(h, active[c])}]
      /\ active' = [d \in DOMAIN active \ {c} |-> active[d]]
      /\ UNCHANGED worldVars /\ UNCHANGED <<pc, callback, functors, batch>>
  BY DEF HandleEvent, owner, kernel, worldVars
<1>2. World' /\ \A d \in Objects : Live(d)' = Live(d)
  BY <1>1, WorldStays DEF ConnectionsInv
<1>3. Live(c) /\ ~Due("close", active[c])
  BY <1>1 DEF ConnectionsInv, Handling, Due
<1>4. /\ agenda' \in [of : Objects, handlers : SUBSET Handlers]
      /\ agenda'.of = c /\ "close" \notin agenda'.handlers
  BY <1>1, <1>3
<1>5. /\ DOMAIN active' \subseteq DOMAIN active /\ c \notin DOMAIN active'
      /\ \A d \in DOMAIN active' : active'[d] = active[d]
  BY <1>1
<1>6. LoopTypes'
  BY <1>1, <1>4, <1>5 DEF ConnectionsInv, LoopTypes
<1>7. Queued'
  <2>1. Undisturbed
    BY <1>1, SameUndisturbed DEF worldVars
  <2> QED
    BY <1>1, <2>1, QueuesStay DEF ConnectionsInv
<1>8. Handling'
  <2>1. \A d \in DOMAIN active' : d \in Objects /\ Live(d) /\ ("hup" \in active'[d] => "in" \in active'[d])
    BY <1>5 DEF ConnectionsInv, LoopTypes, Handling
  <2>2. \A d \in DOMAIN active' : Live(d)'
    BY <1>2, <2>1
  <2>3. Live(agenda.of)'
    BY <1>1, <1>3, <1>4 DEF Live, worldVars
  <2> QED
    BY <1>4, <1>5, <2>1, <2>2, <2>3 DEF Handling
<1> QED
  BY <1>2, <1>6, <1>7, <1>8 DEF ConnectionsInv

LEMMA CloseHandlerStep ==
  ASSUME ConnectionsInv, CloseHandler
  PROVE  FALSE
BY DEF CloseHandler, Handle, InHand, ConnectionsInv, Handling

\* What the handlers and the calls may rely on.
LEMMA LiveConnection ==
  ASSUME World, NEW c \in Objects, Live(c)
  PROVE  /\ object[c] \in ObjectStates /\ object[c].fd \in Fds
         /\ object[c].state \in {"connected", "disconnecting"}
         /\ ReadsAs(usage, object[c]) /\ object[c].events \subseteq Events
         /\ interest[object[c].fd] = WatchOf(c, object[c].events)
         /\ SocketOf(c) = object[c].is /\ SocketOf(c) \in Sockets /\ SocketOf(c) # NoSocket
         /\ socket \in [Sockets -> KernelSockets]
<1>1. object[c] \in ObjectStates /\ socket \in [Sockets -> KernelSockets]
  BY DEF World, WorldTypes
<1>2. /\ object[c].fd \in Fds /\ ReadsAs(usage, object[c])
      /\ interest[object[c].fd] = WatchOf(c, object[c].events)
      /\ object[c].is # NoSocket /\ SocketOf(c) = object[c].is
  BY DEF World, Homes, Watching, SocketOf
<1>3. object[c].is \in Sockets /\ object[c].events \subseteq Events
  BY <1>1, <1>2 DEF ObjectStates
<1> QED
  BY <1>1, <1>2, <1>3 DEF Live

LEMMA ErrorCleared ==
  ASSUME World, NEW c \in Objects, Live(c), ClearError(SocketOf(c)), UNCHANGED excused
  PROVE  SocketsKeep
<1> DEFINE s == SocketOf(c)
<1>1. s \in Sockets /\ s # NoSocket
  BY LiveConnection
<1>2. socket \in [Sockets -> KernelSockets]
  BY DEF World, WorldTypes
<1>3. socket' = [socket EXCEPT ![s].err = FALSE]
  BY <1>1 DEF ClearError
<1> HIDE DEF s
<1> QED
  BY <1>1, <1>2, <1>3 DEF SocketsKeep, KernelSockets

\* A handler that keeps every connection alive and disturbs no queue.
LEMMA HandlerKeeps ==
  ASSUME ConnectionsInv, UNCHANGED usage, NEW h \in {"error", "read", "write"}, Handle(h),
         World', \A c \in Objects : c # agenda.of \/ h # "read" => Live(c)' = Live(c),
         Undisturbed, UNCHANGED pc,
         functors' = functors
           \/ \E x \in Functors : x.op # "create" /\ functors' = Append(functors, x),
         callback' = callback \/ callback' \in [at : Callbacks, of : Objects]
  PROVE  ConnectionsInv'
<1>1. active' = active /\ batch' = batch /\ pc = "handle"
  BY DEF Handle
<1>2. /\ Handling'
      /\ agenda' = Idle \/ agenda' \in [of : Objects, handlers : SUBSET Handlers]
  BY HandlerRuns DEF ConnectionsInv
<1>3. functors' \in Seq(Functors) /\ Queued'
  <2>1. CASE functors' = functors
    BY <1>1, <2>1, QueuesStay DEF ConnectionsInv, LoopTypes
  <2>2. ASSUME NEW x \in Functors, x.op # "create", functors' = Append(functors, x)
        PROVE  functors' \in Seq(Functors) /\ Queued'
    BY <1>1, <2>2, FunctorQueued DEF ConnectionsInv
  <2> QED
    BY <2>1, <2>2
<1>4. LoopTypes'
  BY <1>1, <1>2, <1>3 DEF ConnectionsInv, LoopTypes
<1> QED
  BY <1>2, <1>3, <1>4 DEF ConnectionsInv

LEMMA ErrorStep ==
  ASSUME ConnectionsInv, UNCHANGED usage, ErrorHandler
  PROVE  ConnectionsInv'
<1> DEFINE c == agenda.of
<1>1. /\ Handle("error") /\ ClearError(SocketOf(c))
      /\ UNCHANGED <<object, connections, pool, interest, file, pc, callback, functors, excused>>
  BY DEF ErrorHandler, owner
<1>2. c \in Objects /\ Live(c)
  BY <1>1 DEF Handle, InHand, ConnectionsInv, Handling, LoopTypes, Idle
<1> HIDE DEF c
<1>3. SocketsKeep
  BY <1>1, <1>2, ErrorCleared DEF ConnectionsInv
<1>4. World' /\ \A d \in Objects : Live(d)' = Live(d)
  BY <1>1, <1>3, SocketsChange DEF ConnectionsInv
<1>5. Undisturbed
  BY <1>1, SameUndisturbed
<1> QED
  BY <1>1, <1>4, <1>5, HandlerKeeps

LEMMA ReadStep ==
  ASSUME ConnectionsInv, UNCHANGED usage, ReadHandler
  PROVE  ConnectionsInv'
<1> DEFINE c == agenda.of
           s == SocketOf(c)
<1>1. Handle("read") /\ UNCHANGED <<functors, excused>>
  BY DEF ReadHandler
<1>2. c \in Objects /\ Live(c)
  BY <1>1 DEF Handle, InHand, ConnectionsInv, Handling, LoopTypes, Idle
<1>3. s \in Sockets /\ s # NoSocket /\ socket \in [Sockets -> KernelSockets]
  BY <1>2, LiveConnection DEF ConnectionsInv
<1>4. CASE /\ socket' = [socket EXCEPT ![s].data = FALSE]
           /\ callback' = [at |-> "message", of |-> c]
           /\ UNCHANGED <<object, connections, pool, interest, file, pc>>
  <2>1. SocketsKeep
    BY <1>1, <1>3, <1>4 DEF SocketsKeep, KernelSockets
  <2>2. World' /\ \A d \in Objects : Live(d)' = Live(d)
    BY <1>4, <2>1, SocketsChange DEF ConnectionsInv
  <2>3. Undisturbed
    BY <1>4, SameUndisturbed
  <2>4. callback' \in [at : Callbacks, of : Objects]
    BY <1>2, <1>4 DEF Callbacks
  <2> QED
    BY <1>1, <1>4, <2>2, <2>3, <2>4, HandlerKeeps
<1>5. CASE /\ ClearError(s)
           /\ UNCHANGED <<object, connections, pool, interest, file, pc, callback>>
  <2>1. SocketsKeep
    BY <1>1, <1>2, <1>5, ErrorCleared DEF ConnectionsInv
  <2>2. World' /\ \A d \in Objects : Live(d)' = Live(d)
    BY <1>5, <2>1, SocketsChange DEF ConnectionsInv
  <2>3. Undisturbed
    BY <1>5, SameUndisturbed
  <2> QED
    BY <1>1, <1>5, <2>2, <2>3, HandlerKeeps
<1>6. CASE HandleClose(c) /\ UNCHANGED callback
  <2>1. /\ World' /\ pc' = pc
        /\ \A d \in Objects : d # c => Live(d)' = Live(d)
        /\ \A g \in Fds : connections[g] = NoObject
             => connections'[g] = NoObject /\ file'[g] = file[g]
    BY <1>1, <1>2, <1>6, ConnectionCloses DEF ConnectionsInv
  <2>2. Undisturbed
    BY <2>1 DEF Undisturbed, Unconnected
  <2> QED
    BY <1>1, <1>6, <2>1, <2>2, HandlerKeeps
<1> QED
  BY <1>1, <1>4, <1>5, <1>6 DEF ReadHandler, owner

\* A live connection asks for other events: disableWriting of all that was
\* enabled deletes the descriptor, anything else adds or modifies it.
LEMMA EventsSet ==
  ASSUME World, SocketsKeep, UNCHANGED <<usage, connections, pool, file>>,
         NEW c \in Objects, Live(c), NEW old \in ObjectStates, Update(c, old),
         old.state = object[c].state, old.fd = object[c].fd, old.is = object[c].is,
         old.status = object[c].status, old.reading <=> "in" \in old.events,
         old.events = {} => object[c].events # {},
         NeverStops(usage) => "in" \in old.events,
         object[c].state = "disconnecting" /\ "out" \notin old.events
           => socket'[object[c].is].shut \/ object[c].is \in excused'
  PROVE  World' /\ \A d \in Objects : Live(d)' = Live(d)
<1> DEFINE ev == old.events
           rec == [old EXCEPT !.status = StatusOf(ev)]
<1>1. /\ object[c].fd \in Fds /\ file[object[c].fd] # NoSocket
      /\ object[c].status = StatusOf(object[c].events)
      /\ object[c].state \in {"connected", "disconnecting"}
  BY LiveConnection DEF SocketOf, ReadsAs
<1>2. (old.status = "added" /\ ev = {}) <=> ev = {}
  BY <1>1 DEF StatusOf
<1>3. /\ object' = [object EXCEPT ![c] = rec]
      /\ interest' = [interest EXCEPT ![old.fd] = WatchOf(c, ev)]
  BY <1>1, <1>2 DEF Update, StatusOf, WatchOf
<1>4. /\ rec \in ObjectStates /\ rec.events = ev /\ rec.fd = old.fd /\ rec.is = old.is
      /\ rec.state = old.state /\ rec.status = StatusOf(ev) /\ rec.reading = old.reading
  BY DEF ObjectStates, StatusOf
<1> HIDE DEF rec
<1>5. ReadsAs(usage, rec)
  BY <1>4 DEF ReadsAs
<1> QED
  BY <1>1, <1>3, <1>4, <1>5, RecordChanges

\* The same for a change of EPOLLOUT alone.
LEMMA OutputSet ==
  ASSUME World, SocketsKeep, UNCHANGED <<usage, connections, pool, file>>,
         NEW c \in Objects, Live(c), NEW ev \in SUBSET Events, SetEvents(c, ev),
         "in" \in ev <=> "in" \in object[c].events, ev = {} => object[c].events # {},
         object[c].state = "disconnecting" /\ "out" \notin ev
           => socket'[object[c].is].shut \/ object[c].is \in excused'
  PROVE  World' /\ \A d \in Objects : Live(d)' = Live(d)
<1> DEFINE old == [object[c] EXCEPT !.events = ev]
<1>1. object[c] \in ObjectStates /\ ReadsAs(usage, object[c])
  BY LiveConnection
<1>2. /\ old \in ObjectStates /\ old.events = ev /\ old.state = object[c].state
      /\ old.fd = object[c].fd /\ old.is = object[c].is /\ old.status = object[c].status
      /\ old.reading = object[c].reading
  BY <1>1 DEF ObjectStates
<1>3. Update(c, old)
  BY DEF SetEvents
<1> HIDE DEF old
<1>4. (old.reading <=> "in" \in old.events) /\ (NeverStops(usage) => "in" \in old.events)
  BY <1>1, <1>2 DEF ReadsAs
<1> QED
  BY <1>2, <1>3, <1>4, EventsSet

LEMMA WriteStep ==
  ASSUME ConnectionsInv, UNCHANGED usage, WriteHandler
  PROVE  ConnectionsInv'
<1> DEFINE c == agenda.of
           s == SocketOf(c)
           ev == object[c].events \ {"out"}
<1>1. /\ Handle("write") /\ UNCHANGED <<connections, pool, file, pc, callback, excused>>
  BY DEF WriteHandler, owner
<1>2. c \in Objects
  BY <1>1 DEF Handle, InHand, ConnectionsInv, LoopTypes, Idle
<1>3. Undisturbed
  BY <1>1, SameUndisturbed
<1>4. CASE UNCHANGED <<object, interest, socket, functors>>
  <2>1. World' /\ \A d \in Objects : Live(d)' = Live(d)
    BY <1>1, <1>4, WorldStays DEF ConnectionsInv, worldVars
  <2> QED
    BY <1>1, <1>3, <1>4, <2>1, HandlerKeeps
<1>5. CASE /\ "out" \in object[c].events /\ Drained(c) /\ FinishShutdown(c)
           /\ functors' = Append(functors, [op |-> "complete", of |-> c])
  <2>1. Live(c)
    BY <1>2, <1>5 DEF ConnectionsInv, World, Watching
  <2>2. /\ s \in Sockets /\ s # NoSocket /\ s = object[c].is
        /\ socket \in [Sockets -> KernelSockets]
    BY <1>2, <2>1, LiveConnection DEF ConnectionsInv
  <2>3. SetEvents(c, ev) /\ FinishShutdown(c)
    BY <1>5 DEF Drained
  <2>4. /\ ev \subseteq Events /\ "out" \notin ev
        /\ "in" \in ev <=> "in" \in object[c].events
    BY <1>2, <2>1, LiveConnection DEF ConnectionsInv
  <2>5. IF object[c].state = "disconnecting" THEN socket' = [socket EXCEPT ![s].shut = TRUE]
        ELSE socket' = socket
    <3>1. CASE object[c].state = "disconnecting"
      <4>1. ShutdownInLoop(c, ev)
        BY <2>3, <3>1 DEF FinishShutdown
      <4>2. "out" \notin ev
        OBVIOUS
      <4> HIDE DEF ev, s
      <4>3. socket' = [socket EXCEPT ![SocketOf(c)].shut = TRUE]
        BY <2>2, <4>1, <4>2 DEF ShutdownInLoop, s
      <4> QED
        BY <3>1, <4>3 DEF s
    <3>2. CASE object[c].state # "disconnecting"
      BY <2>3, <3>2 DEF FinishShutdown
    <3> QED
      BY <3>1, <3>2
  <2>6. /\ SocketsKeep
        /\ object[c].state = "disconnecting" => socket'[s].shut
    <3> HIDE DEF s
    <3>1. CASE object[c].state = "disconnecting"
      <4>1. socket' = [socket EXCEPT ![s].shut = TRUE]
        BY <2>5, <3>1
      <4>2. SocketsKeep /\ socket'[s].shut
        BY <1>1, <2>2, <4>1, ShutKeeps
      <4> QED
        BY <4>2
    <3>2. CASE object[c].state # "disconnecting"
      <4>1. socket' = socket /\ socket \in [Sockets -> KernelSockets]
        BY <2>2, <2>5, <3>2
      <4> QED
        BY <1>1, <3>2, <4>1 DEF SocketsKeep
    <3> QED
      BY <3>1, <3>2
  <2> HIDE DEF ev
  <2>7. World' /\ \A d \in Objects : Live(d)' = Live(d)
    BY <1>1, <1>2, <2>1, <2>2, <1>5, <2>3, <2>4, <2>6, OutputSet DEF ConnectionsInv
  <2>8. [op |-> "complete", of |-> c] \in Functors
    BY <1>2 DEF Functors
  <2> QED
    BY <1>1, <1>3, <1>5, <2>7, <2>8, HandlerKeeps
<1> QED
  BY <1>4, <1>5 DEF WriteHandler

(***************************************************************************)
(* The functors.                                                           *)
(***************************************************************************)
LEMMA NothingInHand ==
  ASSUME active' = <<>>, agenda' = Idle
  PROVE  Handling'
BY DEF Handling, Idle

LEMMA TurnStep ==
  ASSUME ConnectionsInv, UNCHANGED usage, RunFunctors \/ EndFunctors
  PROVE  ConnectionsInv'
<1>1. UNCHANGED worldVars /\ UNCHANGED <<active, agenda, callback>>
  BY DEF RunFunctors, EndFunctors, owner, kernel, worldVars
<1>2. World'
  BY <1>1, WorldStays DEF ConnectionsInv
<1>3. active = <<>> /\ agenda = Idle
  BY DEF RunFunctors, EndFunctors, ConnectionsInv, LoopTypes
<1>4. Handling'
  BY <1>1, <1>3, NothingInHand
<1>5. CASE RunFunctors
  <2>1. batch = <<>> /\ batch' = functors /\ functors' = <<>> /\ pc' = "run"
    BY <1>5 DEF RunFunctors, ConnectionsInv, LoopTypes
  <2>2. LoopTypes'
    BY <1>1, <1>3, <2>1 DEF ConnectionsInv, LoopTypes
  <2>3. Queued'
    BY <1>1, <2>1 DEF ConnectionsInv, Queued, Unconnected, SameCreate, worldVars
  <2> QED
    BY <1>2, <1>4, <2>2, <2>3 DEF ConnectionsInv
<1>6. CASE EndFunctors
  <2>1. batch = <<>> /\ UNCHANGED <<functors, batch>> /\ pc' = "poll"
    BY <1>6 DEF EndFunctors
  <2>2. LoopTypes'
    BY <1>1, <1>3, <2>1 DEF ConnectionsInv, LoopTypes
  <2>3. Queued'
    BY <1>1, <2>1 DEF ConnectionsInv, Queued, Unconnected, SameCreate, worldVars
  <2> QED
    BY <1>2, <1>4, <2>2, <2>3 DEF ConnectionsInv
<1> QED
  BY <1>5, <1>6

\* A functor runs and keeps the world whole.
LEMMA FunctorKeeps ==
  ASSUME ConnectionsInv, UNCHANGED usage, NEW op, Run(op), World', UNCHANGED pc,
         \A f \in Fds : Unconnected(f) /\ ~(Head(batch).op = "create" /\ Head(batch).fd = f)
           => file'[f] # NoSocket /\ connections'[f] = NoObject,
         callback' = callback \/ callback' \in [at : Callbacks, of : Objects]
  PROVE  ConnectionsInv'
<1>1. /\ pc = "run" /\ batch # <<>> /\ batch' = Tail(batch)
      /\ UNCHANGED <<active, agenda, functors>>
  BY DEF Run
<1>2. batch' \in Seq(Functors) /\ Queued'
  BY <1>1, FunctorTaken DEF ConnectionsInv
<1>3. active = <<>> /\ agenda = Idle
  BY <1>1 DEF ConnectionsInv, LoopTypes
<1>4. LoopTypes'
  BY <1>1, <1>2, <1>3 DEF ConnectionsInv, LoopTypes
<1>5. Handling'
  BY <1>1, <1>3, NothingInHand
<1> QED
  BY <1>2, <1>4, <1>5 DEF ConnectionsInv

LEMMA FunctorOf ==
  ASSUME ConnectionsInv, batch # <<>>
  PROVE  /\ Head(batch).op = "create" => Head(batch).fd \in Fds /\ Unconnected(Head(batch).fd)
         /\ Head(batch).op \in {"complete", "forceClose"} => Head(batch).of \in Objects
<1>1. batch \in Seq(Functors)
  BY DEF ConnectionsInv, LoopTypes
<1>2. Head(batch) \in Functors /\ Head(batch) = batch[1] /\ 1 \in DOMAIN batch
  BY <1>1, TailSeq
<1>3. Head(batch).op = "create" => Unconnected(Head(batch).fd)
  BY <1>2 DEF ConnectionsInv, Queued
<1> QED
  BY <1>2, <1>3 DEF Functors

\* The pool without its last object.
LEMMA PoolPops ==
  ASSUME NEW S, NEW q \in Seq(S), q # <<>>, \A i, j \in DOMAIN q : q[i] = q[j] => i = j
  PROVE  /\ Front(q) \in Seq(S) /\ Last(q) \in S
         /\ \E i \in DOMAIN q : q[i] = Last(q)
         /\ \A i \in DOMAIN Front(q) : i \in DOMAIN q /\ Front(q)[i] = q[i] /\ q[i] # Last(q)
         /\ \A i \in DOMAIN q : q[i] # Last(q) => i \in DOMAIN Front(q)
<1>1. Len(q) \in Nat /\ Len(q) > 0 /\ DOMAIN q = 1..Len(q)
  OBVIOUS
<1>2. Len(q) \in DOMAIN q /\ Last(q) = q[Len(q)]
  BY <1>1 DEF Last
<1>3. /\ Front(q) \in Seq(S) /\ DOMAIN Front(q) = 1..(Len(q) - 1)
      /\ \A i \in 1..(Len(q) - 1) : Front(q)[i] = q[i]
  <2> DEFINE n == Len(q) - 1
             r == SubSeq(q, 1, n)
  <2>1. n \in Int /\ n >= 0 /\ 1 \in Int /\ \A i \in 1..n : q[i] \in S
    BY <1>1
  <2>2. n - 1 + 1 = n /\ \A i \in 1..n : 1 + i - 1 = i
    BY <2>1
  <2> HIDE DEF n
  <2>3. /\ r \in Seq(S) /\ Len(r) = IF 1 <= n THEN n - 1 + 1 ELSE 0
        /\ \A i \in 1..(n - 1 + 1) : r[i] = q[1 + i - 1]
    BY <2>1, SubSeqProperties
  <2> HIDE DEF r
  <2>4. Len(r) = n /\ DOMAIN r = 1..n /\ \A i \in 1..n : r[i] = q[i]
    <3>1. Len(r) = n
      BY <2>1, <2>2, <2>3
    <3>2. DOMAIN r = 1..Len(r)
      BY <2>3
    <3>3. \A i \in 1..n : r[i] = q[1 + i - 1]
      BY <2>2, <2>3
    <3> QED
      BY <2>2, <3>1, <3>2, <3>3
  <2>5. Front(q) = r
    BY DEF Front, r, n
  <2> QED
    BY <2>3, <2>4, <2>5 DEF n
<1>4. \A n \in Nat : /\ \A i \in 1..(n - 1) : i \in 1..n /\ i # n
                   /\ \A i \in 1..n : i = n \/ i \in 1..(n - 1)
  OBVIOUS
<1>5. /\ \A i \in 1..(Len(q) - 1) : i \in DOMAIN q /\ i # Len(q)
      /\ \A i \in DOMAIN q : i = Len(q) \/ i \in 1..(Len(q) - 1)
  BY <1>1, <1>4
<1> QED
  BY <1>2, <1>3, <1>5

LEMMA CreateStep ==
  ASSUME ConnectionsInv, UNCHANGED usage, CreateConnection
  PROVE  ConnectionsInv'
<1> DEFINE f == Head(batch).fd
<1>1. Run("create") /\ batch # <<>> /\ Head(batch).op = "create"
  BY DEF CreateConnection, Run
<1>2. f \in Fds /\ Unconnected(f)
  BY <1>1, FunctorOf
<1>3. /\ pool \in Seq(Objects \cup {NoObject})
      /\ \A i \in DOMAIN pool : pool[i] # NoObject
      /\ \A i, j \in DOMAIN pool : pool[i] = pool[j] => i = j
      /\ \A c \in Objects : object[c].state = "disconnected" <=> \E i \in DOMAIN pool : pool[i] = c
  BY DEF ConnectionsInv, World, WorldTypes, Homes
<1>4. ASSUME NEW c \in Objects, Establish(c, f), ~Live(c), UNCHANGED pc,
             pool' \in Seq(Objects \cup {NoObject}),
             \A i \in DOMAIN pool' : i \in DOMAIN pool /\ pool'[i] = pool[i] /\ pool[i] # c,
             \A i \in DOMAIN pool : pool[i] # c => i \in DOMAIN pool'
      PROVE  ConnectionsInv'
  <2>1. World' /\ \A g \in Fds : g # f => connections'[g] = connections[g]
    BY <1>2, <1>4, ConnectionOpens DEF ConnectionsInv, Unconnected
  <2>2. file' = file /\ callback' \in [at : Callbacks, of : Objects]
    BY <1>4 DEF Establish, Callbacks
  <2>3. \A g \in Fds : Unconnected(g) /\ ~(Head(batch).op = "create" /\ Head(batch).fd = g)
          => file'[g] # NoSocket /\ connections'[g] = NoObject
    BY <1>1, <2>1, <2>2 DEF Unconnected
  <2> QED
    BY <1>1, <1>4, <2>1, <2>2, <2>3, FunctorKeeps
<1>5. CASE pool = <<>>
  <2>1. PICK c \in Objects : object[c].state = "none" /\ Establish(c, f) /\ UNCHANGED <<pool, pc>>
    BY <1>5 DEF CreateConnection
  <2>2. ~Live(c) /\ DOMAIN pool = {}
    BY <1>5, <2>1 DEF Live
  <2> QED
    BY <1>3, <1>4, <2>1, <2>2
<1>6. CASE pool # <<>>
  <2> DEFINE c == Last(pool)
  <2>1. /\ Front(pool) \in Seq(Objects \cup {NoObject}) /\ c \in Objects \cup {NoObject}
        /\ \E i \in DOMAIN pool : pool[i] = c
        /\ \A i \in DOMAIN Front(pool) : i \in DOMAIN pool /\ Front(pool)[i] = pool[i] /\ pool[i] # c
        /\ \A i \in DOMAIN pool : pool[i] # c => i \in DOMAIN Front(pool)
    BY <1>3, <1>6, PoolPops
  <2>2. c # NoObject /\ c \in Objects /\ ~Live(c)
    BY <1>3, <2>1 DEF Live
  <2>3. Establish(c, f) /\ pool' = Front(pool) /\ UNCHANGED pc
    BY <1>6, <2>2 DEF CreateConnection, TakesFromPool
  <2> HIDE DEF c, f
  <2> QED
    BY <1>4, <2>1, <2>2, <2>3
<1> QED
  BY <1>5, <1>6

LEMMA ForceCloseStep ==
  ASSUME ConnectionsInv, UNCHANGED usage, ForceCloseInLoop
  PROVE  ConnectionsInv'
<1> DEFINE c == Head(batch).of
<1>1. Run("forceClose") /\ batch # <<>> /\ UNCHANGED <<callback, excused>>
  BY DEF ForceCloseInLoop, Run
<1>2. c \in Objects
  BY <1>1, FunctorOf DEF Run
<1>3. CASE Live(c)
  <2>1. HandleClose(c)
    BY <1>3 DEF ForceCloseInLoop, ForceCloses, Live
  <2>2. /\ World' /\ pc' = pc
        /\ \A g \in Fds : connections[g] = NoObject
             => connections'[g] = NoObject /\ file'[g] = file[g]
    BY <1>1, <1>2, <1>3, <2>1, ConnectionCloses DEF ConnectionsInv
  <2>3. \A g \in Fds : Unconnected(g) => file'[g] # NoSocket /\ connections'[g] = NoObject
    BY <2>2 DEF Unconnected
  <2> QED
    BY <1>1, <2>2, <2>3, FunctorKeeps
<1>4. CASE ~Live(c)
  <2>1. UNCHANGED worldVars /\ UNCHANGED pc
    BY <1>1, <1>4 DEF ForceCloseInLoop, ForceCloses, Live, owner, kernel, worldVars
  <2>2. World'
    BY <2>1, WorldStays DEF ConnectionsInv
  <2>3. \A g \in Fds : Unconnected(g) => file'[g] # NoSocket /\ connections'[g] = NoObject
    BY <2>1 DEF Unconnected, worldVars
  <2> QED
    BY <1>1, <2>1, <2>2, <2>3, FunctorKeeps
<1> QED
  BY <1>3, <1>4

LEMMA CompleteStep ==
  ASSUME ConnectionsInv, UNCHANGED usage, WriteComplete
  PROVE  ConnectionsInv'
<1>1. /\ Run("complete") /\ UNCHANGED worldVars /\ UNCHANGED pc
      /\ callback' = [at |-> "writeComplete", of |-> Head(batch).of]
  BY DEF WriteComplete, owner, kernel, worldVars
<1>2. Head(batch).of \in Objects
  BY <1>1, FunctorOf DEF Run
<1>3. callback' \in [at : Callbacks, of : Objects]
  BY <1>1, <1>2 DEF Callbacks
<1>4. World'
  BY <1>1, WorldStays DEF ConnectionsInv
<1>5. \A g \in Fds : Unconnected(g) => file'[g] # NoSocket /\ connections'[g] = NoObject
  BY <1>1 DEF Unconnected, worldVars
<1> QED
  BY <1>1, <1>3, <1>4, <1>5, FunctorKeeps

(***************************************************************************)
(* The user's calls.                                                       *)
(***************************************************************************)
LEMMA CallKeeps ==
  ASSUME ConnectionsInv, UNCHANGED usage, World', \A c \in Objects : Live(c)' = Live(c),
         UNCHANGED <<connections, file, pc, active, agenda, batch>>, callback' = Quiet,
         functors' = functors
           \/ \E x \in Functors : x.op # "create" /\ functors' = Append(functors, x)
  PROVE  ConnectionsInv'
<1>1. Undisturbed
  BY SameUndisturbed
<1>2. functors' \in Seq(Functors) /\ Queued'
  <2>1. CASE functors' = functors
    BY <1>1, <2>1, QueuesStay DEF ConnectionsInv, LoopTypes
  <2>2. ASSUME NEW x \in Functors, x.op # "create", functors' = Append(functors, x)
        PROVE  functors' \in Seq(Functors) /\ Queued'
    BY <1>1, <2>2, FunctorQueued DEF ConnectionsInv
  <2> QED
    BY <2>1, <2>2
<1>3. LoopTypes'
  BY <1>2 DEF ConnectionsInv, LoopTypes
<1>4. Handling'
  BY HandlingStays DEF ConnectionsInv
<1> QED
  BY <1>2, <1>3, <1>4 DEF ConnectionsInv

LEMMA InCallbackOf ==
  ASSUME ConnectionsInv, callback # Quiet
  PROVE  callback.at \in Callbacks /\ callback.of \in Objects
BY DEF ConnectionsInv, LoopTypes

LEMMA QuietStep ==
  ASSUME ConnectionsInv, UNCHANGED usage, CallNothing
  PROVE  ConnectionsInv'
<1>1. UNCHANGED worldVars /\ UNCHANGED <<pc, active, agenda, functors, batch>> /\ callback' = Quiet
  BY DEF CallNothing, owner, kernel, loopVars, worldVars
<1>2. World' /\ \A c \in Objects : Live(c)' = Live(c)
  BY <1>1, WorldStays DEF ConnectionsInv
<1> QED
  BY <1>1, <1>2, CallKeeps DEF worldVars

LEMMA SendStep ==
  ASSUME ConnectionsInv, UNCHANGED usage, Send
  PROVE  ConnectionsInv'
<1> DEFINE c == callback.of
           ev == object[c].events \cup {"out"}
<1>1. /\ InCallback("send") /\ object[c].state = "connected" /\ UNCHANGED <<socket, excused>>
      /\ \/ UNCHANGED <<object, interest>>
            /\ (functors' = functors
                \/ functors' = Append(functors, [op |-> "complete", of |-> c]))
         \/ SetEvents(c, ev) /\ UNCHANGED functors
  BY DEF Send
<1>2. /\ callback # Quiet /\ callback' = Quiet
      /\ UNCHANGED <<connections, pool, file, pc, active, agenda, batch>>
  BY <1>1 DEF InCallback, owner
<1>3. c \in Objects /\ Live(c)
  BY <1>1, <1>2, InCallbackOf DEF Live
<1>4. CASE /\ UNCHANGED <<object, interest>>
           /\ (functors' = functors \/ functors' = Append(functors, [op |-> "complete", of |-> c]))
  <2>1. World' /\ \A d \in Objects : Live(d)' = Live(d)
    BY <1>1, <1>2, <1>4, WorldStays DEF ConnectionsInv, worldVars
  <2>2. [op |-> "complete", of |-> c] \in Functors
    BY <1>3 DEF Functors
  <2> QED
    BY <1>2, <1>4, <2>1, <2>2, CallKeeps
<1>5. CASE SetEvents(c, ev) /\ UNCHANGED functors
  <2>1. /\ ev \subseteq Events /\ "out" \in ev
        /\ "in" \in ev <=> "in" \in object[c].events
    BY <1>3, LiveConnection DEF ConnectionsInv, Events
  <2>2. SocketsKeep
    BY <1>1, <1>3, LiveConnection DEF ConnectionsInv, SocketsKeep
  <2> HIDE DEF ev, c
  <2>3. World' /\ \A d \in Objects : Live(d)' = Live(d)
    BY <1>2, <1>3, <1>5, <2>1, <2>2, OutputSet DEF ConnectionsInv
  <2> QED
    BY <1>2, <1>5, <2>3, CallKeeps
<1> QED
  BY <1>1, <1>4, <1>5

\* A live connection becomes disconnecting, and is shut down, has output that
\* will be, or is excused.
LEMMA Disconnecting ==
  ASSUME World, SocketsKeep, UNCHANGED <<usage, connections, pool, interest, file>>,
         NEW c \in Objects, Live(c), object' = [object EXCEPT ![c].state = "disconnecting"],
         \/ "out" \in object[c].events
         \/ socket'[object[c].is].shut \/ object[c].is \in excused'
  PROVE  World' /\ \A d \in Objects : Live(d)' = Live(d)
<1> DEFINE rec == [object[c] EXCEPT !.state = "disconnecting"]
<1>1. object[c] \in ObjectStates /\ ReadsAs(usage, object[c])
  BY LiveConnection
<1>2. /\ rec \in ObjectStates /\ rec.state = "disconnecting" /\ rec.fd = object[c].fd
      /\ rec.is = object[c].is /\ rec.status = object[c].status
      /\ rec.events = object[c].events /\ rec.reading = object[c].reading
  BY <1>1 DEF ObjectStates, States
<1>3. object' = [object EXCEPT ![c] = rec]
  OBVIOUS
<1> HIDE DEF rec
<1>4. interest' = [interest EXCEPT ![rec.fd] = WatchOf(c, rec.events)]
  <2>1. interest[rec.fd] = WatchOf(c, rec.events)
    BY <1>2 DEF World, Watching
  <2>2. interest \in [Fds -> [of : Objects \cup {NoObject}, events : SUBSET Events]]
    BY DEF World, WorldTypes
  <2> QED
    BY <2>1, <2>2
<1>5. ReadsAs(usage, rec)
  BY <1>1, <1>2 DEF ReadsAs
<1> QED
  BY <1>1, <1>2, <1>3, <1>4, <1>5, RecordChanges

LEMMA ShutdownStep ==
  ASSUME ConnectionsInv, UNCHANGED usage, Shutdown
  PROVE  ConnectionsInv'
<1> DEFINE c == callback.of
           s == object[c].is
<1>1. /\ InCallback("shutdown") /\ object[c].state = "connected"
      /\ object' = [object EXCEPT ![c].state = "disconnecting"]
      /\ ShutdownInLoop(c, object[c].events)
      /\ UNCHANGED <<interest, functors, excused>>
  BY DEF Shutdown
<1>2. /\ callback # Quiet /\ callback' = Quiet
      /\ UNCHANGED <<connections, pool, file, pc, active, agenda, batch>>
  BY <1>1 DEF InCallback, owner
<1>3. c \in Objects /\ Live(c)
  BY <1>1, <1>2, InCallbackOf DEF Live
<1>4. s \in Sockets /\ SocketOf(c) = s /\ s # NoSocket /\ socket \in [Sockets -> KernelSockets]
  BY <1>3, LiveConnection DEF ConnectionsInv
<1>5. \/ "out" \in object[c].events /\ socket' = socket
      \/ socket' = [socket EXCEPT ![s].shut = TRUE]
  BY <1>1, <1>4 DEF ShutdownInLoop
<1> HIDE DEF s
<1>6. SocketsKeep /\ ("out" \in object[c].events \/ socket'[s].shut)
  <2>1. CASE "out" \in object[c].events /\ socket' = socket
    BY <1>1, <1>4, <2>1 DEF SocketsKeep
  <2>2. CASE socket' = [socket EXCEPT ![s].shut = TRUE]
    BY <1>1, <1>4, <2>2, ShutKeeps
  <2> QED
    BY <1>5, <2>1, <2>2
<1>7. World' /\ \A d \in Objects : Live(d)' = Live(d)
  BY <1>1, <1>2, <1>3, <1>6, Disconnecting DEF ConnectionsInv, s
<1> QED
  BY <1>1, <1>2, <1>7, CallKeeps

LEMMA ForceStep ==
  ASSUME ConnectionsInv, UNCHANGED usage, ForceClose
  PROVE  ConnectionsInv'
<1> DEFINE c == callback.of
<1>1. /\ InCallback("forceClose") /\ object[c].state \in {"connected", "disconnecting"}
      /\ object' = [object EXCEPT ![c].state = "disconnecting"]
      /\ functors' = Append(functors, [op |-> "forceClose", of |-> c])
      /\ excused' = excused \cup {object[c].is}
      /\ UNCHANGED <<interest, socket>>
  BY DEF ForceClose
<1>2. /\ callback # Quiet /\ callback' = Quiet
      /\ UNCHANGED <<connections, pool, file, pc, active, agenda, batch>>
  BY <1>1 DEF InCallback, owner
<1>3. c \in Objects /\ Live(c)
  BY <1>1, <1>2, InCallbackOf DEF Live
<1>4. SocketsKeep
  BY <1>1, <1>3, LiveConnection DEF ConnectionsInv, SocketsKeep
<1>5. World' /\ \A d \in Objects : Live(d)' = Live(d)
  BY <1>1, <1>2, <1>3, <1>4, Disconnecting DEF ConnectionsInv
<1>6. [op |-> "forceClose", of |-> c] \in Functors
  BY <1>3 DEF Functors
<1> QED
  BY <1>1, <1>2, <1>5, <1>6, CallKeeps

LEMMA ReadingStep ==
  ASSUME ConnectionsInv, UNCHANGED usage, ~NeverStops(usage), Live(callback.of),
         StopRead \/ StartRead
  PROVE  ConnectionsInv'
<1> DEFINE c == callback.of
           Old(ev, r) == [object[c] EXCEPT !.events = ev, !.reading = r]
<1>1. /\ callback # Quiet /\ callback' = Quiet
      /\ UNCHANGED <<connections, pool, file, pc, active, agenda, batch, socket, functors, excused>>
  BY DEF StopRead, StartRead, InCallback, owner
<1>2. c \in Objects
  BY <1>1, InCallbackOf
<1>3. /\ object[c] \in ObjectStates /\ ReadsAs(usage, object[c])
      /\ object[c].events \subseteq Events /\ SocketOf(c) = object[c].is
      /\ socket \in [Sockets -> KernelSockets]
  BY <1>2, LiveConnection DEF ConnectionsInv
<1>4. PICK ev \in SUBSET Events, r \in BOOLEAN :
        /\ Update(c, Old(ev, r)) /\ (r <=> "in" \in ev)
        /\ "out" \in ev <=> "out" \in object[c].events
        /\ ev = {} => object[c].events # {}
  <2>1. CASE StopRead
    <3>1. Update(c, Old(object[c].events \ {"in"}, FALSE)) /\ "in" \in object[c].events
      BY <1>3, <2>1 DEF StopRead, ReadsAs
    <3> HIDE DEF c, Old
    <3> QED
      BY <1>3, <3>1
  <2>2. CASE StartRead
    <3>1. Update(c, Old(object[c].events \cup {"in"}, TRUE))
      BY <2>2 DEF StartRead
    <3> HIDE DEF c, Old
    <3> QED
      BY <1>3, <3>1 DEF Events
  <2> QED
    BY <2>1, <2>2
<1> DEFINE old == Old(ev, r)
<1>5. /\ old \in ObjectStates /\ old.events = ev /\ old.state = object[c].state
      /\ old.fd = object[c].fd /\ old.is = object[c].is /\ old.status = object[c].status
      /\ old.reading = r
  BY <1>3 DEF ObjectStates
<1>6. Update(c, old)
  BY <1>4
<1> HIDE DEF old
<1>7. SocketsKeep
  BY <1>1, <1>3 DEF SocketsKeep
<1>8. object[c].state = "disconnecting" /\ "out" \notin old.events
        => socket'[object[c].is].shut \/ object[c].is \in excused'
  BY <1>1, <1>2, <1>4, <1>5 DEF ConnectionsInv, World, ShutdownReachesKernel
<1>9. World' /\ \A d \in Objects : Live(d)' = Live(d)
  BY <1>1, <1>2, <1>4, <1>5, <1>6, <1>7, <1>8, EventsSet DEF ConnectionsInv
<1> QED
  BY <1>1, <1>9, CallKeeps

(***************************************************************************)
(* What stays of a connection that is settled.                             *)
(***************************************************************************)
SameRecords ==
  \A d \in Objects : object'[d].state = object[d].state /\ object'[d].is = object[d].is

LEMMA UpdateKeeps ==
  ASSUME ConnectionsInv, NEW c \in Objects, NEW rec \in ObjectStates, Update(c, rec),
         rec.state = object[c].state, rec.is = object[c].is
  PROVE  SameRecords
<1> DEFINE new == [rec EXCEPT !.status = IF rec.status = "added" /\ rec.events = {}
                                         THEN "deleted" ELSE "added"]
<1>1. new.state = rec.state /\ new.is = rec.is
  BY DEF ObjectStates
<1>2. object' = [object EXCEPT ![c] = new] /\ object \in [Objects -> ObjectStates]
  BY DEF Update, ConnectionsInv, World, WorldTypes
<1> HIDE DEF new
<1> QED
  BY <1>1, <1>2 DEF SameRecords

LEMMA RecordsStay ==
  ASSUME ConnectionsInv, WriteHandler \/ Send \/ StopRead \/ StartRead
  PROVE  SameRecords
<1>1. object \in [Objects -> ObjectStates]
  BY DEF ConnectionsInv, World, WorldTypes
<1>2. ASSUME NEW c \in Objects, NEW ev \in SUBSET Events, SetEvents(c, ev)
      PROVE  SameRecords
  <2> DEFINE rec == [object[c] EXCEPT !.events = ev]
  <2>1. object[c] \in ObjectStates
    BY <1>1
  <2>2. rec \in ObjectStates /\ rec.state = object[c].state /\ rec.is = object[c].is
    BY <2>1 DEF ObjectStates
  <2>3. Update(c, rec)
    BY <1>2 DEF SetEvents
  <2> HIDE DEF rec
  <2> QED
    BY <2>2, <2>3, UpdateKeeps
<1>3. ASSUME NEW c \in Objects
      PROVE  object[c].events \subseteq Events
  BY <1>1 DEF ObjectStates
<1>4. CASE WriteHandler
  <2>1. agenda.of \in Objects
    BY <1>4 DEF WriteHandler, Handle, InHand, ConnectionsInv, LoopTypes, Idle
  <2>2. object[agenda.of].events \ {"out"} \in SUBSET Events
    BY <1>3, <2>1
  <2> QED
    BY <1>2, <1>4, <2>1, <2>2 DEF WriteHandler, Drained, SameRecords
<1>5. CASE Send
  <2>1. callback.of \in Objects
    BY <1>5, InCallbackOf DEF Send, InCallback
  <2>2. object[callback.of].events \cup {"out"} \in SUBSET Events
    BY <1>3, <2>1 DEF Events
  <2> QED
    BY <1>2, <1>5, <2>1, <2>2 DEF Send, SameRecords
<1>6. CASE StopRead \/ StartRead
  <2> DEFINE c == callback.of
             Old(ev, r) == [object[c] EXCEPT !.events = ev, !.reading = r]
  <2>1. c \in Objects
    BY <1>6, InCallbackOf DEF StopRead, StartRead, InCallback
  <2>2. object[c].events \ {"in"} \in SUBSET Events /\ object[c].events \cup {"in"} \in SUBSET Events
    BY <1>3, <2>1 DEF Events
  <2>3. PICK ev \in SUBSET Events, r \in BOOLEAN : Update(c, Old(ev, r))
    BY <1>6, <2>2 DEF StopRead, StartRead
  <2>4. object[c] \in ObjectStates
    BY <1>1, <2>1
  <2>5. Old(ev, r) \in ObjectStates /\ Old(ev, r).state = object[c].state
        /\ Old(ev, r).is = object[c].is
    BY <2>4 DEF ObjectStates
  <2> HIDE DEF c, Old
  <2> QED
    BY <2>1, <2>3, <2>5, UpdateKeeps
<1> QED
  BY <1>4, <1>5, <1>6

LEMMA SettledStays ==
  ASSUME NEW c \in Objects, Settled(c),
         object'[c].state = object[c].state \/ object'[c].state = "disconnecting",
         c \notin DOMAIN active',
         agenda'.of = c => agenda'.handlers \cap {"close", "read"} = {}
  PROVE  Settled(c)'
BY DEF Settled, Live

LEMMA AgendaRest ==
  ASSUME ConnectionsInv, NEW h \in Handlers, Handle(h)
  PROVE  /\ agenda.of \in Objects /\ h \in agenda.handlers /\ agenda.of \notin DOMAIN active
         /\ active' = active /\ batch' = batch /\ pc = "handle" /\ callback = Quiet
         /\ agenda'.handlers = agenda.handlers \ {h}
         /\ agenda'.handlers # {} => agenda'.of = agenda.of
<1>1. /\ agenda' = IF agenda.handlers = {h} THEN Idle ELSE [agenda EXCEPT !.handlers = @ \ {h}]
      /\ active' = active /\ batch' = batch /\ pc = "handle" /\ callback = Quiet
      /\ h \in agenda.handlers
  BY DEF Handle, InHand
<1>2. agenda \in [of : Objects, handlers : SUBSET Handlers]
  BY <1>1 DEF ConnectionsInv, LoopTypes, Idle
<1>3. agenda'.handlers = agenda.handlers \ {h} /\ (agenda'.handlers # {} => agenda'.of = agenda.of)
  <2>1. CASE agenda.handlers = {h}
    BY <1>1, <2>1 DEF Idle
  <2>2. CASE agenda.handlers # {h}
    BY <1>1, <1>2, <2>2
  <2> QED
    BY <2>1, <2>2
<1> QED
  BY <1>1, <1>2, <1>3 DEF ConnectionsInv, Handling

\* A close and a new connection leave the others as they are.
LEMMA OthersKeep ==
  ASSUME ConnectionsInv, NEW c \in Objects, NEW f, (HandleClose(c) /\ Live(c)) \/ Establish(c, f),
         NEW d \in Objects, d # c
  PROVE  object'[d] = object[d]
<1>1. object \in [Objects -> ObjectStates]
  BY DEF ConnectionsInv, World, WorldTypes
<1> QED
  BY <1>1 DEF HandleClose, Live, Establish, Update

\* Only epoll_wait and the functor of forceClose() end it.
LEMMA SettledKept ==
  ASSUME ConnectionsInv, Next, ~Poll, ~ForceCloseInLoop
  PROVE  \A d \in Objects : Settled(d) => Settled(d)' /\ object'[d].is = object[d].is
<1> SUFFICES ASSUME NEW d \in Objects, Settled(d)
             PROVE  Settled(d)' /\ object'[d].is = object[d].is
  OBVIOUS
<1>1. /\ Live(d) /\ d \notin DOMAIN active
      /\ agenda.of = d => agenda.handlers \cap {"close", "read"} = {}
  BY DEF Settled
<1>2. ASSUME SameRecords, UNCHANGED <<active, agenda>>
      PROVE  Settled(d)' /\ object'[d].is = object[d].is
  BY <1>1, <1>2, SettledStays DEF SameRecords
<1>3. ASSUME NEW h \in Handlers, Handle(h), SameRecords
      PROVE  Settled(d)' /\ object'[d].is = object[d].is
  <2>1. d \notin DOMAIN active' /\ (agenda'.of = d => agenda'.handlers \cap {"close", "read"} = {})
    BY <1>1, <1>3, AgendaRest
  <2> QED
    BY <1>3, <2>1, SettledStays DEF SameRecords
<1>4. ASSUME NEW c \in Objects, HandleEvent(c)
      PROVE  Settled(d)' /\ object'[d].is = object[d].is
  <2>1. /\ object' = object /\ c \in DOMAIN active /\ agenda'.of = c
        /\ DOMAIN active' \subseteq DOMAIN active
    BY <1>4 DEF HandleEvent
  <2> QED
    BY <1>1, <2>1, SettledStays
<1>5. CASE ReadHandler
  <2>1. Handle("read") /\ "read" \in Handlers
    BY <1>5 DEF ReadHandler, Handlers
  <2>2. CASE UNCHANGED object
    BY <1>3, <2>1, <2>2 DEF SameRecords
  <2>3. CASE HandleClose(agenda.of)
    <3>1. agenda.of \in Objects /\ "read" \in agenda.handlers /\ Live(agenda.of)
      BY <2>1, AgendaRest DEF ConnectionsInv, Handling
    <3>2. d # agenda.of
      BY <1>1, <3>1
    <3>3. object'[d] = object[d]
      BY <2>3, <3>1, <3>2, OthersKeep
    <3>4. d \notin DOMAIN active' /\ (agenda'.of = d => agenda'.handlers \cap {"close", "read"} = {})
      BY <1>1, <2>1, AgendaRest
    <3> QED
      BY <3>3, <3>4, SettledStays
  <2> QED
    BY <1>5, <2>2, <2>3 DEF ReadHandler
<1>6. CASE CreateConnection
  <2>1. ASSUME NEW c \in Objects, ~Live(c), Establish(c, Head(batch).fd)
        PROVE  object'[d] = object[d]
    BY <1>1, <2>1, OthersKeep
  <2>2. Run("create") /\ batch # <<>>
    BY <1>6 DEF CreateConnection, Run
  <2>3. UNCHANGED <<active, agenda>>
    BY <2>2 DEF Run
  <2>4. object'[d] = object[d]
    <3>1. CASE pool = <<>>
      BY <1>6, <2>1, <3>1 DEF CreateConnection, Live
    <3>2. CASE pool # <<>>
      <4>1. /\ pool \in Seq(Objects \cup {NoObject})
            /\ \A i, j \in DOMAIN pool : pool[i] = pool[j] => i = j
            /\ \A i \in DOMAIN pool : pool[i] # NoObject
            /\ \A c \in Objects : (\E i \in DOMAIN pool : pool[i] = c) => ~Live(c)
        BY DEF ConnectionsInv, World, WorldTypes, Homes, Live
      <4>2. Last(pool) \in Objects \cup {NoObject} /\ \E i \in DOMAIN pool : pool[i] = Last(pool)
        BY <3>2, <4>1, PoolPops
      <4>3. Last(pool) # NoObject /\ Last(pool) \in Objects /\ ~Live(Last(pool))
        BY <4>1, <4>2
      <4>4. Establish(Last(pool), Head(batch).fd)
        BY <1>6, <3>2, <4>3 DEF CreateConnection
      <4> QED
        BY <2>1, <4>3, <4>4
    <3> QED
      BY <3>1, <3>2
  <2> QED
    BY <1>1, <2>3, <2>4, SettledStays
<1>7. CASE Shutdown \/ ForceClose
  <2>1. /\ object' = [object EXCEPT ![callback.of].state = "disconnecting"]
        /\ UNCHANGED <<active, agenda>> /\ callback.of \in Objects
    BY <1>7, InCallbackOf DEF Shutdown, ForceClose, InCallback
  <2>2. object \in [Objects -> ObjectStates]
    BY DEF ConnectionsInv, World, WorldTypes
  <2>3. object'[d].state \in {object[d].state, "disconnecting"} /\ object'[d].is = object[d].is
    BY <2>1, <2>2 DEF ObjectStates
  <2> QED
    BY <1>1, <2>1, <2>3, SettledStays
<1>8. CASE ErrorHandler \/ WriteHandler
  <2>1. SameRecords /\ (Handle("error") \/ Handle("write")) /\ {"error", "write"} \subseteq Handlers
    BY <1>8, RecordsStay DEF ErrorHandler, WriteHandler, SameRecords, Handlers
  <2> QED
    BY <1>3, <2>1
<1>9. CASE Send \/ StopRead \/ StartRead
  <2>1. SameRecords /\ UNCHANGED <<active, agenda>>
    BY <1>9, RecordsStay DEF Send, StopRead, StartRead, InCallback
  <2> QED
    BY <1>2, <2>1
<1>10. CASE RunFunctors \/ EndFunctors \/ WriteComplete \/ CallNothing
  <2>1. UNCHANGED <<object, active, agenda>>
    BY <1>10 DEF RunFunctors, EndFunctors, WriteComplete, CallNothing, Run, loopVars
  <2> QED
    BY <1>2, <2>1 DEF SameRecords
<1>11. CASE \E s \in Sockets : (\E f \in Fds : Accept(s, f)) \/ PeerSend(s) \/ PeerEnd(s)
  <2>1. UNCHANGED <<object, active, agenda>>
    BY <1>11 DEF Accept, PeerSend, PeerEnd, loopVars
  <2> QED
    BY <1>2, <2>1 DEF SameRecords
<1> QED
  BY <1>4, <1>5, <1>6, <1>7, <1>8, <1>9, <1>10, <1>11, CloseHandlerStep DEF Next, Loop

\* Settled(d)', of an expression that may itself be of the next state.
Stays(d) ==
  /\ object'[d].state \in {"connected", "disconnecting"} /\ d \notin DOMAIN active'
  /\ agenda'.of = d => agenda'.handlers \cap {"close", "read"} = {}

LEMMA QuietAtPoll ==
  ASSUME ConnectionsInv, InCall, pc = "poll"
  PROVE  callback = Quiet
BY DEF ConnectionsInv, LoopTypes, InCall, Callbacks

LEMMA InCallStep ==
  ASSUME ConnectionsInv, Settling, UNCHANGED usage, Next
  PROVE  InCall'
<1>1. CASE callback' = Quiet
  BY <1>1 DEF InCall, Quiet
<1>2. CASE UNCHANGED <<object, active, agenda, pc, callback>>
  BY <1>2 DEF Settling, InCall, Settled, Live
<1>3. ASSUME Stays(callback'.of),
             callback'.at = "message" => pc' = "handle",
             callback'.at \in {"connection", "writeComplete"} => pc' = "run"
      PROVE  InCall'
  BY <1>3 DEF InCall, Settled, Live, Stays
<1>4. CASE ReadHandler
  <2>1. Handle("read") /\ "read" \in Handlers
    BY <1>4 DEF ReadHandler, Handlers
  <2>2. /\ callback = Quiet /\ pc = "handle" /\ agenda.of \in Objects
        /\ agenda.of \notin DOMAIN active /\ active' = active
        /\ "read" \in agenda.handlers /\ agenda'.handlers = agenda.handlers \ {"read"}
    BY <2>1, AgendaRest
  <2>3. CASE callback' = callback
    BY <1>1, <2>2, <2>3
  <2>4. CASE callback' = [at |-> "message", of |-> agenda.of] /\ UNCHANGED <<object, pc>>
    <3>1. Live(agenda.of) /\ "close" \notin agenda.handlers
      BY <2>2 DEF ConnectionsInv, Handling
    <3>2. Stays(agenda.of)
      BY <2>2, <2>4, <3>1 DEF Stays, Live
    <3> QED
      BY <1>3, <2>2, <2>4, <3>2
  <2> QED
    BY <1>4, <2>3, <2>4 DEF ReadHandler
<1>5. CASE CreateConnection
  <2>1. /\ pc = "run" /\ active = <<>> /\ agenda = Idle /\ UNCHANGED <<active, agenda>>
        /\ callback = Quiet
    BY <1>5 DEF CreateConnection, Run, ConnectionsInv, LoopTypes
  <2>2. ASSUME NEW c \in Objects, Establish(c, Head(batch).fd), UNCHANGED pc
        PROVE  InCall'
    <3>1. Renewed(c, Head(batch).fd).state = "connected"
      BY DEF Renewed
    <3>2. /\ object' = [object EXCEPT ![c] = [Renewed(c, Head(batch).fd) EXCEPT !.status = "added"]]
          /\ callback' = [at |-> "connection", of |-> c]
      BY <2>2 DEF Establish, Update, Renewed
    <3>3. object'[c].state = "connected"
      BY <3>1, <3>2 DEF ConnectionsInv, World, WorldTypes, Renewed
    <3>4. Stays(c)
      BY <2>1, <3>3 DEF Stays, Idle
    <3> QED
      BY <1>3, <2>1, <2>2, <3>2, <3>4
  <2>3. pool # <<>> => Last(pool) \in Objects \cup {NoObject}
    BY PoolPops DEF ConnectionsInv, World, WorldTypes, Homes
  <2>4. CASE callback' = callback
    BY <1>1, <2>1, <2>4
  <2> QED
    BY <1>5, <2>2, <2>3, <2>4 DEF CreateConnection
<1>6. CASE WriteComplete
  <2>1. /\ pc = "run" /\ batch # <<>> /\ Head(batch).op = "complete"
        /\ UNCHANGED <<object, active, agenda, pc>>
        /\ callback' = [at |-> "writeComplete", of |-> Head(batch).of]
    BY <1>6 DEF WriteComplete, Run
  <2>2. CASE NeverStops(usage)
    BY <2>1, <2>2 DEF InCall
  <2>3. CASE ~NeverStops(usage)
    <3>1. Head(batch) = batch[1] /\ 1 \in DOMAIN batch
      BY <2>1, TailSeq DEF ConnectionsInv, LoopTypes
    <3>2. Settled(Head(batch).of)
      BY <2>1, <2>3, <3>1 DEF Settling, Promised, Finds
    <3> QED
      BY <1>3, <2>1, <3>2 DEF Settled, Live, Stays
  <2> QED
    BY <2>2, <2>3
<1>7. CASE Poll
  BY <1>1, <1>7, QuietAtPoll DEF Poll, Settling
<1>8. CASE \/ \E c \in Objects : HandleEvent(c)
           \/ ErrorHandler \/ WriteHandler \/ RunFunctors \/ EndFunctors \/ ForceCloseInLoop
  BY <1>1, <1>8
  DEF HandleEvent, ErrorHandler, WriteHandler, Handle, RunFunctors, EndFunctors,
      ForceCloseInLoop, Run
<1>9. CASE CallNothing \/ Send \/ Shutdown \/ ForceClose \/ StopRead \/ StartRead
  BY <1>1, <1>9 DEF CallNothing, Send, Shutdown, ForceClose, StopRead, StartRead, InCallback
<1>10. CASE \E s \in Sockets : (\E f \in Fds : Accept(s, f)) \/ PeerSend(s) \/ PeerEnd(s)
  BY <1>2, <1>10 DEF Accept, PeerSend, PeerEnd, loopVars
<1> QED
  BY <1>4, <1>5, <1>6, <1>7, <1>8, <1>9, <1>10, CloseHandlerStep DEF Next, Loop

\* Where callbacks stop reading, no action marks a socket.
LEMMA CalmStep ==
  ASSUME WellUsed, ConnectionsInv, Settling, UNCHANGED usage, Next
  PROVE  Calm'
<1> SUFFICES ASSUME ~NeverStops(usage)
             PROVE  /\ \A s \in Sockets : ~socket'[s].gone /\ ~socket'[s].err /\ ~socket'[s].shut
                    /\ \A c \in Objects : object'[c].state # "disconnecting"
  BY DEF Calm
<1>1. /\ \A s \in Sockets : ~socket[s].gone /\ ~socket[s].err /\ ~socket[s].shut
      /\ \A c \in Objects : object[c].state # "disconnecting"
  BY DEF Settling, Calm
<1>2. /\ "reset" \notin usage.peers
      /\ callback # Quiet => /\ "shutdown" \notin usage.calls[callback.at]
                             /\ "forceClose" \notin usage.calls[callback.at]
  BY InCallbackOf DEF WellUsed, PausesOnly, ConnectionsInv, LoopTypes
<1>3. /\ socket \in [Sockets -> KernelSockets] /\ object \in [Objects -> ObjectStates]
  BY DEF ConnectionsInv, World, WorldTypes
<1>4. ASSUME SameRecords \/ UNCHANGED object
      PROVE  \A c \in Objects : object'[c].state # "disconnecting"
  BY <1>1, <1>4 DEF SameRecords
<1>5. ASSUME UNCHANGED socket
      PROVE  \A s \in Sockets : ~socket'[s].gone /\ ~socket'[s].err /\ ~socket'[s].shut
  BY <1>1, <1>5
<1>6. ASSUME NEW t \in Sockets, ClearError(t) \/ socket' = [socket EXCEPT ![t].data = FALSE]
                                \/ socket' = [socket EXCEPT ![t] = Closed]
      PROVE  \A s \in Sockets : ~socket'[s].gone /\ ~socket'[s].err /\ ~socket'[s].shut
  <2>1. CASE ClearError(t)
    BY <1>1, <1>3, <2>1, NullAssumption DEF ClearError, KernelSockets
  <2>2. CASE socket' = [socket EXCEPT ![t].data = FALSE]
    BY <1>1, <1>3, <2>2 DEF KernelSockets
  <2>3. CASE socket' = [socket EXCEPT ![t] = Closed]
    BY <1>1, <1>3, <2>3 DEF Closed, NewSocket
  <2> QED
    BY <1>6, <2>1, <2>2, <2>3
<1>7. ASSUME NEW s \in Sockets, (\E f \in Fds : Accept(s, f)) \/ PeerSend(s) \/ PeerEnd(s)
      PROVE  \A t \in Sockets : ~socket'[t].gone /\ ~socket'[t].err /\ ~socket'[t].shut
  <2>1. \/ socket' = [socket EXCEPT ![s].phase = "open"]
        \/ socket' = [socket EXCEPT ![s].data = TRUE]
        \/ socket' = [socket EXCEPT ![s].fin = TRUE]
    BY <1>2, <1>7 DEF Accept, PeerSend, PeerEnd
  <2> QED
    BY <1>1, <1>3, <2>1 DEF KernelSockets
<1>8. CASE \E s \in Sockets : (\E f \in Fds : Accept(s, f)) \/ PeerSend(s) \/ PeerEnd(s)
  <2>1. UNCHANGED object
    BY <1>8 DEF Accept, PeerSend, PeerEnd
  <2> QED
    BY <1>4, <1>7, <1>8, <2>1
<1>9. CASE \/ Poll \/ (\E c \in Objects : HandleEvent(c)) \/ RunFunctors \/ EndFunctors
           \/ WriteComplete \/ CallNothing
  <2>1. UNCHANGED <<object, socket>>
    BY <1>9 DEF Poll, HandleEvent, RunFunctors, EndFunctors, WriteComplete, CallNothing, kernel
  <2> QED
    BY <1>4, <1>5, <2>1
<1>10. CASE ErrorHandler \/ ReadHandler
  <2> DEFINE c == agenda.of
             t == SocketOf(c)
  <2>1. Handle("error") \/ Handle("read")
    BY <1>10 DEF ErrorHandler, ReadHandler
  <2>2. c \in Objects /\ Live(c)
    BY <2>1, AgendaRest DEF ConnectionsInv, Handling, Handlers
  <2>3. t \in Sockets /\ t # NoSocket /\ t = file[object[c].fd]
    BY <2>2, LiveConnection DEF ConnectionsInv, SocketOf
  <2>4. CASE HandleClose(c)
    <3>1. /\ socket' = [socket EXCEPT ![t] = Closed]
          /\ object' = [object EXCEPT ![c].state = "disconnected", ![c].events = {},
                                      ![c].status = "new"]
      BY <2>2, <2>3, <2>4 DEF HandleClose, Live
    <3>2. \A d \in Objects : object'[d].state \in {object[d].state, "disconnected"}
      BY <1>3, <2>2, <3>1 DEF ObjectStates
    <3>3. \A d \in Objects : object'[d].state # "disconnecting"
      BY <1>1, <3>2
    <3> HIDE DEF t
    <3> QED
      BY <1>6, <2>3, <3>1, <3>3
  <2>5. CASE /\ ClearError(t) \/ socket' = [socket EXCEPT ![t].data = FALSE]
             /\ UNCHANGED object
    <3> HIDE DEF t
    <3> QED
      BY <1>4, <1>6, <2>3, <2>5
  <2> QED
    BY <1>10, <2>4, <2>5 DEF ErrorHandler, ReadHandler
<1>11. CASE WriteHandler
  <2>1. agenda.of \in Objects
    BY <1>11 DEF WriteHandler, Handle, InHand, ConnectionsInv, LoopTypes, Idle
  <2>2. UNCHANGED socket
    BY <1>1, <1>11, <2>1 DEF WriteHandler, FinishShutdown
  <2> QED
    BY <1>4, <1>5, <1>11, <2>2, RecordsStay
<1>12. CASE CreateConnection
  <2>1. socket' = socket
    BY <1>12 DEF CreateConnection, Establish, kernel
  <2>2. ASSUME NEW c \in Objects, Establish(c, Head(batch).fd)
        PROVE  \A d \in Objects : object'[d].state # "disconnecting"
    <3>1. object' = [object EXCEPT ![c] = [Renewed(c, Head(batch).fd) EXCEPT !.status = "added"]]
      BY <2>2 DEF Establish, Update, Renewed
    <3>2. object'[c].state = "connected" /\ \A d \in Objects : d # c => object'[d] = object[d]
      BY <1>3, <3>1 DEF Renewed
    <3> QED
      BY <1>1, <3>2
  <2>3. pool # <<>> => Last(pool) \in Objects \cup {NoObject}
    BY PoolPops DEF ConnectionsInv, World, WorldTypes, Homes
  <2> QED
    BY <1>4, <1>5, <1>12, <2>1, <2>2, <2>3 DEF CreateConnection
<1>13. CASE ForceCloseInLoop
  <2>1. batch # <<>> /\ Head(batch).op = "forceClose" /\ batch \in Seq(Functors)
    BY <1>13 DEF ForceCloseInLoop, Run, ConnectionsInv, LoopTypes
  <2>2. Head(batch) = batch[1] /\ 1 \in DOMAIN batch
    BY <2>1, TailSeq
  <2> QED
    BY <2>1, <2>2 DEF Settling, Promised, Finds
<1>14. CASE Send \/ StopRead \/ StartRead
  BY <1>4, <1>5, <1>14, RecordsStay DEF Send, StopRead, StartRead
<1>15. CASE Shutdown \/ ForceClose
  BY <1>2, <1>15 DEF Shutdown, ForceClose, InCallback
<1> QED
  BY <1>8, <1>9, <1>10, <1>11, <1>12, <1>13, <1>14, <1>15, CloseHandlerStep DEF Next, Loop

LEMMA NoAbort ==
  ASSUME ConnectionsInv, ReadHandler \/ CreateConnection
  PROVE  UNCHANGED pc
<1>1. CASE ReadHandler
  <2>1. Handle("read") /\ "read" \in Handlers
    BY <1>1 DEF ReadHandler, Handlers
  <2>2. Live(agenda.of)
    BY <2>1, AgendaRest DEF ConnectionsInv, Handling
  <2> QED
    BY <1>1, <2>2 DEF ReadHandler, HandleClose, Live
<1>2. CASE CreateConnection
  <2>1. pool # <<>> => \E i \in DOMAIN pool : pool[i] = Last(pool)
    BY PoolPops DEF ConnectionsInv, World, WorldTypes, Homes
  <2>2. pool # <<>> => Last(pool) # NoObject
    BY <2>1 DEF ConnectionsInv, World, Homes
  <2> QED
    BY <1>2, <2>2 DEF CreateConnection
<1> QED
  BY <1>1, <1>2

\* What a functor says of its connection when it is queued is so when it runs.
LEMMA PromisedStep ==
  ASSUME WellUsed, ConnectionsInv, Settling, UNCHANGED usage, Next
  PROVE  Promised'
<1> SUFFICES ASSUME ~NeverStops(usage)
             PROVE  Promised'
  BY DEF Promised
<1> DEFINE Good(x) == x.op # "forceClose" /\ (x.op = "complete" => Settled(x.of))
<1>1. /\ functors \in Seq(Functors) /\ batch \in Seq(Functors)
      /\ \A i \in DOMAIN functors : functors[i].op = "complete" => functors[i].of \in Objects
      /\ \A i \in DOMAIN batch : batch[i].op = "complete" => batch[i].of \in Objects
  BY DEF ConnectionsInv, LoopTypes, Functors
<1>2. /\ \A i \in DOMAIN functors :
           Good(functors[i]) /\ (functors[i].op = "complete" => pc = "handle")
      /\ \A i \in DOMAIN batch : Good(batch[i])
  BY DEF Settling, Promised, Finds
<1>3. ASSUME \A i \in DOMAIN functors' :
               /\ functors'[i].op # "forceClose"
               /\ functors'[i].op = "complete" => pc' = "handle" /\ Stays(functors'[i].of),
             \A i \in DOMAIN batch' :
               /\ batch'[i].op # "forceClose"
               /\ batch'[i].op = "complete" => Stays(batch'[i].of)
      PROVE  Promised'
  BY <1>3 DEF Promised, Finds, Settled, Live, Stays
<1>4. CASE Poll
  <2>1. pc = "poll" /\ UNCHANGED <<functors, batch>>
    BY <1>4 DEF Poll
  <2>2. batch = <<>>
    BY <2>1 DEF ConnectionsInv, LoopTypes
  <2> QED
    BY <1>2, <1>3, <2>1, <2>2
<1>5. CASE ForceCloseInLoop
  <2>1. batch # <<>> /\ Head(batch).op = "forceClose"
    BY <1>5 DEF ForceCloseInLoop, Run
  <2>2. Head(batch) = batch[1] /\ 1 \in DOMAIN batch
    BY <1>1, <2>1, TailSeq
  <2> QED
    BY <1>2, <2>1, <2>2
<1>6. ASSUME ~Poll, ~ForceCloseInLoop
      PROVE  Promised'
  <2>1. \A d \in Objects : Settled(d) => Stays(d)
    BY <1>6, SettledKept DEF Settled, Live, Stays
  <2>2. ASSUME UNCHANGED pc,
               functors' = functors
                 \/ \E x \in Functors : /\ functors' = Append(functors, x)
                                        /\ Good(x) /\ (x.op = "complete" => pc = "handle"),
               batch' = batch \/ (batch # <<>> /\ batch' = Tail(batch))
        PROVE  Promised'
    <3>1. \A i \in DOMAIN functors' :
            /\ functors'[i].op # "forceClose"
            /\ functors'[i].op = "complete"
                 => pc' = "handle" /\ functors'[i].of \in Objects /\ Settled(functors'[i].of)
      <4>1. CASE functors' = functors
        BY <1>1, <1>2, <2>2, <4>1
      <4>2. ASSUME NEW x \in Functors, functors' = Append(functors, x), Good(x),
                   x.op = "complete" => pc = "handle", NEW i \in DOMAIN functors'
            PROVE  /\ functors'[i].op # "forceClose"
                   /\ functors'[i].op = "complete"
                        => pc' = "handle" /\ functors'[i].of \in Objects /\ Settled(functors'[i].of)
        <5>1. functors'[i] = x \/ (i \in DOMAIN functors /\ functors'[i] = functors[i])
          BY <1>1, <4>2, AppendSeq
        <5>2. x.op = "complete" => x.of \in Objects
          BY DEF Functors
        <5> QED
          BY <1>1, <1>2, <2>2, <4>2, <5>1, <5>2
      <4> HIDE DEF Good
      <4> QED
        BY <2>2, <4>1, <4>2
    <3>2. \A i \in DOMAIN batch' :
            /\ batch'[i].op # "forceClose"
            /\ batch'[i].op = "complete" => batch'[i].of \in Objects /\ Settled(batch'[i].of)
      <4>1. CASE batch' = batch
        BY <1>1, <1>2, <4>1
      <4>2. CASE batch # <<>> /\ batch' = Tail(batch)
        <5>1. \A i \in DOMAIN batch' : i + 1 \in DOMAIN batch /\ batch'[i] = batch[i + 1]
          BY <1>1, <4>2, TailSeq
        <5> QED
          BY <1>1, <1>2, <5>1
      <4> QED
        BY <2>2, <4>1, <4>2
    <3> HIDE DEF Good
    <3> QED
      BY <1>3, <2>1, <3>1, <3>2
  <2>3. ASSUME UNCHANGED <<pc, functors>>,
               batch' = batch \/ (batch # <<>> /\ batch' = Tail(batch))
        PROVE  Promised'
    BY <2>2, <2>3
  <2>4. CASE RunFunctors
    <3>1. batch' = functors /\ functors' = <<>>
      BY <2>4 DEF RunFunctors
    <3> QED
      BY <1>1, <1>2, <1>3, <2>1, <3>1
  <2>5. CASE EndFunctors
    <3>1. pc = "run" /\ batch = <<>> /\ UNCHANGED <<functors, batch>>
      BY <2>5 DEF EndFunctors
    <3> QED
      BY <1>2, <1>3, <3>1
  <2>6. CASE (\E c \in Objects : HandleEvent(c)) \/ ErrorHandler \/ WriteComplete \/ CallNothing
    BY <2>3, <2>6 DEF HandleEvent, ErrorHandler, WriteComplete, CallNothing, Handle, Run, loopVars
  <2>7. CASE StopRead \/ StartRead
    BY <2>3, <2>7 DEF StopRead, StartRead, InCallback
  <2>8. CASE ReadHandler
    <3>1. UNCHANGED <<functors, batch>>
      BY <2>8 DEF ReadHandler, Handle
    <3> QED
      BY <2>3, <2>8, <3>1, NoAbort
  <2>9. CASE WriteHandler
    <3> DEFINE c == agenda.of
               x == [op |-> "complete", of |-> c]
    <3>1. /\ Handle("write") /\ UNCHANGED pc
          /\ \/ functors' = functors
             \/ functors' = Append(functors, x) /\ "out" \in object[c].events
      BY <2>9 DEF WriteHandler
    <3>2. "write" \in Handlers
      BY DEF Handlers
    <3>3. /\ c \in Objects /\ c \notin DOMAIN active /\ batch' = batch /\ pc = "handle"
          /\ agenda.handlers \cap {"close", "read"} = {}
      BY <3>1, <3>2, AgendaRest DEF Handle, InHand, Earlier
    <3>4. "out" \in object[c].events => Settled(c)
      BY <3>3 DEF ConnectionsInv, World, Watching, Settled
    <3>5. x \in Functors /\ x.op = "complete" /\ x.of = c
      BY <3>3 DEF Functors
    <3> HIDE DEF x, c
    <3> QED
      BY <2>2, <3>1, <3>3, <3>4, <3>5
  <2>10. CASE Send
    <3> DEFINE c == callback.of
               x == [op |-> "complete", of |-> c]
    <3>1. /\ callback # Quiet /\ "send" \in usage.calls[callback.at] /\ UNCHANGED <<pc, batch>>
          /\ functors' = functors \/ functors' = Append(functors, x)
      BY <2>10 DEF Send, InCallback
    <3>2. callback.at = "message" /\ c \in Objects
      BY <3>1, InCallbackOf DEF WellUsed, PausesOnly, ConnectionsInv, LoopTypes
    <3>3. pc = "handle" /\ Settled(c)
      BY <3>2 DEF Settling, InCall
    <3>4. x \in Functors /\ x.op = "complete" /\ x.of = c
      BY <3>2 DEF Functors
    <3> HIDE DEF x, c
    <3> QED
      BY <2>2, <3>1, <3>3, <3>4
  <2>11. CASE Shutdown \/ ForceClose
    <3>1. callback # Quiet /\ usage.calls[callback.at] \cap {"shutdown", "forceClose"} # {}
      BY <2>11 DEF Shutdown, ForceClose, InCallback
    <3> QED
      BY <3>1, InCallbackOf DEF WellUsed, PausesOnly, ConnectionsInv, LoopTypes
  <2>12. CASE CreateConnection
    <3>1. Run("create") /\ batch # <<>>
      BY <2>12 DEF CreateConnection, Run
    <3> QED
      BY <2>3, <2>12, <3>1, NoAbort DEF Run
  <2>13. ASSUME NEW s \in Sockets, (\E f \in Fds : Accept(s, f)) \/ PeerSend(s) \/ PeerEnd(s)
         PROVE  Promised'
    <3>1. CASE PeerSend(s) \/ PeerEnd(s)
      BY <2>3, <3>1 DEF PeerSend, PeerEnd, loopVars
    <3>2. ASSUME NEW f \in Fds, Accept(s, f)
          PROVE  Promised'
      <4> DEFINE x == [op |-> "create", fd |-> f]
      <4>1. x \in Functors /\ x.op = "create"
        BY DEF Functors
      <4>2. functors' = Append(functors, x) /\ UNCHANGED <<pc, batch>>
        BY <3>2 DEF Accept
      <4> HIDE DEF x
      <4> QED
        BY <2>2, <4>1, <4>2
    <3> QED
      BY <2>13, <3>1, <3>2
  <2> QED
    BY <1>6, <2>4, <2>5, <2>6, <2>7, <2>8, <2>9, <2>10, <2>11, <2>12, <2>13, CloseHandlerStep
    DEF Next, Loop
<1> QED
  BY <1>4, <1>5, <1>6

LEMMA SettlingStays ==
  ASSUME WellUsed, ConnectionsInv, Settling, [Next]_vars
  PROVE  Settling'
<1>1. CASE UNCHANGED vars
  BY <1>1 DEF Settling, Calm, InCall, Promised, Finds, Settled, Live, vars
<1>2. CASE Next
  BY <1>2, CalmStep, InCallStep, PromisedStep DEF Next, Settling
<1> QED
  BY <1>1, <1>2

(***************************************************************************)
(* The invariant holds.                                                    *)
(***************************************************************************)
LEMMA InvInit == Init => ConnectionsInv
<1> SUFFICES ASSUME Init PROVE ConnectionsInv
  OBVIOUS
<1>1. \A c \in Objects : object[c] = Unmade /\ ~Live(c)
  BY DEF Init, Live, Unmade
<1>2. WorldTypes
  <2>1. Unmade \in ObjectStates
    BY DEF Unmade, ObjectStates, States
  <2>2. NewSocket \in KernelSockets
    BY DEF NewSocket, KernelSockets
  <2>3. NoWatch \in [of : Objects \cup {NoObject}, events : SUBSET Events]
    BY DEF NoWatch
  <2> QED
    BY <2>1, <2>2, <2>3 DEF Init, WorldTypes
<1>3. Homes
  <2>1. pool = <<>> /\ \A f \in Fds : connections[f] = NoObject
    BY DEF Init
  <2>2. \A c \in Objects : object[c].state # "disconnected"
    BY <1>1 DEF Unmade
  <2> QED
    BY <1>1, <2>1, <2>2 DEF Homes
<1>4. Files /\ Watching /\ ShutdownReachesKernel
  <2>1. \A f \in Fds : file[f] = NoSocket /\ interest[f] = NoWatch
    BY DEF Init
  <2>2. \A c \in Objects : object[c].events = {} /\ object[c].state = "none"
    BY <1>1 DEF Unmade
  <2> QED
    BY <1>1, <2>1, <2>2 DEF Files, Watching, ShutdownReachesKernel
<1>5. LoopTypes
  BY DEF Init, LoopTypes
<1>6. Queued
  BY DEF Init, Queued
<1>7. Handling
  BY DEF Init, Handling, Idle
<1> QED
  BY <1>2, <1>3, <1>4, <1>5, <1>6, <1>7 DEF ConnectionsInv, World

LEMMA SettlingInit == Init => Settling
<1> SUFFICES ASSUME Init PROVE Settling
  OBVIOUS
<1>1. Calm
  BY DEF Init, Calm, NewSocket, Unmade
<1> QED
  BY <1>1 DEF Init, Settling, InCall, Promised, Quiet

LEMMA InvStep ==
  ASSUME WellUsed, ConnectionsInv, Settling, [Next]_vars
  PROVE  ConnectionsInv'
<1>1. ASSUME UNCHANGED usage, Loop PROVE ConnectionsInv'
  <2>1. CASE Poll
    BY <1>1, <2>1, PollStep DEF Settling
  <2>2. ASSUME NEW c \in Objects, HandleEvent(c) PROVE ConnectionsInv'
    BY <1>1, <2>2, EventStep
  <2>3. CASE CloseHandler
    BY <2>3, CloseHandlerStep
  <2>4. CASE ErrorHandler
    BY <1>1, <2>4, ErrorStep
  <2>5. CASE ReadHandler
    BY <1>1, <2>5, ReadStep
  <2>6. CASE WriteHandler
    BY <1>1, <2>6, WriteStep
  <2>7. CASE RunFunctors \/ EndFunctors
    BY <1>1, <2>7, TurnStep
  <2>8. CASE CreateConnection
    BY <1>1, <2>8, CreateStep
  <2>9. CASE ForceCloseInLoop
    BY <1>1, <2>9, ForceCloseStep
  <2>10. CASE WriteComplete
    BY <1>1, <2>10, CompleteStep
  <2>11. CASE CallNothing
    BY <1>1, <2>11, QuietStep
  <2>12. CASE Send
    BY <1>1, <2>12, SendStep
  <2>13. CASE Shutdown
    BY <1>1, <2>13, ShutdownStep
  <2>14. CASE ForceClose
    BY <1>1, <2>14, ForceStep
  <2>15. CASE StopRead \/ StartRead
    <3>1. /\ callback # Quiet
          /\ "stopRead" \in usage.calls[callback.at] \/ "startRead" \in usage.calls[callback.at]
      BY <2>15 DEF StopRead, StartRead, InCallback
    <3>2. ~NeverStops(usage)
      BY <3>1, InCallbackOf DEF NeverStops
    <3>3. Live(callback.of)
      BY <3>1, <3>2 DEF Settling, InCall, Settled
    <3> QED
      BY <1>1, <2>15, <3>2, <3>3, ReadingStep
  <2> QED
    BY <1>1, <2>1, <2>2, <2>3, <2>4, <2>5, <2>6, <2>7, <2>8, <2>9, <2>10, <2>11, <2>12,
       <2>13, <2>14, <2>15 DEF Loop
<1>2. ASSUME UNCHANGED usage, NEW s \in Sockets, NEW f \in Fds, Accept(s, f) PROVE ConnectionsInv'
  BY <1>2, AcceptStep
<1>3. ASSUME UNCHANGED usage, NEW s \in Sockets, PeerSend(s) \/ PeerEnd(s) PROVE ConnectionsInv'
  BY <1>3, PeerStep
<1>4. CASE UNCHANGED vars
  <2>1. SocketsKeep
    BY <1>4 DEF SocketsKeep, ConnectionsInv, World, WorldTypes, vars
  <2> QED
    BY <1>4, <2>1, FlagsStep DEF vars
<1> QED
  BY <1>1, <1>2, <1>3, <1>4 DEF Next

LEMMA InvHolds ==
  ASSUME WellUsed
  PROVE  Spec => []ConnectionsInv
<1>1. Init => ConnectionsInv /\ Settling
  BY InvInit, SettlingInit
<1>2. ConnectionsInv /\ Settling /\ [Next]_vars => (ConnectionsInv /\ Settling)'
  BY InvStep, SettlingStays
<1> QED
  BY <1>1, <1>2, PTL DEF Spec

(***************************************************************************)
(* What it implies.                                                        *)
(***************************************************************************)
LEMMA InvHomes == ConnectionsInv => OneHome
<1> SUFFICES ASSUME ConnectionsInv PROVE OneHome
  OBVIOUS
<1>1. pc # "aborted"
  BY DEF ConnectionsInv, LoopTypes
<1>2. TypeOK
  <2>1. \A s \in Sockets : socket[s].phase \in {"new", "open", "closed"}
    BY DEF ConnectionsInv, World, WorldTypes, KernelSockets
  <2> QED
    <3>1. object \in [Objects -> [state : States, fd : Fds \cup {NoFd}, is : Sockets \cup {NoSocket},
                                  status : {"new", "added", "deleted"},
                                  events : SUBSET Events, reading : BOOLEAN]]
      BY DEF ConnectionsInv, World, WorldTypes, ObjectStates
    <3>2. /\ connections \in [Fds -> Objects \cup {NoObject}]
          /\ pool \in Seq(Objects \cup {NoObject})
          /\ interest \in [Fds -> [of : Objects \cup {NoObject}, events : SUBSET Events]]
          /\ file \in [Fds -> Sockets \cup {NoSocket}]
      BY DEF ConnectionsInv, World, WorldTypes
    <3>3. /\ pc \in {"poll", "handle", "run", "aborted"}
          /\ pc # "handle" => active = <<>> /\ agenda = Idle
          /\ pc # "run" => batch = <<>>
      BY DEF ConnectionsInv, LoopTypes
    <3> QED
      BY <2>1, <3>1, <3>2, <3>3 DEF TypeOK
<1>3. \A c \in Objects : Live(c) <=> \E f \in Fds : connections[f] = c
  BY NullAssumption DEF ConnectionsInv, World, Homes
<1>4. \A c \in Objects : object[c].state = "disconnected" <=> c \in ToSet(pool)
  BY DEF ConnectionsInv, World, Homes, ToSet
<1>5. \A f \in Fds : connections[f] # NoObject => object[connections[f]].fd = f
  BY DEF ConnectionsInv, World, Homes
<1>6. NoObject \notin ToSet(pool) /\ IsInjective(pool)
  BY DEF ConnectionsInv, World, Homes, ToSet, IsInjective
<1> QED
  BY <1>1, <1>2, <1>3, <1>4, <1>5, <1>6 DEF OneHome

LEMMA InvWatching == ConnectionsInv => EpollAgrees
<1> SUFFICES ASSUME ConnectionsInv PROVE EpollAgrees
  OBVIOUS
<1>1. ASSUME NEW c \in Objects, Live(c)
      PROVE  IF object[c].status = "added"
             THEN interest[object[c].fd] = [of |-> c, events |-> object[c].events]
             ELSE interest[object[c].fd] = NoWatch /\ object[c].events = {}
  BY <1>1, LiveConnection DEF ConnectionsInv, ReadsAs, StatusOf, WatchOf
<1>2. ASSUME NEW f \in Watched
      PROVE  connections[f] = interest[f].of /\ interest[f].of # NoObject
  <2>1. f \in Fds /\ connections[f] # NoObject /\ connections[f] \in Objects
    BY DEF Watched, ConnectionsInv, World, WorldTypes, Watching
  <2>2. Live(connections[f]) /\ object[connections[f]].fd = f
    BY <2>1 DEF ConnectionsInv, World, Homes
  <2>3. interest[f] = WatchOf(connections[f], object[connections[f]].events)
    BY <2>1, <2>2 DEF ConnectionsInv, World, Watching
  <2> QED
    BY <2>1, <2>3 DEF Watched, WatchOf
<1> QED
  BY <1>1, <1>2 DEF EpollAgrees

LEMMA InvSockets == ConnectionsInv => OwnSocket
<1> SUFFICES ASSUME ConnectionsInv PROVE OwnSocket
  OBVIOUS
<1>1. \A c \in Objects : Live(c) => SocketOf(c) = object[c].is
  BY LiveConnection DEF ConnectionsInv
<1>2. InHand("error") \/ InHand("read") => agenda.of \in Objects /\ Live(agenda.of)
  BY DEF InHand, ConnectionsInv, LoopTypes, Handling, Idle
<1> QED
  BY <1>1, <1>2 DEF OwnSocket

LEMMA InvReported == ConnectionsInv => EndedIsReported
<1> SUFFICES ASSUME ConnectionsInv, NEW c \in Objects, Live(c), object[c].reading,
                    socket[object[c].is].fin \/ socket[object[c].is].gone
             PROVE  object[c].fd \in Watched /\ Reported(object[c].fd, {}) # {}
  BY DEF EndedIsReported
<1> DEFINE f == object[c].fd
<1>1. /\ f \in Fds /\ file[f] = object[c].is /\ "in" \in object[c].events
      /\ interest[f] = WatchOf(c, object[c].events)
  BY LiveConnection DEF ConnectionsInv, SocketOf, ReadsAs
<1>2. interest[f] = [of |-> c, events |-> object[c].events]
  BY <1>1 DEF WatchOf
<1>3. f \in Watched
  BY <1>1, <1>2, NullAssumption DEF Watched, NoWatch
<1>4. "in" \in Reported(f, {})
  BY <1>1, <1>2 DEF Reported, Ready
<1> QED
  BY <1>3, <1>4

(***************************************************************************)
(* Who ends a connection, where forceClose() answers messages only: it     *)
(* then is called on a settled connection, whose functor runs before       *)
(* epoll_wait can report, and anybody recycle, it.                         *)
(***************************************************************************)
ForcesOnMessage ==
  \A u \in Usages, at \in Callbacks : "forceClose" \in u.calls[at] => at = "message"

Ended(s) == socket[s].fin \/ socket[s].gone \/ socket[s].phase = "closed"
Excused == \A s \in Sockets : Ended(s) => s \in excused

Forces(x) == x.op = "forceClose"
SameForce(x, y) == Forces(x) /\ Forces(y) /\ x.of = y.of
Forced ==
  /\ \A i \in DOMAIN functors : Forces(functors[i]) =>
       pc = "handle" /\ Settled(functors[i].of) /\ object[functors[i].of].is \in excused
  /\ \A i \in DOMAIN batch : Forces(batch[i]) =>
       Live(batch[i].of) /\ object[batch[i].of].is \in excused
  /\ \A i, j \in DOMAIN functors : SameForce(functors[i], functors[j]) => i = j
  /\ \A i, j \in DOMAIN batch : SameForce(batch[i], batch[j]) => i = j
  /\ callback.at = "message"
       => \A i \in DOMAIN functors : Forces(functors[i]) => functors[i].of # callback.of

Blameless == Excused /\ Forced

LEMMA ForceOf ==
  ASSUME NEW x \in Functors, Forces(x)
  PROVE  x.of \in Objects
BY DEF Functors, Forces

\* Sockets end with an excuse: their peer's, or that of the functor that closes.
LEMMA ExcusedStep ==
  ASSUME ConnectionsInv, Blameless, Next
  PROVE  Excused'
<1>1. socket \in [Sockets -> KernelSockets]
  BY DEF ConnectionsInv, World, WorldTypes
<1>2. ASSUME excused \subseteq excused', \A s \in Sockets : Ended(s)' => Ended(s) \/ s \in excused'
      PROVE  Excused'
  BY <1>2 DEF Blameless, Excused
<1>3. ASSUME excused \subseteq excused', NEW t \in Sockets,
             \/ socket' = [socket EXCEPT ![t].phase = "open"]
             \/ socket' = [socket EXCEPT ![t].data = TRUE]
             \/ socket' = [socket EXCEPT ![t].data = FALSE]
             \/ socket' = [socket EXCEPT ![t].err = FALSE]
             \/ socket' = [socket EXCEPT ![t].shut = TRUE]
      PROVE  Excused'
  <2>1. \A s \in Sockets : Ended(s)' => Ended(s)
    <3>1. CASE socket' = [socket EXCEPT ![t].phase = "open"]
      BY <1>1, <3>1 DEF Ended, KernelSockets
    <3>2. CASE socket' = [socket EXCEPT ![t].data = TRUE]
      BY <1>1, <3>2 DEF Ended, KernelSockets
    <3>3. CASE socket' = [socket EXCEPT ![t].data = FALSE]
      BY <1>1, <3>3 DEF Ended, KernelSockets
    <3>4. CASE socket' = [socket EXCEPT ![t].err = FALSE]
      BY <1>1, <3>4 DEF Ended, KernelSockets
    <3>5. CASE socket' = [socket EXCEPT ![t].shut = TRUE]
      BY <1>1, <3>5 DEF Ended, KernelSockets
    <3> QED
      BY <1>3, <3>1, <3>2, <3>3, <3>4, <3>5
  <2> QED
    BY <1>2, <1>3, <2>1
<1>4. ASSUME UNCHANGED socket, excused \subseteq excused'
      PROVE  Excused'
  BY <1>2, <1>4 DEF Ended
<1>5. ASSUME NEW c \in Objects, Live(c), HandleClose(c), UNCHANGED excused,
             object[c].is \in excused
      PROVE  Excused'
  <2> DEFINE s == SocketOf(c)
  <2>1. s \in Sockets /\ s # NoSocket /\ s = file[object[c].fd] /\ s = object[c].is
    BY <1>5, LiveConnection DEF ConnectionsInv, SocketOf
  <2>2. socket' = [socket EXCEPT ![s] = Closed]
    BY <1>5, <2>1 DEF HandleClose, Live
  <2> HIDE DEF s
  <2>3. \A t \in Sockets : t # s => socket'[t] = socket[t]
    BY <1>1, <2>2
  <2>4. \A t \in Sockets : Ended(t)' => Ended(t) \/ t \in excused'
    BY <1>5, <2>1, <2>3 DEF Ended
  <2> QED
    BY <1>2, <1>5, <2>4
<1>6. ASSUME NEW s \in Sockets, (\E f \in Fds : Accept(s, f)) \/ PeerSend(s)
      PROVE  Excused'
  BY <1>3, <1>6 DEF Accept, PeerSend
<1>7. ASSUME NEW s \in Sockets, PeerEnd(s)
      PROVE  Excused'
  <2>1. s \in excused' /\ excused \subseteq excused'
    BY <1>7 DEF PeerEnd
  <2>2. \A t \in Sockets : t # s => socket'[t] = socket[t]
    BY <1>1, <1>7 DEF PeerEnd
  <2> QED
    BY <1>2, <2>1, <2>2 DEF Ended
<1>8. CASE \/ Poll \/ (\E c \in Objects : HandleEvent(c)) \/ RunFunctors \/ EndFunctors
           \/ WriteComplete \/ CallNothing \/ Send \/ ForceClose \/ StopRead \/ StartRead
           \/ CreateConnection
  <2>1. UNCHANGED socket /\ excused \subseteq excused'
    BY <1>8 DEF Poll, HandleEvent, RunFunctors, EndFunctors, WriteComplete, CallNothing, kernel,
                Send, ForceClose, StopRead, StartRead, CreateConnection, Establish
  <2> QED
    BY <1>4, <2>1
<1>9. CASE ErrorHandler \/ ReadHandler
  <2> DEFINE c == agenda.of
             s == SocketOf(c)
  <2>1. (Handle("error") \/ Handle("read")) /\ excused' = excused
    BY <1>9 DEF ErrorHandler, ReadHandler
  <2>2. c \in Objects /\ Live(c)
    BY <2>1, AgendaRest DEF ConnectionsInv, Handling, Handlers
  <2>3. s \in Sockets /\ s # NoSocket /\ s = object[c].is
    BY <2>2, LiveConnection DEF ConnectionsInv
  <2>4. CASE HandleClose(c) /\ (socket[s].fin \/ socket[s].gone)
    <3>1. object[c].is \in excused
      BY <2>3, <2>4 DEF Blameless, Excused, Ended
    <3> QED
      BY <1>5, <2>1, <2>2, <2>4, <3>1
  <2>5. CASE ClearError(s) \/ socket' = [socket EXCEPT ![s].data = FALSE]
    <3>1. \/ socket' = [socket EXCEPT ![s].err = FALSE]
          \/ socket' = [socket EXCEPT ![s].data = FALSE]
      BY <2>3, <2>5 DEF ClearError
    <3> HIDE DEF s
    <3> QED
      BY <1>3, <2>1, <2>3, <3>1
  <2> QED
    BY <1>9, <2>4, <2>5 DEF ErrorHandler, ReadHandler
<1>10. ASSUME NEW c \in Objects, NEW ev, Live(c), ShutdownInLoop(c, ev) \/ UNCHANGED socket,
              UNCHANGED excused
       PROVE  Excused'
  <2> DEFINE s == SocketOf(c)
  <2>1. s \in Sockets
    BY <1>10, LiveConnection DEF ConnectionsInv
  <2>2. socket' = socket \/ socket' = [socket EXCEPT ![s].shut = TRUE]
    BY <1>10 DEF ShutdownInLoop
  <2> HIDE DEF s
  <2> QED
    BY <1>3, <1>4, <1>10, <2>1, <2>2
<1>11. CASE WriteHandler
  <2> DEFINE c == agenda.of
  <2>1. /\ c \in Objects /\ UNCHANGED excused
    BY <1>11 DEF WriteHandler, Handle, InHand, ConnectionsInv, LoopTypes, Idle
  <2>2. CASE UNCHANGED socket
    BY <1>4, <2>1, <2>2
  <2>3. CASE "out" \in object[c].events /\ FinishShutdown(c)
    <3>1. Live(c)
      BY <2>1, <2>3 DEF ConnectionsInv, World, Watching
    <3> QED
      BY <1>10, <2>1, <2>3, <3>1 DEF FinishShutdown
  <2> QED
    BY <1>11, <2>2, <2>3 DEF WriteHandler
<1>12. CASE Shutdown
  <2>1. callback.of \in Objects /\ Live(callback.of) /\ UNCHANGED excused
    BY <1>12, InCallbackOf DEF Shutdown, InCallback, Live
  <2> QED
    BY <1>10, <1>12, <2>1 DEF Shutdown
<1>13. CASE ForceCloseInLoop
  <2> DEFINE c == Head(batch).of
  <2>1. batch # <<>> /\ Forces(Head(batch)) /\ batch \in Seq(Functors) /\ UNCHANGED excused
    BY <1>13 DEF ForceCloseInLoop, Run, ConnectionsInv, LoopTypes, Forces
  <2>2. Head(batch) = batch[1] /\ 1 \in DOMAIN batch /\ Head(batch) \in Functors
    BY <2>1, TailSeq
  <2>3. c \in Objects /\ Live(c) /\ object[c].is \in excused
    BY <2>1, <2>2, ForceOf DEF Blameless, Forced
  <2>4. HandleClose(c)
    BY <1>13, <2>3 DEF ForceCloseInLoop, ForceCloses, Live
  <2> QED
    BY <1>5, <2>1, <2>3, <2>4
<1> QED
  BY <1>6, <1>7, <1>8, <1>9, <1>11, <1>12, <1>13, CloseHandlerStep DEF Next, Loop

\* The functors of forceClose() find the connection they were queued for, once.
LEMMA ForcedStep ==
  ASSUME ForcesOnMessage, ConnectionsInv, Settling, Forced, Next
  PROVE  Forced'
<1>1. /\ functors \in Seq(Functors) /\ batch \in Seq(Functors)
      /\ \A i \in DOMAIN functors : Forces(functors[i]) => functors[i].of \in Objects
      /\ \A i \in DOMAIN batch : Forces(batch[i]) => batch[i].of \in Objects
  BY ForceOf DEF ConnectionsInv, LoopTypes
<1>2. batch # <<>> => \A d \in Objects : Live(d) => Settled(d)
  BY DEF ConnectionsInv, LoopTypes, Settled, Idle
<1>3. pc # "run" => batch = <<>>
  BY DEF ConnectionsInv, LoopTypes
<1>4. pc # "handle" => \A i \in DOMAIN functors : ~Forces(functors[i])
  BY DEF Forced
\* What is to be shown, of functors and objects of the next state.
<1>5. ASSUME \A i \in DOMAIN functors' : Forces(functors'[i]) =>
               pc' = "handle" /\ Stays(functors'[i].of) /\ object'[functors'[i].of].is \in excused',
             \A i \in DOMAIN batch' : Forces(batch'[i]) =>
               /\ object'[batch'[i].of].state \in {"connected", "disconnecting"}
               /\ object'[batch'[i].of].is \in excused',
             \A i, j \in DOMAIN functors' : SameForce(functors'[i], functors'[j]) => i = j,
             \A i, j \in DOMAIN batch' : SameForce(batch'[i], batch'[j]) => i = j,
             callback'.at = "message"
               => \A i \in DOMAIN functors' : Forces(functors'[i]) => functors'[i].of # callback'.of
      PROVE  Forced'
  BY <1>5 DEF Forced, Forces, SameForce, Settled, Live, Stays
<1>6. ASSUME \A i \in DOMAIN functors' : ~Forces(functors'[i]),
             \A i \in DOMAIN batch' : Forces(batch'[i]) =>
               /\ object'[batch'[i].of].state \in {"connected", "disconnecting"}
               /\ object'[batch'[i].of].is \in excused',
             \A i, j \in DOMAIN batch' : SameForce(batch'[i], batch'[j]) => i = j
      PROVE  Forced'
  BY <1>5, <1>6 DEF SameForce
<1>7. CASE Poll \/ EndFunctors
  <2>1. pc # "handle" /\ batch = <<>> /\ UNCHANGED <<functors, batch>>
    BY <1>3, <1>7 DEF Poll, EndFunctors
  <2> QED
    BY <1>4, <1>6, <2>1
<1>8. CASE RunFunctors
  <2>1. batch' = functors /\ functors' = <<>> /\ UNCHANGED <<object, excused>>
    BY <1>8 DEF RunFunctors
  <2> QED
    BY <1>6, <2>1 DEF Forced, Settled, Live
<1>9. CASE ForceCloseInLoop
  <2> DEFINE c == Head(batch).of
  <2>1. /\ pc = "run" /\ batch # <<>> /\ Forces(Head(batch)) /\ batch' = Tail(batch)
        /\ UNCHANGED <<functors, excused>>
    BY <1>9 DEF ForceCloseInLoop, Run, Forces
  <2>2. /\ Head(batch) = batch[1] /\ 1 \in DOMAIN batch /\ Head(batch) \in Functors
        /\ \A i \in DOMAIN batch' : i + 1 # 1 /\ i + 1 \in DOMAIN batch /\ batch'[i] = batch[i + 1]
        /\ \A i, j \in DOMAIN batch' : i + 1 = j + 1 => i = j
    BY <1>1, <2>1, TailSeq
  <2>3. c \in Objects /\ Live(c)
    BY <2>1, <2>2, ForceOf DEF Forced
  <2>4. HandleClose(c)
    BY <1>9, <2>3 DEF ForceCloseInLoop, ForceCloses, Live
  <2>5. \A i \in DOMAIN batch' : Forces(batch'[i]) => batch'[i].of # c
    BY <2>1, <2>2 DEF Forced, SameForce
  <2> HIDE DEF c
  <2>6. \A d \in Objects : d # c => object'[d] = object[d]
    BY <2>3, <2>4, OthersKeep
  <2>7. \A i \in DOMAIN batch' : Forces(batch'[i]) =>
          /\ object'[batch'[i].of].state \in {"connected", "disconnecting"}
          /\ object'[batch'[i].of].is \in excused'
    <3> SUFFICES ASSUME NEW i \in DOMAIN batch', Forces(batch'[i])
                 PROVE  /\ object'[batch'[i].of].state \in {"connected", "disconnecting"}
                        /\ object'[batch'[i].of].is \in excused'
      OBVIOUS
    <3>1. /\ batch'[i] = batch[i + 1] /\ i + 1 \in DOMAIN batch
          /\ batch'[i].of \in Objects /\ batch'[i].of # c
      BY <1>1, <2>2, <2>5
    <3>2. object'[batch'[i].of] = object[batch'[i].of]
      BY <2>6, <3>1
    <3>3. Live(batch'[i].of) /\ object[batch'[i].of].is \in excused
      BY <3>1 DEF Forced
    <3> QED
      BY <2>1, <3>2, <3>3 DEF Live
  <2>8. \A i, j \in DOMAIN batch' : SameForce(batch'[i], batch'[j]) => i = j
    BY <2>2 DEF Forced
  <2> QED
    BY <1>4, <1>6, <2>1, <2>7, <2>8
<1>10. ASSUME ~Poll, ~ForceCloseInLoop
       PROVE  Forced'
  <2>1. \A d \in Objects : Settled(d) => Stays(d) /\ object'[d].is = object[d].is
    BY <1>10, SettledKept DEF Settled, Live, Stays
  <2>2. ASSUME UNCHANGED pc, excused \subseteq excused',
               batch' = batch \/ (batch' = Tail(batch) /\ batch # <<>>),
               functors' = functors
                 \/ \E x \in Functors : ~Forces(x) /\ functors' = Append(functors, x),
               \/ callback' = callback \/ callback'.at # "message"
               \/ ~Settled(callback'.of)
        PROVE  Forced'
    <3>1. \A i \in DOMAIN functors' : Forces(functors'[i])
            => i \in DOMAIN functors /\ functors'[i] = functors[i]
      <4>1. ASSUME NEW x \in Functors, ~Forces(x), functors' = Append(functors, x),
                   NEW i \in DOMAIN functors', Forces(functors'[i])
            PROVE  i \in DOMAIN functors /\ functors'[i] = functors[i]
        BY <1>1, <4>1, AppendSeq
      <4> QED
        BY <2>2, <4>1
    <3>2. \A i \in DOMAIN functors' : Forces(functors'[i]) =>
            /\ pc' = "handle" /\ Stays(functors'[i].of)
            /\ object'[functors'[i].of].is \in excused' /\ Settled(functors'[i].of)
      BY <1>1, <2>1, <2>2, <3>1 DEF Forced
    <3>3. \A i, j \in DOMAIN functors' : SameForce(functors'[i], functors'[j]) => i = j
      BY <3>1 DEF Forced, SameForce
    <3>4. callback'.at = "message"
            => \A i \in DOMAIN functors' : Forces(functors'[i]) => functors'[i].of # callback'.of
      BY <2>2, <3>1, <3>2 DEF Forced
    <3>5. PICK n \in {0, 1} : \A i \in DOMAIN batch' :
            /\ i + n \in DOMAIN batch /\ batch'[i] = batch[i + n]
            /\ \A j \in DOMAIN batch' : i + n = j + n => i = j
      <4>1. CASE batch' = batch
        <5>1. \A i \in DOMAIN batch : i + 0 = i
          BY <1>1
        <5> QED
          BY <4>1, <5>1
      <4>2. CASE batch' = Tail(batch) /\ batch # <<>>
        BY <1>1, <4>2, TailSeq
      <4> QED
        BY <2>2, <4>1, <4>2
    <3>6. \A i \in DOMAIN batch' : Forces(batch'[i]) =>
            /\ object'[batch'[i].of].state \in {"connected", "disconnecting"}
            /\ object'[batch'[i].of].is \in excused'
      <4> SUFFICES ASSUME NEW i \in DOMAIN batch', Forces(batch'[i])
                   PROVE  Stays(batch'[i].of) /\ object'[batch'[i].of].is \in excused'
        BY DEF Stays
      <4>1. /\ batch'[i].of \in Objects /\ Live(batch'[i].of) /\ batch # <<>>
            /\ object[batch'[i].of].is \in excused
        BY <1>1, <3>5 DEF Forced
      <4> QED
        BY <1>2, <2>1, <2>2, <4>1
    <3>7. \A i, j \in DOMAIN batch' : SameForce(batch'[i], batch'[j]) => i = j
      BY <3>5 DEF Forced
    <3> QED
      BY <1>5, <3>2, <3>3, <3>4, <3>6, <3>7
  <2>3. ASSUME NEW x \in Functors, ~Forces(x), UNCHANGED <<pc, batch>>, excused \subseteq excused',
               functors' = functors \/ functors' = Append(functors, x),
               callback' = callback \/ callback' = Quiet
        PROVE  Forced'
    BY <2>2, <2>3 DEF Quiet
  <2>4. ASSUME UNCHANGED <<pc, functors>>, excused \subseteq excused',
               batch' = batch \/ (batch' = Tail(batch) /\ batch # <<>>),
               callback' = callback \/ callback'.at # "message"
        PROVE  Forced'
    BY <2>2, <2>4
  <2>5. CASE \/ (\E c \in Objects : HandleEvent(c)) \/ ErrorHandler \/ CallNothing
             \/ Shutdown \/ StopRead \/ StartRead
    <3>1. ASSUME NEW c \in Objects, HandleEvent(c)
          PROVE  UNCHANGED <<pc, functors, batch, excused, callback>>
      BY <3>1 DEF HandleEvent
    <3>2. ASSUME ErrorHandler \/ CallNothing
          PROVE  /\ UNCHANGED <<pc, functors, batch, excused>>
                 /\ callback' = callback \/ callback'.at # "message"
      BY <3>2 DEF ErrorHandler, CallNothing, Handle, loopVars, Quiet
    <3>3. ASSUME Shutdown \/ StopRead \/ StartRead
          PROVE  /\ UNCHANGED <<pc, functors, batch, excused>>
                 /\ callback' = callback \/ callback'.at # "message"
      BY <3>3 DEF Shutdown, StopRead, StartRead, InCallback, Quiet
    <3>4. /\ UNCHANGED <<pc, functors, batch, excused>>
          /\ callback' = callback \/ callback'.at # "message"
      BY <2>5, <3>1, <3>2, <3>3
    <3> QED
      BY <2>4, <3>4
  <2>6. CASE WriteComplete \/ CreateConnection
    <3>1. /\ UNCHANGED functors /\ batch' = Tail(batch) /\ batch # <<>> /\ UNCHANGED <<pc, excused>>
          /\ callback' = callback \/ callback'.at # "message"
      BY <2>6, NoAbort DEF WriteComplete, CreateConnection, Establish, Run
    <3> QED
      BY <2>4, <3>1
  <2>7. CASE ReadHandler
    <3>1. Handle("read") /\ "read" \in Handlers /\ UNCHANGED <<functors, excused>>
      BY <2>7 DEF ReadHandler, Handlers
    <3>2. "read" \in agenda.handlers /\ batch' = batch
      BY <3>1, AgendaRest
    <3>3. callback' = callback \/ (callback'.of = agenda.of /\ ~Settled(agenda.of))
      BY <2>7, <3>2 DEF ReadHandler, Settled
    <3> QED
      BY <2>2, <2>7, <3>1, <3>2, <3>3, NoAbort
  <2>8. CASE WriteHandler \/ Send
    <3>1. PICK c \in Objects : functors' = functors
            \/ functors' = Append(functors, [op |-> "complete", of |-> c])
      <4>1. CASE WriteHandler
        BY <4>1 DEF WriteHandler, Handle, InHand, ConnectionsInv, LoopTypes, Idle
      <4>2. CASE Send
        BY <4>2, InCallbackOf DEF Send, InCallback
      <4> QED
        BY <2>8, <4>1, <4>2
    <3>2. /\ [op |-> "complete", of |-> c] \in Functors
          /\ ~Forces([op |-> "complete", of |-> c])
      BY DEF Functors, Forces
    <3>3. /\ UNCHANGED <<pc, batch, excused>>
          /\ callback' = callback \/ callback' = Quiet
      BY <2>8 DEF WriteHandler, Send, Handle, InCallback
    <3> QED
      BY <2>3, <3>1, <3>2, <3>3
  <2>9. CASE ForceClose
    <3> DEFINE c == callback.of
               x == [op |-> "forceClose", of |-> c]
    <3>1. /\ callback # Quiet /\ "forceClose" \in usage.calls[callback.at] /\ UNCHANGED <<pc, batch>>
          /\ functors' = Append(functors, x) /\ callback' = Quiet
          /\ excused' = excused \cup {object[c].is}
      BY <2>9 DEF ForceClose, InCallback
    <3>2. callback.at = "message" /\ c \in Objects
      BY <3>1, InCallbackOf DEF ForcesOnMessage, ConnectionsInv, LoopTypes
    <3>3. pc = "handle" /\ Settled(c) /\ batch = <<>>
      BY <1>3, <3>2 DEF Settling, InCall
    <3>4. x \in Functors /\ x.of = c
      BY <3>2 DEF Functors
    <3>5. \A i \in DOMAIN functors : Forces(functors[i]) => functors[i].of # c
      BY <3>2 DEF Forced
    <3> HIDE DEF x, c
    <3>6. \A i \in DOMAIN functors' :
            (i \in DOMAIN functors /\ functors'[i] = functors[i])
              \/ (i = Len(functors) + 1 /\ functors'[i] = x)
      BY <1>1, <3>1, <3>4, AppendSeq
    <3>7. \A i \in DOMAIN functors' : Forces(functors'[i]) =>
            pc' = "handle" /\ Stays(functors'[i].of) /\ object'[functors'[i].of].is \in excused'
      <4>1. Stays(c) /\ object'[c].is \in excused'
        BY <2>1, <3>1, <3>2, <3>3 DEF c
      <4>2. ASSUME NEW i \in DOMAIN functors, Forces(functors[i])
            PROVE  Stays(functors[i].of) /\ object'[functors[i].of].is \in excused'
        BY <1>1, <2>1, <3>1, <4>2 DEF Forced
      <4> QED
        BY <3>1, <3>3, <3>4, <3>6, <4>1, <4>2
    <3>8. \A i, j \in DOMAIN functors' : SameForce(functors'[i], functors'[j]) => i = j
      BY <3>4, <3>5, <3>6 DEF Forced, SameForce
    <3> QED
      BY <1>5, <3>1, <3>3, <3>7, <3>8 DEF Quiet
  <2>10. ASSUME NEW s \in Sockets, (\E f \in Fds : Accept(s, f)) \/ PeerSend(s) \/ PeerEnd(s)
         PROVE  Forced'
    <3>1. CASE PeerSend(s) \/ PeerEnd(s)
      <4>1. UNCHANGED <<pc, functors, batch, callback>> /\ excused \subseteq excused'
        BY <3>1 DEF PeerSend, PeerEnd, loopVars
      <4> QED
        BY <2>4, <4>1
    <3>2. ASSUME NEW f \in Fds, Accept(s, f)
          PROVE  Forced'
      <4> DEFINE x == [op |-> "create", fd |-> f]
      <4>1. x \in Functors /\ ~Forces(x)
        BY DEF Functors, Forces
      <4>2. functors' = Append(functors, x) /\ UNCHANGED <<pc, batch, excused, callback>>
        BY <3>2 DEF Accept
      <4> HIDE DEF x
      <4> QED
        BY <2>3, <4>1, <4>2
    <3> QED
      BY <2>10, <3>1, <3>2
  <2> QED
    BY <1>7, <1>8, <1>10, <2>5, <2>6, <2>7, <2>8, <2>9, <2>10, CloseHandlerStep DEF Next, Loop
<1> QED
  BY <1>7, <1>9, <1>10

LEMMA BlamelessStep ==
  ASSUME ForcesOnMessage, ConnectionsInv, Settling, Blameless, [Next]_vars
  PROVE  Blameless'
<1>1. CASE UNCHANGED vars
  BY <1>1 DEF Blameless, Excused, Ended, Forced, Forces, SameForce, Settled, Live, vars
<1>2. CASE Next
  BY <1>2, ExcusedStep, ForcedStep DEF Blameless
<1> QED
  BY <1>1, <1>2

(***************************************************************************)
(* The theorems.                                                           *)
(***************************************************************************)

\* Every TcpConnection is in one place, connections_ or the pool, and no
\* assertion on state_ fails, however often createConnection and handleClose
\* move it and whatever callbacks stop and start reading in between.
THEOREM ObjectsHaveOneHome ==
  ASSUME WellUsed
  PROVE  Spec => []OneHome
BY InvHolds, InvHomes, PTL

\* What updateChannel and removeChannel leave in the interest list is what the
\* channels of the live connections hold, and nothing else.
THEOREM InterestsAgree ==
  ASSUME WellUsed
  PROVE  Spec => []EpollAgrees
BY InvHolds, InvWatching, PTL

\* The handlers of handleEvent that read from a descriptor find the socket the
\* event was about, whatever the accepting thread does with closed numbers.
THEOREM HandlersMeetTheirSocket ==
  ASSUME WellUsed
  PROVE  Spec => []OwnSocket
BY InvHolds, InvSockets, PTL

\* shutdown() is performed at once or by the handleWrite that drains the output.
THEOREM ShutdownIsPerformed ==
  ASSUME WellUsed
  PROVE  Spec => []ShutdownReachesKernel
<1>1. ConnectionsInv => ShutdownReachesKernel
  BY DEF ConnectionsInv, World
<1> QED
  BY <1>1, InvHolds, PTL

\* epoll_wait reports every live connection whose peer has gone, so that
\* handleRead closes it and its descriptor is not leaked.
THEOREM EndsAreReported ==
  ASSUME WellUsed
  PROVE  Spec => []EndedIsReported
BY InvHolds, InvReported, PTL

\* Where forceClose() is called in the message callback only, a connection is
\* closed only because its own peer ended it or it was forceClosed: the functor
\* that another callback queues is all that can close the connection of another.
THEOREM OthersStayOpen ==
  ASSUME WellUsed, ForcesOnMessage
  PROVE  Spec => []NoCollateralClose
<1>1. Init => ConnectionsInv /\ Settling /\ Blameless
  <2>1. Init => Blameless
    BY DEF Init, Blameless, Excused, Forced, Ended, NewSocket, Quiet
  <2> QED
    BY <2>1, InvInit, SettlingInit
<1>2. ConnectionsInv /\ Settling /\ Blameless /\ [Next]_vars
        => (ConnectionsInv /\ Settling /\ Blameless)'
  BY InvStep, SettlingStays, BlamelessStep
<1>3. Blameless => NoCollateralClose
  BY DEF Blameless, Excused, Ended, NoCollateralClose
<1> QED
  BY <1>1, <1>2, <1>3, PTL DEF Spec
=============================================================================
