--------------------------- MODULE RunEventsProofs ---------------------------
(***************************************************************************)
(* Proofs about RunEvents.tla, for every run, every set of steps, of       *)
(* connections and of streams, and every size of the buffer.               *)
(*                                                                         *)
(* One fact carries the order: an event whose broadcast is under way       *)
(* precedes nothing the run has emitted (Awaited), because the emitter of  *)
(* whatever comes after it awaits that broadcast.  So it may still be      *)
(* appended to what a viewer was sent, whichever of the broadcasts, the    *)
(* replay and the queue gets there first.                                  *)
(***************************************************************************)
EXTENDS RunEvents, Integers, SequenceTheorems, TLAPS

-----------------------------------------------------------------------------
(* The inductive invariant.                                                *)

\* No event twice, and none after one that had to wait for it.
Ordered(seq) ==
  \A i, j \in 1..Len(seq) : i < j => seq[i] # seq[j] /\ ~Precedes(seq[j], seq[i])

In(ev, seq) == \E i \in 1..Len(seq) : seq[i] = ev

Under(seq, sup) == \A i \in 1..Len(seq) : In(seq[i], sup)

\* Nothing in seq had to wait for ev.
NoneAwaits(ev, seq) == \A i \in 1..Len(seq) : ~Precedes(ev, seq[i])

\* The last stage the run can have emitted an event of.
LastStage(at) ==
  CASE at = "begin" -> 0
    [] at = "engine" -> 1
    [] at = "steps" -> 3
    [] at = "reported" -> 4
    [] at = "judging" -> 5
    [] at = "scoring" -> 6
    [] OTHER -> 7

\* The hub's list, and the snapshots taken of it.
HubInv ==
  \A w \in Sockets :
    /\ conns[w] <= 1
    /\ socket[w].at \in {"replaying", "live"} => conns[w] = 1
    /\ socket[w].at \in {"away", "left"} => conns[w] = 0
    /\ \A e \in Emitters :
         /\ sending[e].todo[w] <= 1
         /\ sending[e].todo[w] > 0 => socket[w].at # "away"
         /\ sending[e].dead[w] > 0 => socket[w].at \in {"gone", "left"}

\* Where the background task is bounds what the steps' tasks are doing, and
\* what each emitter may be awaiting.
TasksInv ==
  /\ main \in {"begin", "engine"} => \A s \in Steps : task[s] = "none"
  /\ main \in {"reported", "judging", "scoring", "logging"} =>
       \A s \in Steps : task[s] = "ended"
  /\ \A s \in Steps : ~Free(s) =>
       sending[s].event = Event("step_start", s, TRUE) /\ task[s] = "started"
  /\ ~Free(Server) =>
       /\ sending[Server].event.type # "step_start"
       /\ (\E s \in Steps : task[s] # "none") => Stage(sending[Server].event) >= 3

\* Where the run is bounds what has been emitted.
StagesInv ==
  \A i \in 1..Len(history) :
    /\ Stage(history[i]) <= LastStage(main)
    /\ Stage(history[i]) > 3 => \A s \in Steps : task[s] = "ended"
    /\ history[i].type = "step_start" =>
         history[i].by \in Steps /\ task[history[i].by] \notin {"none", "ready"}
    /\ history[i].type = "step_end" =>
         history[i].by \in Steps /\ task[history[i].by] = "ended"

\* What has been emitted, and that nothing emitted had to wait for a broadcast
\* that is still under way.
Awaited ==
  /\ Ordered(history)
  /\ \A e \in Emitters : ~Free(e) =>
       In(sending[e].event, history) /\ NoneAwaits(sending[e].event, history)

\* What a connection was sent.
SocketInv ==
  \A w \in Sockets :
    /\ socket[w].seen <= Len(history)
    /\ socket[w].at = "away" => got[w] = <<>>
    /\ Under(got[w], history)
    /\ Ordered(got[w])
    /\ \A e \in Emitters : sending[e].todo[w] > 0 => ~In(sending[e].event, got[w])

\* A replay that has not been disturbed has sent the buffer up to "next", and
\* no broadcast has the connection in its snapshot.
ReplayInv ==
  \A w \in Sockets :
    socket[w].at = "replaying" /\ socket[w].seen = Len(history) =>
      /\ \A e \in Emitters : sending[e].todo[w] = 0
      /\ socket[w].next > socket[w].from /\ socket[w].next <= Len(history) + 1
      /\ Len(got[w]) = socket[w].next - socket[w].from
      /\ \A i \in 1..Len(got[w]) : got[w][i] = history[socket[w].from + i - 1]

SocketComplete ==
  \A w \in Sockets : socket[w].at = "live" =>
    \A i \in socket[w].from..Len(history) :
      \/ In(history[i], got[w])
      \/ \E e \in Emitters : sending[e].event = history[i] /\ sending[e].todo[w] > 0

\* What a stream was sent, followed by its queue.
StreamInv ==
  \A l \in Streams :
    /\ stream[l].at = "away" => got[l] = <<>>
    /\ stream[l].at # "open" => stream[l].queue = <<>>
    /\ Under(got[l], history) /\ Under(stream[l].queue, history)
    /\ Ordered(got[l]) /\ Ordered(stream[l].queue)
    /\ \A j \in 1..Len(stream[l].queue) :
         ~In(stream[l].queue[j], got[l]) /\ NoneAwaits(stream[l].queue[j], got[l])
    /\ \A e \in Emitters : ~Free(e) =>
         ~In(sending[e].event, got[l]) /\ ~In(sending[e].event, stream[l].queue)

StreamComplete ==
  \A l \in Streams : stream[l].at = "open" =>
    \A i \in stream[l].from..Len(history) :
      \/ In(history[i], got[l]) \/ In(history[i], stream[l].queue)
      \/ \E e \in Emitters : sending[e].event = history[i]

\* The run's half, and the viewers'.
RunInv == TasksInv /\ StagesInv

ViewInv ==
  /\ HubInv /\ Awaited /\ SocketInv /\ ReplayInv /\ SocketComplete
  /\ StreamInv /\ StreamComplete

IInv == TypeOK /\ RunInv /\ ViewInv

-----------------------------------------------------------------------------
(* Sequences of events.                                                    *)

\* An event that nothing in a sequence had to wait for may be appended to it.
LEMMA OrderedAppend ==
  ASSUME NEW seq \in Seq(Events), NEW ev \in Events,
         Ordered(seq), ~In(ev, seq), NoneAwaits(ev, seq)
  PROVE  Append(seq, ev) \in Seq(Events) /\ Ordered(Append(seq, ev))
BY DEF Ordered, In, NoneAwaits

\* The elements of a sequence that was appended to.
LEMMA InAppend ==
  ASSUME NEW seq \in Seq(Events), NEW ev \in Events, NEW x
  PROVE  In(x, Append(seq, ev)) <=> In(x, seq) \/ x = ev
<1>1. CASE In(x, seq)
  <2>1. PICK i \in 1..Len(seq) : seq[i] = x
    BY <1>1 DEF In
  <2>2. i \in 1..Len(Append(seq, ev)) /\ Append(seq, ev)[i] = x
    BY <2>1
  <2> QED BY <1>1, <2>2 DEF In
<1>2. CASE x = ev
  <2>1. Len(seq) + 1 \in 1..Len(Append(seq, ev)) /\ Append(seq, ev)[Len(seq) + 1] = x
    BY <1>2
  <2> QED BY <1>2, <2>1 DEF In
<1>3. CASE ~In(x, seq) /\ x # ev
  BY <1>3 DEF In
<1> QED BY <1>1, <1>2, <1>3

\* What is in one is in the other, and stays below it however it grows.
LEMMA UnderFacts ==
  ASSUME NEW seq \in Seq(Events), NEW sup \in Seq(Events), Under(seq, sup)
  PROVE  /\ \A x : In(x, seq) => In(x, sup)
         /\ \A x : NoneAwaits(x, sup) => NoneAwaits(x, seq)
         /\ \A ev \in Events : Under(seq, Append(sup, ev))
         /\ \A ev \in Events : In(ev, sup) => Under(Append(seq, ev), sup)
<1>1. \A x : In(x, seq) => In(x, sup)
  BY DEF In, Under
<1>2. \A x : NoneAwaits(x, sup) => NoneAwaits(x, seq)
  BY DEF In, Under, NoneAwaits
<1>3. \A ev \in Events : Under(seq, Append(sup, ev))
  BY InAppend DEF Under
<1>4. ASSUME NEW ev \in Events, In(ev, sup) PROVE Under(Append(seq, ev), sup)
  BY <1>4 DEF Under
<1> QED BY <1>1, <1>2, <1>3, <1>4

\* What nothing awaits, nothing awaits still when an event is appended that
\* does not await it.
LEMMA NoneAwaitsAppend ==
  ASSUME NEW seq \in Seq(Events), NEW ev \in Events, NEW x
  PROVE  NoneAwaits(x, Append(seq, ev)) <=> NoneAwaits(x, seq) /\ ~Precedes(x, ev)
<1>1. Len(Append(seq, ev)) = Len(seq) + 1 /\ Append(seq, ev)[Len(seq) + 1] = ev
      /\ \A i \in 1..Len(seq) : Append(seq, ev)[i] = seq[i]
  OBVIOUS
<1> QED BY <1>1 DEF NoneAwaits

\* Taking the head of a queue.
LEMMA TailFacts ==
  ASSUME NEW seq \in Seq(Events), seq # <<>>
  PROVE  /\ Head(seq) \in Events /\ Tail(seq) \in Seq(Events) /\ Head(seq) = seq[1]
         /\ Len(seq) \in Nat \ {0} /\ Len(Tail(seq)) = Len(seq) - 1
         /\ \A i \in 1..Len(Tail(seq)) : Tail(seq)[i] = seq[i + 1]
BY HeadTailProperties, ElementOfSeq

\* What follows from it for a queue in order.
LEMMA OrderedTail ==
  ASSUME NEW seq \in Seq(Events), seq # <<>>, Ordered(seq)
  PROVE  /\ Ordered(Tail(seq))
         /\ \A x : In(x, seq) <=> x = Head(seq) \/ In(x, Tail(seq))
         /\ \A j \in 1..Len(Tail(seq)) :
              Tail(seq)[j] # Head(seq) /\ ~Precedes(Tail(seq)[j], Head(seq))
<1> USE TailFacts
<1>1. Ordered(Tail(seq))
  <2> SUFFICES ASSUME NEW i \in 1..Len(Tail(seq)), NEW j \in 1..Len(Tail(seq)), i < j
               PROVE  Tail(seq)[i] # Tail(seq)[j] /\ ~Precedes(Tail(seq)[j], Tail(seq)[i])
    BY DEF Ordered
  <2>1. i + 1 \in 1..Len(seq) /\ j + 1 \in 1..Len(seq) /\ i + 1 < j + 1
    OBVIOUS
  <2>2. Tail(seq)[i] = seq[i + 1] /\ Tail(seq)[j] = seq[j + 1]
    OBVIOUS
  <2> QED BY <2>1, <2>2 DEF Ordered
<1>2. ASSUME NEW x, In(x, seq) PROVE x = Head(seq) \/ In(x, Tail(seq))
  <2>1. PICK i \in 1..Len(seq) : seq[i] = x
    BY <1>2 DEF In
  <2>2. CASE i > 1
    <3>1. i - 1 \in 1..Len(Tail(seq)) /\ Tail(seq)[i - 1] = x
      BY <2>1, <2>2
    <3> QED BY <3>1 DEF In
  <2> QED BY <2>1, <2>2
<1>3. ASSUME NEW x, x = Head(seq) \/ In(x, Tail(seq)) PROVE In(x, seq)
  BY <1>3 DEF In
<1>4. ASSUME NEW j \in 1..Len(Tail(seq))
      PROVE  Tail(seq)[j] # Head(seq) /\ ~Precedes(Tail(seq)[j], Head(seq))
  <2>1. 1 \in 1..Len(seq) /\ j + 1 \in 1..Len(seq) /\ Tail(seq)[j] = seq[j + 1]
    OBVIOUS
  <2> QED BY <2>1 DEF Ordered
<1> QED BY <1>1, <1>2, <1>3, <1>4

-----------------------------------------------------------------------------
(* Types.                                                                  *)

\* An emitter is free, or is at a broadcast of an event.
LEMMA BusyFacts ==
  ASSUME TypeOK, NEW e \in Emitters
  PROVE  /\ Free(e) => /\ sending[e].event \notin Events
                      /\ \A w \in Sockets : sending[e].todo[w] = 0 /\ sending[e].dead[w] = 0
         /\ ~Free(e) => sending[e] \in Broadcasts
BY DEF TypeOK, Free, NoBroadcast, Nobody, Event, Events, WireTypes

\* A stage is a number.
LEMMA StageFacts ==
  ASSUME NEW ev \in Events
  PROVE  Stage(ev) \in 1..7 /\ ~Precedes(ev, ev)
<1>1. Stage(ev) \in 1..7
  BY DEF Stage
<1> QED BY <1>1 DEF Precedes

\* What feeding the streams changes.
LEMMA FedFacts ==
  ASSUME TypeOK, NEW ev \in Events
  PROVE  /\ Fed(ev) \in [Streams -> Requests]
         /\ \A l \in Streams :
              /\ Fed(ev)[l].at = stream[l].at /\ Fed(ev)[l].from = stream[l].from
              /\ stream[l].at = "open" => Fed(ev)[l].queue = Append(stream[l].queue, ev)
              /\ stream[l].at # "open" => Fed(ev)[l].queue = stream[l].queue
<1>1. ASSUME NEW l \in Streams
      PROVE  /\ Fed(ev)[l] \in Requests
             /\ Fed(ev)[l].at = stream[l].at /\ Fed(ev)[l].from = stream[l].from
             /\ stream[l].at = "open" => Fed(ev)[l].queue = Append(stream[l].queue, ev)
             /\ stream[l].at # "open" => Fed(ev)[l].queue = stream[l].queue
  <2>1. stream[l] \in Requests
    BY DEF TypeOK
  <2>2. Append(stream[l].queue, ev) \in Seq(Events)
    BY <2>1 DEF Requests
  <2>3. Fed(ev)[l] = IF stream[l].at = "open"
                       THEN [stream[l] EXCEPT !.queue = Append(stream[l].queue, ev)]
                       ELSE stream[l]
    BY DEF Fed
  <2> QED BY <2>1, <2>2, <2>3 DEF Requests
<1> QED BY <1>1 DEF Fed

\* What a broadcast that begins changes.
LEMMA BroadcastFacts ==
  ASSUME TypeOK, NEW e \in Emitters, Free(e), NEW ev \in Events, Broadcast(e, ev)
  PROVE  /\ history' = Append(history, ev) /\ history' \in Seq(Events)
         /\ sending' \in [Emitters -> Broadcasts \cup {NoBroadcast}]
         /\ stream' \in [Streams -> Requests]
         /\ \A f \in Emitters : f # e => sending'[f] = sending[f]
         /\ \/ conns = Nobody /\ sending'[e] = sending[e] /\ stream' = Fed(ev)
            \/ /\ conns # Nobody
               /\ sending'[e] = [event |-> ev, todo |-> conns, dead |-> Nobody]
               /\ stream' = stream
<1>1. history' = Append(history, ev) /\ history' \in Seq(Events)
  BY DEF Broadcast, TypeOK
<1>2. CASE conns = Nobody
  BY <1>1, <1>2, FedFacts DEF Broadcast, TypeOK
<1>3. CASE conns # Nobody
  <2>1. sending' = [sending EXCEPT ![e] = [event |-> ev, todo |-> conns, dead |-> Nobody]]
        /\ stream' = stream
    BY <1>3 DEF Broadcast
  <2>2. [event |-> ev, todo |-> conns, dead |-> Nobody] \in Broadcasts
    BY DEF Broadcasts, TypeOK, Nobody
  <2> QED BY <1>1, <1>3, <2>1, <2>2 DEF TypeOK
<1> QED BY <1>2, <1>3

\* SendNext() spelled out.
LEMMA SendFacts ==
  ASSUME TypeOK, NEW e \in Emitters, SendNext(e)
  PROVE  /\ ~Free(e)
         /\ sending' \in [Emitters -> Broadcasts \cup {NoBroadcast}]
         /\ got' \in [Viewers -> Seq(Events)]
         /\ \A f \in Emitters : f # e => sending'[f] = sending[f]
         /\ sending'[e].event = sending[e].event
         /\ \E w \in Sockets :
              /\ sending[e].todo[w] > 0
              /\ sending'[e].todo[w] = sending[e].todo[w] - 1
              /\ \A u \in Sockets : u # w =>
                   /\ sending'[e].todo[u] = sending[e].todo[u]
                   /\ sending'[e].dead[u] = sending[e].dead[u]
              /\ \A v \in Viewers : v # w => got'[v] = got[v]
              /\ \/ /\ socket[w].at \in {"replaying", "live"}
                    /\ sending'[e].dead[w] = sending[e].dead[w]
                    /\ got'[w] = Append(got[w], sending[e].event)
                 \/ /\ socket[w].at \notin {"replaying", "live"}
                    /\ got' = got
<1>1. PICK w \in Sockets :
        /\ sending[e].todo[w] > 0
        /\ \/ /\ socket[w].at \in {"replaying", "live"}
              /\ sending' = [sending EXCEPT ![e].todo[w] = @ - 1]
              /\ got' = [got EXCEPT ![w] = Append(@, sending[e].event)]
           \/ /\ socket[w].at \notin {"replaying", "live"}
              /\ sending' = [sending EXCEPT ![e].todo[w] = @ - 1, ![e].dead[w] = @ + 1]
              /\ got' = got
  BY DEF SendNext
<1>2. ~Free(e) /\ sending[e] \in Broadcasts
  BY <1>1, BusyFacts
<1>3. sending[e].event \in Events /\ sending[e].todo \in [Sockets -> Nat]
      /\ sending[e].dead \in [Sockets -> Nat]
  BY <1>2 DEF Broadcasts
<1>4. w \in Viewers /\ got[w] \in Seq(Events) /\ Append(got[w], sending[e].event) \in Seq(Events)
  BY <1>3 DEF Viewers, TypeOK
<1> DEFINE less == [sending[e].todo EXCEPT ![w] = @ - 1]
           more == [sending[e].dead EXCEPT ![w] = @ + 1]
<1>5. less \in [Sockets -> Nat] /\ more \in [Sockets -> Nat]
  BY <1>1, <1>3
<1>6. CASE socket[w].at \in {"replaying", "live"}
  <2>1. sending' = [sending EXCEPT ![e] = [@ EXCEPT !.todo = less]]
    BY <1>1, <1>6, <1>2 DEF TypeOK, Broadcasts
  <2>2. [sending[e] EXCEPT !.todo = less] \in Broadcasts
    BY <1>2, <1>5 DEF Broadcasts
  <2>3. sending'[e] = [sending[e] EXCEPT !.todo = less]
        /\ sending' \in [Emitters -> Broadcasts \cup {NoBroadcast}]
        /\ \A f \in Emitters : f # e => sending'[f] = sending[f]
    BY <2>1, <2>2 DEF TypeOK
  <2>4. /\ got' \in [Viewers -> Seq(Events)]
        /\ \A v \in Viewers : v # w => got'[v] = got[v]
        /\ got'[w] = Append(got[w], sending[e].event)
    BY <1>1, <1>4, <1>6 DEF TypeOK
  <2>5. /\ sending'[e].event = sending[e].event
        /\ sending'[e].todo = less /\ sending'[e].dead = sending[e].dead
    BY <1>2, <2>3 DEF Broadcasts
  <2> QED BY <1>1, <1>2, <1>3, <1>6, <2>3, <2>4, <2>5
<1>7. CASE socket[w].at \notin {"replaying", "live"}
  <2>1. sending' = [sending EXCEPT ![e] = [@ EXCEPT !.todo = less, !.dead = more]]
    BY <1>1, <1>7, <1>2 DEF TypeOK, Broadcasts
  <2>2. [sending[e] EXCEPT !.todo = less, !.dead = more] \in Broadcasts
    BY <1>2, <1>5 DEF Broadcasts
  <2>3. sending'[e] = [sending[e] EXCEPT !.todo = less, !.dead = more]
        /\ sending' \in [Emitters -> Broadcasts \cup {NoBroadcast}]
        /\ \A f \in Emitters : f # e => sending'[f] = sending[f]
    BY <2>1, <2>2 DEF TypeOK
  <2>4. got' \in [Viewers -> Seq(Events)] /\ got' = got
    BY <1>1, <1>7 DEF TypeOK
  <2>5. /\ sending'[e].event = sending[e].event
        /\ sending'[e].todo = less /\ sending'[e].dead = more
    BY <1>2, <2>3 DEF Broadcasts
  <2> QED BY <1>1, <1>2, <1>3, <1>7, <2>3, <2>4, <2>5
<1> QED BY <1>6, <1>7

\* What Delivered() changes.
LEMMA DeliveredFacts ==
  ASSUME TypeOK, NEW e \in Emitters, Delivered(e)
  PROVE  /\ ~Free(e) /\ sending[e].event \in Events
         /\ sending' \in [Emitters -> Broadcasts \cup {NoBroadcast}]
         /\ sending'[e] = NoBroadcast
         /\ \A f \in Emitters : f # e => sending'[f] = sending[f]
         /\ \A w \in Sockets : sending[e].todo[w] = 0
         /\ conns' \in [Sockets -> Nat]
         /\ \A w \in Sockets : conns'[w] <= conns[w]
                               /\ (sending[e].dead[w] = 0 => conns'[w] = conns[w])
         /\ stream' = Fed(sending[e].event) /\ stream' \in [Streams -> Requests]
<1>1. ~Free(e) /\ sending[e] \in Broadcasts /\ sending[e].todo = Nobody
  BY BusyFacts DEF Delivered
<1>2. sending[e].event \in Events /\ sending[e].dead \in [Sockets -> Nat]
      /\ \A w \in Sockets : sending[e].todo[w] = 0
  BY <1>1 DEF Broadcasts, Nobody
<1>3. /\ conns' \in [Sockets -> Nat]
      /\ \A w \in Sockets : conns'[w] <= conns[w]
                            /\ (sending[e].dead[w] = 0 => conns'[w] = conns[w])
  BY <1>2 DEF Delivered, Without, TypeOK
<1>4. /\ sending' \in [Emitters -> Broadcasts \cup {NoBroadcast}]
      /\ sending'[e] = NoBroadcast
      /\ \A f \in Emitters : f # e => sending'[f] = sending[f]
  BY DEF Delivered, TypeOK
<1>5. stream' = Fed(sending[e].event) /\ stream' \in [Streams -> Requests]
  BY <1>2, FedFacts DEF Delivered
<1> QED BY <1>1, <1>2, <1>3, <1>4, <1>5

\* What Connect() changes: the connection is registered and, unless nothing has
\* been emitted, is sent the oldest event of the buffer.
LEMMA ConnectFacts ==
  ASSUME TypeOK, NEW w \in Sockets, Connect(w)
  PROVE  /\ conns' \in [Sockets -> Nat] /\ conns'[w] = conns[w] + 1
         /\ \A u \in Sockets : u # w => conns'[u] = conns[u] /\ socket'[u] = socket[u]
         /\ socket' \in [Sockets -> Connections]
         /\ socket'[w].at = IF history = <<>> THEN "live" ELSE "replaying"
         /\ socket'[w].from = Oldest /\ socket'[w].next = Oldest + 1
         /\ socket'[w].seen = Len(history)
         /\ Oldest \in Nat \ {0} /\ (history # <<>> => Oldest \in 1..Len(history))
         /\ got' \in [Viewers -> Seq(Events)]
         /\ \A v \in Viewers : v # w => got'[v] = got[v]
         /\ got'[w] = IF history = <<>> THEN got[w] ELSE <<history[Oldest]>>
<1>1. Len(history) \in Nat /\ MaxBuffer \in Nat \ {0} /\ (history # <<>> => Len(history) > 0)
  BY EventsAssumption, EmptySeq DEF TypeOK
<1>2. Oldest \in Nat \ {0} /\ (history # <<>> => Oldest \in 1..Len(history))
  BY <1>1 DEF Oldest
<1>3. conns' \in [Sockets -> Nat] /\ conns'[w] = conns[w] + 1
      /\ \A u \in Sockets : u # w => conns'[u] = conns[u]
  BY DEF Connect, TypeOK
<1> DEFINE new == [at   |-> IF history = <<>> THEN "live" ELSE "replaying",
                   from |-> Oldest, next |-> Oldest + 1, seen |-> Len(history)]
<1>4. new \in Connections
  BY <1>1, <1>2 DEF Connections
<1>5. socket' = [socket EXCEPT ![w] = new]
  BY DEF Connect
<1>6. socket' \in [Sockets -> Connections] /\ socket'[w] = new
      /\ \A u \in Sockets : u # w => socket'[u] = socket[u]
  BY <1>4, <1>5 DEF TypeOK
<1>7. /\ got' \in [Viewers -> Seq(Events)]
      /\ \A v \in Viewers : v # w => got'[v] = got[v]
      /\ got'[w] = IF history = <<>> THEN got[w] ELSE <<history[Oldest]>>
  <2>1. CASE history = <<>>
    BY <2>1 DEF Connect, TypeOK
  <2>2. CASE history # <<>>
    <3>1. history[Oldest] \in Events
      BY <1>2, <2>2, ElementOfSeq DEF TypeOK
    <3>2. got' = [got EXCEPT ![w] = <<history[Oldest]>>]
      BY <2>2 DEF Connect
    <3>3. <<history[Oldest]>> \in Seq(Events) /\ w \in Viewers
      BY <3>1 DEF Viewers
    <3> QED BY <2>2, <3>2, <3>3 DEF TypeOK
  <2> QED BY <2>1, <2>2
<1> QED BY <1>2, <1>3, <1>6, <1>7

\* What Leave() changes.
LEMMA LeaveFacts ==
  ASSUME TypeOK, NEW w \in Sockets, Leave(w)
  PROVE  /\ conns' \in [Sockets -> Nat] /\ (conns[w] <= 1 => conns'[w] = 0)
         /\ \A u \in Sockets : u # w => conns'[u] = conns[u] /\ socket'[u] = socket[u]
         /\ socket' \in [Sockets -> Connections]
         /\ socket'[w].at = "left" /\ socket'[w].seen = 0
<1>1. Apart("left") \in Connections /\ Apart("left").at = "left" /\ Apart("left").seen = 0
  BY DEF Apart, Connections
<1>2. conns' \in [Sockets -> Nat] /\ (conns[w] <= 1 => conns'[w] = 0)
      /\ \A u \in Sockets : u # w => conns'[u] = conns[u]
  BY DEF Leave, Without, TypeOK
<1>3. socket' \in [Sockets -> Connections] /\ socket'[w] = Apart("left")
      /\ \A u \in Sockets : u # w => socket'[u] = socket[u]
  BY <1>1 DEF Leave, TypeOK
<1> QED BY <1>1, <1>2, <1>3

\* What a turn of Replay() that is not disturbed changes.
LEMMA ReplayFacts ==
  ASSUME TypeOK, NEW w \in Sockets, Replay(w), socket[w].seen = Len(history)
  PROVE  /\ socket[w].at = "replaying" /\ conns' = conns
         /\ socket' \in [Sockets -> Connections]
         /\ \A u \in Sockets : u # w => socket'[u] = socket[u]
         /\ socket'[w].from = socket[w].from /\ socket'[w].seen = socket[w].seen
         /\ got' \in [Viewers -> Seq(Events)]
         /\ \A v \in Viewers : v # w => got'[v] = got[v]
         /\ \/ /\ socket[w].next > Len(history)
               /\ socket'[w].at = "live" /\ got' = got
            \/ /\ socket[w].next \in 1..Len(history)
               /\ socket'[w].at = "replaying" /\ socket'[w].next = socket[w].next + 1
               /\ got'[w] = Append(got[w], history[socket[w].next])
<1>1. socket[w] \in Connections /\ socket[w].next \in Nat \ {0} /\ Len(history) \in Nat
  BY DEF TypeOK, Connections
<1>2. CASE socket[w].next > Len(history)
  <2>1. socket' = [socket EXCEPT ![w] = [@ EXCEPT !.at = "live"]]
        /\ conns' = conns /\ got' = got /\ socket[w].at = "replaying"
    BY <1>1, <1>2 DEF Replay, TypeOK
  <2>2. [socket[w] EXCEPT !.at = "live"] \in Connections
    BY <1>1 DEF Connections
  <2>3. socket' \in [Sockets -> Connections] /\ socket'[w] = [socket[w] EXCEPT !.at = "live"]
        /\ \A u \in Sockets : u # w => socket'[u] = socket[u]
    BY <2>1, <2>2 DEF TypeOK
  <2>4. /\ socket'[w].at = "live" /\ socket'[w].from = socket[w].from
        /\ socket'[w].seen = socket[w].seen
    BY <1>1, <2>3 DEF Connections
  <2> QED BY <1>2, <2>1, <2>3, <2>4 DEF TypeOK
<1>3. CASE socket[w].next <= Len(history)
  <2>1. /\ socket' = [socket EXCEPT ![w] = [@ EXCEPT !.next = socket[w].next + 1]]
        /\ got' = [got EXCEPT ![w] = Append(@, history[socket[w].next])]
        /\ conns' = conns /\ socket[w].at = "replaying"
    BY <1>1, <1>3 DEF Replay, TypeOK
  <2>2. [socket[w] EXCEPT !.next = socket[w].next + 1] \in Connections
    BY <1>1 DEF Connections
  <2>3. socket' \in [Sockets -> Connections]
        /\ socket'[w] = [socket[w] EXCEPT !.next = socket[w].next + 1]
        /\ \A u \in Sockets : u # w => socket'[u] = socket[u]
    BY <2>1, <2>2 DEF TypeOK
  <2>4. /\ socket'[w].at = "replaying" /\ socket'[w].next = socket[w].next + 1
        /\ socket'[w].from = socket[w].from /\ socket'[w].seen = socket[w].seen
    BY <1>1, <2>1, <2>3 DEF Connections
  <2>5. socket[w].next \in 1..Len(history) /\ history[socket[w].next] \in Events
    BY <1>1, <1>3, ElementOfSeq DEF TypeOK
  <2>6. w \in Viewers /\ Append(got[w], history[socket[w].next]) \in Seq(Events)
    BY <2>5 DEF TypeOK, Viewers
  <2>7. /\ got' \in [Viewers -> Seq(Events)]
        /\ \A v \in Viewers : v # w => got'[v] = got[v]
        /\ got'[w] = Append(got[w], history[socket[w].next])
    BY <2>1, <2>6 DEF TypeOK
  <2> QED BY <2>1, <2>3, <2>4, <2>5, <2>7
<1> QED BY <1>1, <1>2, <1>3

\* What Yield() changes.
LEMMA YieldFacts ==
  ASSUME TypeOK, NEW l \in Streams, Yield(l)
  PROVE  /\ stream[l].at = "open" /\ stream[l].queue # <<>>
         /\ stream[l].queue \in Seq(Events)
         /\ stream' \in [Streams -> Requests]
         /\ \A k \in Streams : k # l => stream'[k] = stream[k]
         /\ \/ stream'[l].at = "closed" /\ stream'[l].queue = <<>>
            \/ /\ stream'[l].at = "open" /\ stream'[l].queue = Tail(stream[l].queue)
               /\ stream'[l].from = stream[l].from
         /\ got' \in [Viewers -> Seq(Events)]
         /\ \A v \in Viewers : v # l => got'[v] = got[v]
         /\ got'[l] = Append(got[l], Head(stream[l].queue))
<1>1. stream[l] \in Requests /\ stream[l].at = "open" /\ stream[l].queue # <<>>
      /\ stream[l].queue \in Seq(Events)
  BY DEF Yield, TypeOK, Requests
<1>2. Head(stream[l].queue) \in Events /\ Tail(stream[l].queue) \in Seq(Events)
  BY <1>1, TailFacts
<1>3. l \in Viewers /\ Append(got[l], Head(stream[l].queue)) \in Seq(Events)
  BY <1>2 DEF Viewers, TypeOK
<1>4. got' = [got EXCEPT ![l] = Append(@, Head(stream[l].queue))]
  BY DEF Yield
<1>5. Off("closed") \in Requests /\ Off("closed").at = "closed" /\ Off("closed").queue = <<>>
  BY DEF Off, Requests
<1> DEFINE rest == [stream[l] EXCEPT !.queue = Tail(stream[l].queue)]
<1>6. rest \in Requests /\ rest.at = "open" /\ rest.queue = Tail(stream[l].queue)
      /\ rest.from = stream[l].from
  BY <1>1, <1>2 DEF Requests
<1>7. \E new \in {Off("closed"), rest} : stream' = [stream EXCEPT ![l] = new]
  <2>1. CASE Head(stream[l].queue).type \in Terminal
    <3>1. stream' = [stream EXCEPT ![l] = Off("closed")]
      BY <2>1 DEF Yield
    <3> QED BY <3>1
  <2>2. CASE Head(stream[l].queue).type \notin Terminal
    <3>1. stream' = [stream EXCEPT ![l] = rest]
      BY <2>2 DEF Yield
    <3> QED BY <3>1
  <2> QED BY <2>1, <2>2
<1>8. PICK new \in {Off("closed"), rest} : stream' = [stream EXCEPT ![l] = new]
  BY <1>7
<1>9. stream' \in [Streams -> Requests] /\ stream'[l] = new
      /\ \A k \in Streams : k # l => stream'[k] = stream[k]
  BY <1>5, <1>6, <1>8 DEF TypeOK
<1>10. /\ got' \in [Viewers -> Seq(Events)]
       /\ \A v \in Viewers : v # l => got'[v] = got[v]
       /\ got'[l] = Append(got[l], Head(stream[l].queue))
  BY <1>3, <1>4 DEF TypeOK
<1> QED BY <1>1, <1>5, <1>6, <1>9, <1>10

-----------------------------------------------------------------------------
(* The viewers' half is kept by each step.                                 *)

\* The types of what viewers were sent and of what awaits them.
LEMMA SequenceTypes ==
  ASSUME TypeOK
  PROVE  /\ history \in Seq(Events) /\ Len(history) \in Nat
         /\ \A i \in 1..Len(history) : history[i] \in Events
         /\ \A w \in Sockets : w \in Viewers /\ w \notin Streams /\ got[w] \in Seq(Events)
                               /\ socket[w] \in Connections
                               /\ conns[w] \in Nat
         /\ \A l \in Streams : l \in Viewers /\ l \notin Sockets /\ got[l] \in Seq(Events)
                               /\ stream[l] \in Requests
                               /\ stream[l].queue \in Seq(Events)
BY EventsAssumption, ElementOfSeq DEF TypeOK, Viewers, Requests

\* A broadcast that begins keeps the viewers' half, if its event is new and
\* nothing that it must wait for is under way.
LEMMA BroadcastView ==
  ASSUME TypeOK, ViewInv, NEW e \in Emitters, Free(e), NEW ev \in Events, Broadcast(e, ev),
         conns' = conns, socket' = socket, got' = got,
         ~In(ev, history), NoneAwaits(ev, history),
         \A f \in Emitters : ~Free(f) => ~Precedes(sending[f].event, ev)
  PROVE  ViewInv'
<1>1. /\ history' = Append(history, ev) /\ history' \in Seq(Events)
      /\ Len(history') = Len(history) + 1 /\ history'[Len(history) + 1] = ev
      /\ \A i \in 1..Len(history) : history'[i] = history[i]
      /\ \A f \in Emitters : f # e => sending'[f] = sending[f]
  <2>1. history' = Append(history, ev) /\ history' \in Seq(Events)
        /\ \A f \in Emitters : f # e => sending'[f] = sending[f]
    BY BroadcastFacts
  <2> QED BY <2>1, SequenceTypes
<1>2. \/ conns = Nobody /\ sending'[e] = sending[e] /\ stream' = Fed(ev)
      \/ /\ conns # Nobody
         /\ sending'[e] = [event |-> ev, todo |-> conns, dead |-> Nobody]
         /\ stream' = stream
  BY BroadcastFacts
<1>3. \A f \in Emitters : Free(f)' \/ sending'[f].event = ev \/ (sending'[f] = sending[f] /\ ~Free(f))
  BY <1>1, <1>2 DEF Free
<1>4. /\ \A f \in Emitters, w \in Sockets :
           \/ sending'[f].todo[w] = sending[f].todo[w] /\ sending'[f].dead[w] = sending[f].dead[w]
              /\ sending'[f] = sending[f]
           \/ sending'[f].todo[w] = conns[w] /\ sending'[f].dead[w] = 0 /\ sending'[f].event = ev
  BY <1>1, <1>2 DEF Nobody
<1>5. HubInv'
  BY <1>4, SequenceTypes DEF ViewInv, HubInv
<1>6. Awaited'
  <2>1. Ordered(history')
    BY <1>1, OrderedAppend, SequenceTypes DEF ViewInv, Awaited
  <2>2. ASSUME NEW f \in Emitters, sending'[f].event = ev
        PROVE  In(sending'[f].event, history') /\ NoneAwaits(sending'[f].event, history')
    BY <1>1, <2>2, InAppend, NoneAwaitsAppend, StageFacts, SequenceTypes
  <2>3. ASSUME NEW f \in Emitters, sending'[f] = sending[f], ~Free(f)
        PROVE  In(sending'[f].event, history') /\ NoneAwaits(sending'[f].event, history')
    BY <1>1, <2>3, InAppend, NoneAwaitsAppend, SequenceTypes DEF ViewInv, Awaited
  <2> QED BY <1>3, <2>1, <2>2, <2>3 DEF Awaited
<1>7. SocketInv'
  <2> SUFFICES ASSUME NEW w \in Sockets
               PROVE  /\ socket[w].seen <= Len(history')
                      /\ socket[w].at = "away" => got[w] = <<>>
                      /\ Under(got[w], history')
                      /\ Ordered(got[w])
                      /\ \A f \in Emitters : sending'[f].todo[w] > 0 => ~In(sending'[f].event, got[w])
    BY DEF SocketInv
  <2>1. /\ socket[w].seen <= Len(history)
        /\ socket[w].at = "away" => got[w] = <<>>
        /\ Under(got[w], history) /\ Ordered(got[w])
        /\ \A f \in Emitters : sending[f].todo[w] > 0 => ~In(sending[f].event, got[w])
    BY DEF ViewInv, SocketInv
  <2>2. Under(got[w], history') /\ ~In(ev, got[w])
    BY <1>1, <2>1, UnderFacts, SequenceTypes
  <2>3. socket[w].seen <= Len(history')
    BY <1>1, <2>1, SequenceTypes DEF Connections
  <2> QED BY <1>4, <2>1, <2>2, <2>3
<1>8. ReplayInv'
  BY <1>1, SequenceTypes DEF ViewInv, SocketInv, ReplayInv, Connections
<1>9. SocketComplete'
  <2> SUFFICES ASSUME NEW w \in Sockets, socket[w].at = "live",
                      NEW i \in socket[w].from..Len(history')
               PROVE  \/ In(history'[i], got[w])
                      \/ \E f \in Emitters :
                           sending'[f].event = history'[i] /\ sending'[f].todo[w] > 0
    BY DEF SocketComplete
  <2>1. CASE i = Len(history) + 1
    <3>1. conns[w] = 1 /\ conns # Nobody
      BY DEF ViewInv, HubInv, Nobody
    <3>2. sending'[e].event = ev /\ sending'[e].todo[w] = 1
      BY <1>2, <3>1
    <3> QED BY <1>1, <2>1, <3>2
  <2>2. CASE i # Len(history) + 1
    <3>1. i \in socket[w].from..Len(history) /\ i \in 1..Len(history) /\ history'[i] = history[i]
      BY <1>1, <2>2, SequenceTypes DEF Connections
    <3>2. CASE In(history[i], got[w])
      BY <3>1, <3>2
    <3>3. CASE \E f \in Emitters : sending[f].event = history[i] /\ sending[f].todo[w] > 0
      <4>1. PICK f \in Emitters : sending[f].event = history[i] /\ sending[f].todo[w] > 0
        BY <3>3
      <4>2. f # e
        BY <3>1, <4>1, BusyFacts, SequenceTypes
      <4> QED BY <1>1, <3>1, <4>1, <4>2
    <3> QED BY <3>1, <3>2, <3>3 DEF ViewInv, SocketComplete
  <2> QED BY <2>1, <2>2
<1>10. \A l \in Streams :
         /\ stream'[l].at = stream[l].at /\ stream'[l].from = stream[l].from
         /\ \/ stream'[l].queue = stream[l].queue
            \/ /\ stream[l].at = "open" /\ conns = Nobody
               /\ stream'[l].queue = Append(stream[l].queue, ev)
  BY <1>2, FedFacts
<1>11. StreamInv'
  <2> SUFFICES ASSUME NEW l \in Streams
               PROVE  /\ stream'[l].at = "away" => got[l] = <<>>
                      /\ stream'[l].at # "open" => stream'[l].queue = <<>>
                      /\ Under(got[l], history') /\ Under(stream'[l].queue, history')
                      /\ Ordered(got[l]) /\ Ordered(stream'[l].queue)
                      /\ \A j \in 1..Len(stream'[l].queue) :
                           ~In(stream'[l].queue[j], got[l])
                           /\ NoneAwaits(stream'[l].queue[j], got[l])
                      /\ \A f \in Emitters : ~Free(f)' =>
                           ~In(sending'[f].event, got[l])
                           /\ ~In(sending'[f].event, stream'[l].queue)
    BY DEF StreamInv
  <2>1. /\ stream[l].at = "away" => got[l] = <<>>
        /\ stream[l].at # "open" => stream[l].queue = <<>>
        /\ Under(got[l], history) /\ Under(stream[l].queue, history)
        /\ Ordered(got[l]) /\ Ordered(stream[l].queue)
        /\ \A j \in 1..Len(stream[l].queue) :
             ~In(stream[l].queue[j], got[l]) /\ NoneAwaits(stream[l].queue[j], got[l])
        /\ \A f \in Emitters : ~Free(f) =>
             ~In(sending[f].event, got[l]) /\ ~In(sending[f].event, stream[l].queue)
    BY DEF ViewInv, StreamInv
  <2>2. /\ Under(got[l], history') /\ Under(stream[l].queue, history')
        /\ ~In(ev, got[l]) /\ ~In(ev, stream[l].queue)
        /\ NoneAwaits(ev, got[l]) /\ NoneAwaits(ev, stream[l].queue)
    BY <1>1, <2>1, UnderFacts, SequenceTypes
  <2>3. CASE stream'[l].queue = stream[l].queue
    <3>1. \A f \in Emitters : ~Free(f)' =>
             ~In(sending'[f].event, got[l]) /\ ~In(sending'[f].event, stream'[l].queue)
      BY <1>3, <2>1, <2>2, <2>3
    <3> QED BY <1>10, <2>1, <2>2, <2>3, <3>1
  <2>4. CASE stream[l].at = "open" /\ conns = Nobody /\ stream'[l].queue = Append(stream[l].queue, ev)
    <3>1. Ordered(stream'[l].queue)
      BY <2>1, <2>2, <2>4, OrderedAppend, SequenceTypes
    <3>2. Under(stream'[l].queue, history')
      <4>1. In(ev, history')
        BY <1>1, InAppend, SequenceTypes
      <4>2. stream[l].queue \in Seq(Events)
        BY SequenceTypes
      <4>3. Under(Append(stream[l].queue, ev), history')
        BY <1>1, <2>2, <4>1, <4>2, UnderFacts
      <4> QED BY <2>4, <4>3
    <3>3. ASSUME NEW j \in 1..Len(stream'[l].queue)
          PROVE  ~In(stream'[l].queue[j], got[l]) /\ NoneAwaits(stream'[l].queue[j], got[l])
      BY <2>1, <2>2, <2>4, SequenceTypes
    <3>4. ASSUME NEW f \in Emitters, ~Free(f)'
          PROVE  ~In(sending'[f].event, got[l]) /\ ~In(sending'[f].event, stream'[l].queue)
      <4>1. sending'[f] = sending[f] /\ ~Free(f)
        BY <1>1, <1>2, <2>4, <3>4 DEF Free
      <4>2. sending[f].event # ev
        BY <4>1 DEF ViewInv, Awaited
      <4> QED BY <2>1, <2>4, <4>1, <4>2, InAppend, SequenceTypes
    <3> QED BY <1>10, <2>1, <2>2, <2>4, <3>1, <3>2, <3>3, <3>4
  <2> QED BY <1>10, <2>3, <2>4
<1>12. StreamComplete'
  <2> SUFFICES ASSUME NEW l \in Streams, stream'[l].at = "open",
                      NEW i \in stream'[l].from..Len(history')
               PROVE  \/ In(history'[i], got[l]) \/ In(history'[i], stream'[l].queue)
                      \/ \E f \in Emitters : sending'[f].event = history'[i]
    BY DEF StreamComplete
  <2>1. CASE i = Len(history) + 1
    <3>1. CASE conns = Nobody
      <4>1. stream'[l].queue = Append(stream[l].queue, ev)
        BY <1>2, <1>10, <3>1, FedFacts
      <4> QED BY <1>1, <2>1, <4>1, InAppend, SequenceTypes
    <3>2. CASE conns # Nobody
      BY <1>1, <1>2, <2>1, <3>2
    <3> QED BY <3>1, <3>2
  <2>2. CASE i # Len(history) + 1
    <3>1. i \in stream[l].from..Len(history) /\ i \in 1..Len(history) /\ history'[i] = history[i]
      BY <1>1, <1>10, <2>2, SequenceTypes DEF Requests
    <3>2. CASE In(history[i], got[l])
      BY <3>1, <3>2
    <3>3. CASE In(history[i], stream[l].queue)
      <4>1. stream[l].queue \in Seq(Events)
        BY SequenceTypes
      <4>2. In(history[i], Append(stream[l].queue, ev))
        BY <3>3, <4>1, InAppend
      <4> QED BY <1>10, <3>1, <3>3, <4>2
    <3>4. CASE \E f \in Emitters : sending[f].event = history[i]
      <4>1. PICK f \in Emitters : sending[f].event = history[i]
        BY <3>4
      <4>2. f # e
        BY <3>1, <4>1, BusyFacts, SequenceTypes
      <4> QED BY <1>1, <3>1, <4>1, <4>2
    <3>5. \/ In(history[i], got[l]) \/ In(history[i], stream[l].queue)
          \/ \E f \in Emitters : sending[f].event = history[i]
      BY <1>10, <3>1 DEF ViewInv, StreamComplete
    <3> QED BY <3>2, <3>3, <3>4, <3>5
  <2> QED BY <2>1, <2>2
<1> QED BY <1>5, <1>6, <1>7, <1>8, <1>9, <1>11, <1>12 DEF ViewInv

\* No two emitters are at a broadcast of the same event.
LEMMA BusyDistinct ==
  ASSUME TypeOK, TasksInv, NEW e \in Emitters, NEW f \in Emitters, e # f,
         ~Free(e), ~Free(f)
  PROVE  sending[e].event # sending[f].event
<1>1. ASSUME NEW s \in Steps, ~Free(s)
      PROVE  sending[s].event.type = "step_start" /\ sending[s].event.by = s
  <2>1. sending[s].event = Event("step_start", s, TRUE)
    BY <1>1 DEF TasksInv
  <2> QED BY <2>1 DEF Event
<1>2. ~Free(Server) => sending[Server].event.type # "step_start"
  BY DEF TasksInv
<1> QED BY <1>1, <1>2 DEF Emitters

\* A send keeps the viewers' half.
LEMMA SendView ==
  ASSUME TypeOK, TasksInv, ViewInv, NEW e \in Emitters, SendNext(e)
  PROVE  ViewInv'
<1>1. history' = history /\ conns' = conns /\ socket' = socket /\ stream' = stream
  BY DEF SendNext
<1>2. ~Free(e) /\ sending[e] \in Broadcasts /\ sending[e].event \in Events
  BY SendFacts, BusyFacts DEF Broadcasts
<1>3. /\ sending' \in [Emitters -> Broadcasts \cup {NoBroadcast}]
      /\ \A f \in Emitters : f # e => sending'[f] = sending[f]
      /\ \A f \in Emitters : sending'[f].event = sending[f].event
  BY SendFacts
<1>4. PICK w \in Sockets :
        /\ sending[e].todo[w] > 0
        /\ sending'[e].todo[w] = sending[e].todo[w] - 1
        /\ \A u \in Sockets : u # w =>
             /\ sending'[e].todo[u] = sending[e].todo[u]
             /\ sending'[e].dead[u] = sending[e].dead[u]
        /\ \A v \in Viewers : v # w => got'[v] = got[v]
        /\ \/ /\ socket[w].at \in {"replaying", "live"}
              /\ sending'[e].dead[w] = sending[e].dead[w]
              /\ got'[w] = Append(got[w], sending[e].event)
           \/ /\ socket[w].at \notin {"replaying", "live"}
              /\ got' = got
  BY SendFacts
<1>5. \A f \in Emitters : Free(f)' <=> Free(f)
  <2>1. NoBroadcast.event \notin Events
    BY DEF NoBroadcast, Event, Events, WireTypes
  <2> QED BY <1>2, <1>3, <2>1 DEF Free
<1>6. /\ sending[e].todo[w] = 1 /\ sending'[e].todo[w] = 0
      /\ socket[w].at # "away"
      /\ \A f \in Emitters, u \in Sockets :
           sending'[f].todo[u] = IF f = e /\ u = w THEN 0 ELSE sending[f].todo[u]
  <2>1. sending[e].todo[w] <= 1 /\ sending[e].todo[w] \in Nat /\ socket[w].at # "away"
    BY <1>2, <1>4 DEF Broadcasts, ViewInv, HubInv
  <2> QED BY <1>3, <1>4, <2>1
<1>7. HubInv'
  <2> SUFFICES ASSUME NEW u \in Sockets, NEW f \in Emitters
               PROVE  /\ sending'[f].todo[u] <= 1
                      /\ sending'[f].todo[u] > 0 => socket[u].at # "away"
                      /\ sending'[f].dead[u] > 0 => socket[u].at \in {"gone", "left"}
    BY <1>1 DEF ViewInv, HubInv
  <2>1. /\ sending[f].todo[u] <= 1
        /\ sending[f].todo[u] > 0 => socket[u].at # "away"
        /\ sending[f].dead[u] > 0 => socket[u].at \in {"gone", "left"}
    BY DEF ViewInv, HubInv
  <2>2. socket[u] \in Connections
    BY SequenceTypes
  <2> QED BY <1>3, <1>4, <1>6, <2>1, <2>2 DEF Connections
<1>8. Awaited'
  BY <1>1, <1>3, <1>5 DEF ViewInv, Awaited
<1>9. SocketInv'
  <2> SUFFICES ASSUME NEW u \in Sockets
               PROVE  /\ socket[u].at = "away" => got'[u] = <<>>
                      /\ Under(got'[u], history)
                      /\ Ordered(got'[u])
                      /\ \A f \in Emitters : sending'[f].todo[u] > 0 => ~In(sending[f].event, got'[u])
    BY <1>1, <1>3 DEF ViewInv, SocketInv
  <2>1. /\ socket[u].at = "away" => got[u] = <<>>
        /\ Under(got[u], history) /\ Ordered(got[u])
        /\ \A f \in Emitters : sending[f].todo[u] > 0 => ~In(sending[f].event, got[u])
    BY DEF ViewInv, SocketInv
  <2>2. CASE got'[u] = got[u]
    BY <1>6, <2>1, <2>2
  <2>3. CASE u = w /\ got'[w] = Append(got[w], sending[e].event)
    <3>1. In(sending[e].event, history) /\ NoneAwaits(sending[e].event, history)
      BY <1>2 DEF ViewInv, Awaited
    <3>2. ~In(sending[e].event, got[w]) /\ NoneAwaits(sending[e].event, got[w])
      BY <1>4, <2>1, <2>3, <3>1, UnderFacts, SequenceTypes
    <3>3. Under(got'[w], history) /\ Ordered(got'[w])
      BY <1>2, <2>1, <2>3, <3>1, <3>2, UnderFacts, OrderedAppend, SequenceTypes
    <3>4. ASSUME NEW f \in Emitters, sending'[f].todo[w] > 0
          PROVE  ~In(sending[f].event, got'[w])
      <4>1. f # e /\ sending[f].todo[w] > 0
        BY <1>6, <3>4
      <4>2. sending[f].event # sending[e].event
        BY <1>2, <4>1, BusyFacts, BusyDistinct
      <4> QED BY <1>2, <2>1, <2>3, <4>1, <4>2, InAppend, SequenceTypes
    <3> QED BY <1>6, <2>3, <3>3, <3>4
  <2> QED BY <1>4, <2>2, <2>3, SequenceTypes
<1>10. ReplayInv'
  <2> SUFFICES ASSUME NEW u \in Sockets, socket[u].at = "replaying", socket[u].seen = Len(history)
               PROVE  got'[u] = got[u] /\ \A f \in Emitters : sending'[f].todo[u] = 0
    BY <1>1 DEF ViewInv, ReplayInv
  <2>1. \A f \in Emitters : sending[f].todo[u] = 0
    BY DEF ViewInv, ReplayInv
  <2> QED BY <1>4, <1>6, <2>1, SequenceTypes
<1>11. SocketComplete'
  <2> SUFFICES ASSUME NEW u \in Sockets, socket[u].at = "live",
                      NEW i \in socket[u].from..Len(history)
               PROVE  \/ In(history[i], got'[u])
                      \/ \E f \in Emitters :
                           sending[f].event = history[i] /\ sending'[f].todo[u] > 0
    BY <1>1, <1>3 DEF SocketComplete
  <2>1. CASE In(history[i], got[u])
    <3>1. CASE got'[u] = got[u]
      BY <2>1, <3>1
    <3>2. CASE u = w /\ got'[w] = Append(got[w], sending[e].event)
      BY <1>2, <2>1, <3>2, InAppend, SequenceTypes
    <3> QED BY <1>4, <3>1, <3>2, SequenceTypes
  <2>2. CASE \E f \in Emitters : sending[f].event = history[i] /\ sending[f].todo[u] > 0
    <3>1. PICK f \in Emitters : sending[f].event = history[i] /\ sending[f].todo[u] > 0
      BY <2>2
    <3>2. CASE f = e /\ u = w
      <4>1. got'[w] = Append(got[w], sending[e].event)
        BY <1>4, <3>2
      <4> QED BY <1>2, <3>1, <3>2, <4>1, InAppend, SequenceTypes
    <3> QED BY <1>6, <3>1, <3>2
  <2> QED BY <2>1, <2>2 DEF ViewInv, SocketComplete
<1>12. \A l \in Streams : got'[l] = got[l]
  BY <1>4, SequenceTypes
<1>13. StreamInv'
  BY <1>1, <1>3, <1>5, <1>12 DEF ViewInv, StreamInv
<1>14. StreamComplete'
  BY <1>1, <1>3, <1>12 DEF ViewInv, StreamComplete
<1> QED BY <1>7, <1>8, <1>9, <1>10, <1>11, <1>13, <1>14 DEF ViewInv

\* The end of a broadcast keeps the viewers' half.
LEMMA DeliveredView ==
  ASSUME TypeOK, TasksInv, ViewInv, NEW e \in Emitters, Delivered(e)
  PROVE  ViewInv'
<1> DEFINE ev == sending[e].event
<1>1. history' = history /\ socket' = socket /\ got' = got
  BY DEF Delivered
<1>2. /\ ~Free(e) /\ ev \in Events /\ sending'[e] = NoBroadcast
      /\ \A f \in Emitters : f # e => sending'[f] = sending[f]
      /\ \A w \in Sockets : sending[e].todo[w] = 0
      /\ conns' \in [Sockets -> Nat]
      /\ \A w \in Sockets : conns'[w] <= conns[w]
                            /\ (sending[e].dead[w] = 0 => conns'[w] = conns[w])
      /\ stream' = Fed(ev)
  BY DeliveredFacts
<1>3. /\ \A f \in Emitters : Free(f)' <=> Free(f) \/ f = e
      /\ \A f \in Emitters, w \in Sockets : sending'[f].todo[w] = sending[f].todo[w]
      /\ \A f \in Emitters, w \in Sockets :
           sending'[f].dead[w] = sending[f].dead[w] \/ sending'[f].dead[w] = 0
      /\ \A f \in Emitters : sending'[f].event = sending[f].event \/ f = e
  BY <1>2 DEF Free, NoBroadcast, Nobody
<1>4. HubInv'
  <2> SUFFICES ASSUME NEW w \in Sockets
               PROVE  /\ conns'[w] <= 1
                      /\ socket[w].at \in {"replaying", "live"} => conns'[w] = 1
                      /\ socket[w].at \in {"away", "left"} => conns'[w] = 0
                      /\ \A f \in Emitters :
                           /\ sending'[f].todo[w] <= 1
                           /\ sending'[f].todo[w] > 0 => socket[w].at # "away"
                           /\ sending'[f].dead[w] > 0 => socket[w].at \in {"gone", "left"}
    BY <1>1 DEF HubInv
  <2>1. /\ conns[w] <= 1
        /\ socket[w].at \in {"replaying", "live"} => conns[w] = 1
        /\ socket[w].at \in {"away", "left"} => conns[w] = 0
        /\ \A f \in Emitters :
             /\ sending[f].todo[w] <= 1
             /\ sending[f].todo[w] > 0 => socket[w].at # "away"
             /\ sending[f].dead[w] > 0 => socket[w].at \in {"gone", "left"}
    BY DEF ViewInv, HubInv
  <2>2. conns'[w] \in Nat /\ conns[w] \in Nat /\ sending[e].dead[w] \in Nat
    BY <1>2, BusyFacts, SequenceTypes DEF Broadcasts
  <2> QED BY <1>2, <1>3, <2>1, <2>2
<1>5. Awaited'
  BY <1>1, <1>3 DEF ViewInv, Awaited
<1>6. SocketInv'
  <2> SUFFICES ASSUME NEW w \in Sockets, NEW f \in Emitters, sending'[f].todo[w] > 0
               PROVE  ~In(sending'[f].event, got[w])
    BY <1>1 DEF ViewInv, SocketInv
  <2>1. f # e /\ sending[f].todo[w] > 0
    BY <1>2, <1>3
  <2> QED BY <1>2, <2>1 DEF ViewInv, SocketInv
<1>7. ReplayInv'
  BY <1>1, <1>3 DEF ViewInv, ReplayInv
<1>8. SocketComplete'
  <2> SUFFICES ASSUME NEW w \in Sockets, socket[w].at = "live",
                      NEW i \in socket[w].from..Len(history)
               PROVE  \/ In(history[i], got[w])
                      \/ \E f \in Emitters :
                           sending'[f].event = history[i] /\ sending'[f].todo[w] > 0
    BY <1>1 DEF SocketComplete
  <2>1. \/ In(history[i], got[w])
        \/ \E f \in Emitters : sending[f].event = history[i] /\ sending[f].todo[w] > 0
    BY DEF ViewInv, SocketComplete
  <2> QED BY <1>2, <1>3, <2>1
<1>9. \A l \in Streams :
        /\ stream'[l].at = stream[l].at /\ stream'[l].from = stream[l].from
        /\ stream[l].at = "open" => stream'[l].queue = Append(stream[l].queue, ev)
        /\ stream[l].at # "open" => stream'[l].queue = stream[l].queue
  BY <1>2, FedFacts
<1>10. ASSUME NEW l \in Streams
       PROVE  /\ stream'[l].at = "away" => got[l] = <<>>
              /\ stream'[l].at # "open" => stream'[l].queue = <<>>
              /\ Under(got[l], history) /\ Under(stream'[l].queue, history)
              /\ Ordered(got[l]) /\ Ordered(stream'[l].queue)
              /\ \A j \in 1..Len(stream'[l].queue) :
                   ~In(stream'[l].queue[j], got[l]) /\ NoneAwaits(stream'[l].queue[j], got[l])
              /\ \A f \in Emitters : ~Free(f)' =>
                   ~In(sending'[f].event, got[l]) /\ ~In(sending'[f].event, stream'[l].queue)
  <2>1. /\ stream[l].at = "away" => got[l] = <<>>
        /\ stream[l].at # "open" => stream[l].queue = <<>>
        /\ Under(got[l], history) /\ Under(stream[l].queue, history)
        /\ Ordered(got[l]) /\ Ordered(stream[l].queue)
        /\ \A j \in 1..Len(stream[l].queue) :
             ~In(stream[l].queue[j], got[l]) /\ NoneAwaits(stream[l].queue[j], got[l])
        /\ \A f \in Emitters : ~Free(f) =>
             ~In(sending[f].event, got[l]) /\ ~In(sending[f].event, stream[l].queue)
    BY DEF ViewInv, StreamInv
  <2>2. CASE stream[l].at # "open"
    BY <1>2, <1>3, <1>9, <2>1, <2>2
  <2>3. CASE stream[l].at = "open"
    <3>1. stream'[l].queue = Append(stream[l].queue, ev)
      BY <1>9, <2>3
    <3>2. In(ev, history) /\ NoneAwaits(ev, history)
      BY <1>2 DEF ViewInv, Awaited
    <3>3. /\ ~In(ev, got[l]) /\ NoneAwaits(ev, got[l])
          /\ ~In(ev, stream[l].queue) /\ NoneAwaits(ev, stream[l].queue)
      BY <1>2, <2>1, <3>2, UnderFacts, SequenceTypes
    <3>4. Ordered(stream'[l].queue)
      BY <1>2, <2>1, <3>1, <3>3, OrderedAppend, SequenceTypes
    <3>5. Under(stream'[l].queue, history)
      <4>1. stream[l].queue \in Seq(Events) /\ history \in Seq(Events)
        BY SequenceTypes
      <4>2. Under(Append(stream[l].queue, ev), history)
        BY <1>2, <2>1, <3>2, <4>1, UnderFacts
      <4> QED BY <3>1, <4>2
    <3>6. ASSUME NEW j \in 1..Len(stream'[l].queue)
          PROVE  ~In(stream'[l].queue[j], got[l]) /\ NoneAwaits(stream'[l].queue[j], got[l])
      BY <1>2, <2>1, <3>1, <3>3, SequenceTypes
    <3>7. ASSUME NEW f \in Emitters, ~Free(f)'
          PROVE  ~In(sending'[f].event, got[l]) /\ ~In(sending'[f].event, stream'[l].queue)
      <4>1. f # e /\ ~Free(f) /\ sending'[f] = sending[f]
        BY <1>2, <1>3, <3>7
      <4>2. sending[f].event # ev
        BY <1>2, <4>1, BusyDistinct
      <4>3. stream[l].queue \in Seq(Events) /\ ~In(sending[f].event, stream[l].queue)
        BY <2>1, <4>1, SequenceTypes
      <4>4. ~In(sending[f].event, Append(stream[l].queue, ev))
        BY <1>2, <4>2, <4>3, InAppend
      <4> QED BY <2>1, <3>1, <4>1, <4>4
    <3> QED BY <1>9, <2>1, <2>3, <3>4, <3>5, <3>6, <3>7
  <2> QED BY <2>2, <2>3
<1>11. StreamInv'
  BY <1>1, <1>10 DEF StreamInv
<1>12. StreamComplete'
  <2> SUFFICES ASSUME NEW l \in Streams, stream[l].at = "open",
                      NEW i \in stream[l].from..Len(history)
               PROVE  \/ In(history[i], got[l]) \/ In(history[i], stream'[l].queue)
                      \/ \E f \in Emitters : sending'[f].event = history[i]
    BY <1>1, <1>9 DEF StreamComplete
  <2>1. \/ In(history[i], got[l]) \/ In(history[i], stream[l].queue)
        \/ \E f \in Emitters : sending[f].event = history[i]
    BY DEF ViewInv, StreamComplete
  <2>2. stream[l].queue \in Seq(Events) /\ stream'[l].queue = Append(stream[l].queue, ev)
    BY <1>9, SequenceTypes
  <2>3. In(history[i], stream[l].queue) \/ history[i] = ev => In(history[i], stream'[l].queue)
    BY <1>2, <2>2, InAppend
  <2> QED BY <1>3, <2>1, <2>3
<1> QED BY <1>4, <1>5, <1>6, <1>7, <1>8, <1>11, <1>12 DEF ViewInv

\* A connection that joins keeps the viewers' half.
LEMMA ConnectView ==
  ASSUME TypeOK, ViewInv, NEW w \in Sockets, Connect(w)
  PROVE  ViewInv'
<1>1. history' = history /\ sending' = sending /\ stream' = stream /\ socket[w].at = "away"
  BY DEF Connect
<1>2. /\ conns' \in [Sockets -> Nat] /\ conns'[w] = conns[w] + 1
      /\ \A u \in Sockets : u # w => conns'[u] = conns[u] /\ socket'[u] = socket[u]
      /\ socket'[w].at = IF history = <<>> THEN "live" ELSE "replaying"
      /\ socket'[w].from = Oldest /\ socket'[w].next = Oldest + 1
      /\ socket'[w].seen = Len(history)
      /\ Oldest \in Nat \ {0} /\ (history # <<>> => Oldest \in 1..Len(history))
      /\ \A v \in Viewers : v # w => got'[v] = got[v]
      /\ got'[w] = IF history = <<>> THEN got[w] ELSE <<history[Oldest]>>
  BY ConnectFacts
<1>3. /\ conns[w] = 0 /\ got[w] = <<>>
      /\ \A e \in Emitters : sending[e].todo[w] = 0 /\ sending[e].dead[w] = 0
  <2>1. conns[w] = 0 /\ got[w] = <<>>
        /\ \A e \in Emitters : ~(sending[e].todo[w] > 0) /\ ~(sending[e].dead[w] > 0)
    BY <1>1 DEF ViewInv, HubInv, SocketInv
  <2>2. \A e \in Emitters : sending[e].todo[w] \in Nat /\ sending[e].dead[w] \in Nat
    BY BusyFacts DEF Broadcasts
  <2> QED BY <2>1, <2>2
<1>4. \A e \in Emitters : Free(e)' <=> Free(e)
  BY <1>1 DEF Free
<1>5. HubInv'
  BY <1>1, <1>2, <1>3 DEF ViewInv, HubInv
<1>6. Awaited'
  BY <1>1, <1>4 DEF ViewInv, Awaited
<1>7. /\ got'[w] \in Seq(Events) /\ Under(got'[w], history) /\ Ordered(got'[w])
      /\ history # <<>> => Len(got'[w]) = 1 /\ got'[w][1] = history[Oldest]
  <2>1. CASE history = <<>>
    BY <1>2, <1>3, <2>1 DEF Under, Ordered
  <2>2. CASE history # <<>>
    <3>1. got'[w] = <<history[Oldest]>> /\ history[Oldest] \in Events /\ Oldest \in 1..Len(history)
      BY <1>2, <2>2, SequenceTypes
    <3>2. Len(got'[w]) = 1 /\ got'[w][1] = history[Oldest] /\ got'[w] \in Seq(Events)
      BY <3>1
    <3>3. In(history[Oldest], history)
      BY <3>1 DEF In
    <3> QED BY <2>2, <3>2, <3>3 DEF Under, Ordered
  <2> QED BY <2>1, <2>2
<1>8. \A u \in Sockets : u # w => got'[u] = got[u]
  BY <1>2, SequenceTypes
<1>9. SocketInv'
  BY <1>1, <1>2, <1>3, <1>7, <1>8, SequenceTypes DEF ViewInv, SocketInv
<1>10. ReplayInv'
  <2> SUFFICES ASSUME NEW u \in Sockets, socket'[u].at = "replaying", socket'[u].seen = Len(history)
               PROVE  /\ \A e \in Emitters : sending[e].todo[u] = 0
                      /\ socket'[u].next > socket'[u].from /\ socket'[u].next <= Len(history) + 1
                      /\ Len(got'[u]) = socket'[u].next - socket'[u].from
                      /\ \A i \in 1..Len(got'[u]) : got'[u][i] = history[socket'[u].from + i - 1]
    BY <1>1 DEF ReplayInv
  <2>1. CASE u # w
    <3>1. socket'[u] = socket[u] /\ got'[u] = got[u]
      BY <1>2, <1>8, <2>1
    <3> QED BY <3>1 DEF ViewInv, ReplayInv
  <2>2. CASE u = w
    <3>1. history # <<>>
      BY <1>2, <2>2
    <3>2. /\ socket'[w].from = Oldest /\ socket'[w].next = Oldest + 1
          /\ Oldest \in 1..Len(history) /\ Len(history) \in Nat
      BY <1>2, <3>1, SequenceTypes
    <3>3. Len(got'[w]) = 1 /\ got'[w][1] = history[Oldest]
      BY <1>7, <3>1
    <3>4. ASSUME NEW i \in 1..Len(got'[w]) PROVE got'[w][i] = history[socket'[w].from + i - 1]
      <4>1. i = 1 /\ Oldest + 1 - 1 = Oldest
        BY <3>2, <3>3
      <4> QED BY <3>2, <3>3, <4>1
    <3>5. \A e \in Emitters : sending[e].todo[w] = 0
      BY <1>3
    <3> QED BY <2>2, <3>2, <3>3, <3>4, <3>5
  <2> QED BY <2>1, <2>2
<1>11. SocketComplete'
  <2> SUFFICES ASSUME NEW u \in Sockets, socket'[u].at = "live",
                      NEW i \in socket'[u].from..Len(history)
               PROVE  \/ In(history[i], got'[u])
                      \/ \E e \in Emitters :
                           sending[e].event = history[i] /\ sending[e].todo[u] > 0
    BY <1>1 DEF SocketComplete
  <2>1. CASE u # w
    <3>1. socket'[u] = socket[u] /\ got'[u] = got[u]
      BY <1>2, <1>8, <2>1
    <3> QED BY <3>1 DEF ViewInv, SocketComplete
  <2>2. CASE u = w
    <3>1. Len(history) = 0 /\ Oldest \in Nat \ {0}
      BY <1>2, <2>2
    <3> QED BY <1>2, <2>2, <3>1
  <2> QED BY <2>1, <2>2
<1>12. \A l \in Streams : got'[l] = got[l]
  BY <1>2, SequenceTypes
<1>13. StreamInv'
  BY <1>1, <1>4, <1>12 DEF ViewInv, StreamInv
<1>14. StreamComplete'
  BY <1>1, <1>12 DEF ViewInv, StreamComplete
<1> QED BY <1>5, <1>6, <1>9, <1>10, <1>11, <1>13, <1>14 DEF ViewInv

\* An endpoint that ends, and a peer that goes away, keep the viewers' half: the
\* connection is neither replaying nor live afterwards.
LEMMA DropView ==
  ASSUME TypeOK, ViewInv, NEW w \in Sockets,
         history' = history, sending' = sending, stream' = stream, got' = got,
         socket[w].at # "away",
         \A u \in Sockets : u # w => conns'[u] = conns[u] /\ socket'[u] = socket[u],
         socket'[w].at \in {"gone", "left"}, socket'[w].seen <= Len(history),
         conns'[w] = IF socket'[w].at = "left" THEN 0 ELSE conns[w]
  PROVE  ViewInv'
<1>1. \A e \in Emitters : Free(e)' <=> Free(e)
  BY DEF Free
<1>2. HubInv'
  BY DEF ViewInv, HubInv
<1>3. Awaited'
  BY <1>1 DEF ViewInv, Awaited
<1>4. SocketInv'
  BY DEF ViewInv, SocketInv
<1>5. ReplayInv'
  BY DEF ViewInv, ReplayInv
<1>6. SocketComplete'
  BY DEF ViewInv, SocketComplete
<1>7. StreamInv'
  BY <1>1 DEF ViewInv, StreamInv
<1>8. StreamComplete'
  BY DEF ViewInv, StreamComplete
<1> QED BY <1>2, <1>3, <1>4, <1>5, <1>6, <1>7, <1>8 DEF ViewInv

\* An undisturbed turn of a replay keeps the viewers' half.
LEMMA ReplayView ==
  ASSUME TypeOK, ViewInv, NEW w \in Sockets, Replay(w), socket[w].seen = Len(history)
  PROVE  ViewInv'
<1>1. history' = history /\ sending' = sending /\ stream' = stream
  BY DEF Replay
<1>2. /\ socket[w].at = "replaying" /\ conns' = conns
      /\ \A u \in Sockets : u # w => socket'[u] = socket[u]
      /\ socket'[w].from = socket[w].from /\ socket'[w].seen = socket[w].seen
      /\ \A v \in Viewers : v # w => got'[v] = got[v]
      /\ \/ /\ socket[w].next > Len(history)
            /\ socket'[w].at = "live" /\ got' = got
         \/ /\ socket[w].next \in 1..Len(history)
            /\ socket'[w].at = "replaying" /\ socket'[w].next = socket[w].next + 1
            /\ got'[w] = Append(got[w], history[socket[w].next])
  BY ReplayFacts
<1>3. /\ \A e \in Emitters : sending[e].todo[w] = 0
      /\ socket[w].next > socket[w].from /\ socket[w].next <= Len(history) + 1
      /\ Len(got[w]) = socket[w].next - socket[w].from
      /\ \A i \in 1..Len(got[w]) : got[w][i] = history[socket[w].from + i - 1]
      /\ Under(got[w], history) /\ Ordered(got[w])
  BY <1>2 DEF ViewInv, ReplayInv, SocketInv
<1>4. /\ socket[w].from \in Nat \ {0} /\ socket[w].next \in Nat \ {0}
      /\ Len(history) \in Nat /\ got[w] \in Seq(Events)
  BY SequenceTypes DEF Connections
<1>5. \A e \in Emitters : Free(e)' <=> Free(e)
  BY <1>1 DEF Free
<1>6. \A u \in Sockets : u # w => got'[u] = got[u]
  BY <1>2, SequenceTypes
<1>7. HubInv'
  BY <1>1, <1>2, <1>3 DEF ViewInv, HubInv
<1>8. Awaited'
  BY <1>1, <1>5 DEF ViewInv, Awaited
<1> DEFINE next == history[socket[w].next]
<1>9. ASSUME socket[w].next \in 1..Len(history), socket'[w].at = "replaying",
             socket'[w].next = socket[w].next + 1, got'[w] = Append(got[w], next)
      PROVE  SocketInv' /\ ReplayInv' /\ SocketComplete'
  <2>1. next \in Events /\ In(next, history)
    BY <1>9, SequenceTypes DEF In
  <2>2. ASSUME NEW i \in 1..Len(got[w])
        PROVE  got[w][i] # next /\ ~Precedes(next, got[w][i])
    <3>1. /\ socket[w].from + i - 1 \in 1..Len(history)
          /\ socket[w].from + i - 1 < socket[w].next
      BY <1>3, <1>4
    <3> QED BY <1>3, <1>9, <3>1 DEF ViewInv, Awaited, Ordered
  <2>3. ~In(next, got[w]) /\ NoneAwaits(next, got[w])
    BY <2>2 DEF In, NoneAwaits
  <2>4. Ordered(Append(got[w], next)) /\ Under(Append(got[w], next), history)
    BY <1>3, <1>4, <2>1, <2>3, OrderedAppend, UnderFacts, SequenceTypes
  <2>5. SocketInv'
    <3> SUFFICES ASSUME NEW u \in Sockets
                 PROVE  /\ socket'[u].seen <= Len(history)
                        /\ socket'[u].at = "away" => got'[u] = <<>>
                        /\ Under(got'[u], history) /\ Ordered(got'[u])
                        /\ \A e \in Emitters :
                             sending[e].todo[u] > 0 => ~In(sending[e].event, got'[u])
      BY <1>1 DEF SocketInv
    <3>1. /\ socket[u].seen <= Len(history)
          /\ socket[u].at = "away" => got[u] = <<>>
          /\ Under(got[u], history) /\ Ordered(got[u])
          /\ \A e \in Emitters : sending[e].todo[u] > 0 => ~In(sending[e].event, got[u])
      BY DEF ViewInv, SocketInv
    <3>2. CASE u # w
      BY <1>2, <1>6, <3>1, <3>2
    <3>3. CASE u = w
      <4>1. /\ socket'[w].seen <= Len(history) /\ socket'[w].at # "away"
            /\ Under(got'[w], history) /\ Ordered(got'[w])
        BY <1>2, <1>9, <2>4, <3>1, <3>3
      <4>2. \A e \in Emitters : ~(sending[e].todo[w] > 0)
        BY <1>3
      <4> QED BY <3>3, <4>1, <4>2
    <3> QED BY <3>2, <3>3
  <2>6. ReplayInv'
    <3> SUFFICES ASSUME NEW u \in Sockets, socket'[u].at = "replaying",
                        socket'[u].seen = Len(history)
                 PROVE  /\ \A e \in Emitters : sending[e].todo[u] = 0
                        /\ socket'[u].next > socket'[u].from
                        /\ socket'[u].next <= Len(history) + 1
                        /\ Len(got'[u]) = socket'[u].next - socket'[u].from
                        /\ \A i \in 1..Len(got'[u]) :
                             got'[u][i] = history[socket'[u].from + i - 1]
      BY <1>1 DEF ReplayInv
    <3>1. CASE u # w
      <4>1. socket'[u] = socket[u] /\ got'[u] = got[u]
        BY <1>2, <1>6, <3>1
      <4> QED BY <4>1 DEF ViewInv, ReplayInv
    <3>2. CASE u = w
      <4>1. Len(got'[w]) = Len(got[w]) + 1 /\ got'[w][Len(got[w]) + 1] = next
            /\ \A i \in 1..Len(got[w]) : got'[w][i] = got[w][i]
        BY <1>4, <1>9, <2>1
      <4>2. ASSUME NEW i \in 1..Len(got'[w])
            PROVE  got'[w][i] = history[socket'[w].from + i - 1]
        <5>1. CASE i \in 1..Len(got[w])
          BY <1>2, <1>3, <4>1, <5>1
        <5>2. CASE i = Len(got[w]) + 1
          <6>1. socket[w].from + i - 1 = socket[w].next
            BY <1>3, <1>4, <5>2
          <6> QED BY <1>2, <4>1, <5>2, <6>1
        <5> QED BY <1>4, <4>1, <5>1, <5>2
      <4>3. /\ socket'[w].next > socket'[w].from
            /\ socket'[w].next <= Len(history) + 1
            /\ Len(got'[w]) = socket'[w].next - socket'[w].from
        BY <1>2, <1>3, <1>4, <1>9, <4>1
      <4> QED BY <1>3, <3>2, <4>2, <4>3
    <3> QED BY <3>1, <3>2
  <2>7. SocketComplete'
    <3> SUFFICES ASSUME NEW u \in Sockets, socket'[u].at = "live",
                        NEW i \in socket'[u].from..Len(history)
                 PROVE  \/ In(history[i], got'[u])
                        \/ \E e \in Emitters :
                             sending[e].event = history[i] /\ sending[e].todo[u] > 0
      BY <1>1 DEF SocketComplete
    <3>1. u # w /\ socket'[u] = socket[u] /\ got'[u] = got[u]
      BY <1>2, <1>6, <1>9
    <3> QED BY <3>1 DEF ViewInv, SocketComplete
  <2> QED BY <2>5, <2>6, <2>7
<1>10. ASSUME socket[w].next > Len(history), socket'[w].at = "live", got' = got
       PROVE  SocketInv' /\ ReplayInv' /\ SocketComplete'
  <2>1. SocketInv'
    BY <1>1, <1>2, <1>10 DEF ViewInv, SocketInv
  <2>2. ReplayInv'
    BY <1>1, <1>2, <1>10 DEF ViewInv, ReplayInv
  <2>3. ASSUME NEW i \in socket[w].from..Len(history) PROVE In(history[i], got[w])
    <3>1. i - socket[w].from + 1 \in 1..Len(got[w])
          /\ socket[w].from + (i - socket[w].from + 1) - 1 = i
      BY <1>3, <1>4, <1>10
    <3>2. got[w][i - socket[w].from + 1] = history[i]
      BY <1>3, <3>1
    <3> QED BY <3>1, <3>2 DEF In
  <2>4. SocketComplete'
    BY <1>1, <1>2, <1>10, <2>3 DEF ViewInv, SocketComplete
  <2> QED BY <2>1, <2>2, <2>4
<1>11. SocketInv' /\ ReplayInv' /\ SocketComplete'
  BY <1>2, <1>9, <1>10
<1>12. \A l \in Streams : got'[l] = got[l]
  BY <1>2, SequenceTypes
<1>13. StreamInv'
  BY <1>1, <1>5, <1>12 DEF ViewInv, StreamInv
<1>14. StreamComplete'
  BY <1>1, <1>12 DEF ViewInv, StreamComplete
<1> QED BY <1>7, <1>8, <1>11, <1>13, <1>14 DEF ViewInv

\* What a step of one stream has to establish to keep the viewers' half.
LEMMA StreamStep ==
  ASSUME TypeOK, ViewInv, NEW l \in Streams,
         history' = history, sending' = sending, conns' = conns, socket' = socket,
         \A k \in Streams : k # l => stream'[k] = stream[k],
         \A v \in Viewers : v # l => got'[v] = got[v],
         stream'[l].at # "away",
         stream'[l].at # "open" => stream'[l].queue = <<>>,
         Under(got'[l], history), Under(stream'[l].queue, history),
         Ordered(got'[l]), Ordered(stream'[l].queue),
         \A j \in 1..Len(stream'[l].queue) :
           ~In(stream'[l].queue[j], got'[l]) /\ NoneAwaits(stream'[l].queue[j], got'[l]),
         \A e \in Emitters : ~Free(e) =>
           ~In(sending[e].event, got'[l]) /\ ~In(sending[e].event, stream'[l].queue),
         stream'[l].at = "open" =>
           \A i \in stream'[l].from..Len(history) :
             \/ In(history[i], got'[l]) \/ In(history[i], stream'[l].queue)
             \/ \E e \in Emitters : sending[e].event = history[i]
  PROVE  ViewInv'
<1>1. \A e \in Emitters : Free(e)' <=> Free(e)
  BY DEF Free
<1>2. /\ \A w \in Sockets : got'[w] = got[w]
      /\ \A k \in Streams : k # l => got'[k] = got[k]
  BY SequenceTypes
<1>3. HubInv'
  BY DEF ViewInv, HubInv
<1>4. Awaited'
  BY <1>1 DEF ViewInv, Awaited
<1>5. SocketInv'
  BY <1>2 DEF ViewInv, SocketInv
<1>6. ReplayInv'
  BY <1>2 DEF ViewInv, ReplayInv
<1>7. SocketComplete'
  BY <1>2 DEF ViewInv, SocketComplete
<1>8. StreamInv'
  <2> SUFFICES ASSUME NEW k \in Streams, k # l
               PROVE  /\ stream'[k].at = "away" => got'[k] = <<>>
                      /\ stream'[k].at # "open" => stream'[k].queue = <<>>
                      /\ Under(got'[k], history) /\ Under(stream'[k].queue, history)
                      /\ Ordered(got'[k]) /\ Ordered(stream'[k].queue)
                      /\ \A j \in 1..Len(stream'[k].queue) :
                           ~In(stream'[k].queue[j], got'[k])
                           /\ NoneAwaits(stream'[k].queue[j], got'[k])
                      /\ \A e \in Emitters : ~Free(e) =>
                           ~In(sending[e].event, got'[k])
                           /\ ~In(sending[e].event, stream'[k].queue)
    BY <1>1 DEF StreamInv
  <2> QED BY <1>2 DEF ViewInv, StreamInv
<1>9. StreamComplete'
  BY <1>2 DEF ViewInv, StreamComplete
<1> QED BY <1>3, <1>4, <1>5, <1>6, <1>7, <1>8, <1>9 DEF ViewInv

\* A stream that is opened, or whose request is cancelled.
LEMMA SubscribeView ==
  ASSUME TypeOK, ViewInv, NEW l \in Streams, Subscribe(l) \/ Unsubscribe(l)
  PROVE  ViewInv' /\ stream' \in [Streams -> Requests]
<1>1. /\ history' = history /\ sending' = sending /\ conns' = conns
      /\ socket' = socket /\ got' = got
  BY DEF Subscribe, Unsubscribe
<1>2. /\ Under(got[l], history) /\ Ordered(got[l])
      /\ stream[l].at = "away" => got[l] = <<>>
      /\ \A e \in Emitters : ~Free(e) => ~In(sending[e].event, got[l])
  BY DEF ViewInv, StreamInv
<1>3. Len(history) \in Nat
  BY SequenceTypes
<1>4. Under(<<>>, history) /\ Ordered(<<>>) /\ \A x : ~In(x, <<>>)
  BY DEF Under, Ordered, In
<1>5. PICK new \in Requests :
        /\ stream' = [stream EXCEPT ![l] = new]
        /\ new.at # "away" /\ new.queue = <<>>
        /\ new.at = "open" => new.from = Len(history) + 1
  <2>1. CASE Subscribe(l)
    <3>1. [at |-> "open", from |-> Len(history) + 1, queue |-> <<>>] \in Requests
      BY <1>3 DEF Requests
    <3> QED BY <2>1, <3>1 DEF Subscribe
  <2>2. CASE Unsubscribe(l)
    <3>1. Off("closed") \in Requests /\ Off("closed").at = "closed" /\ Off("closed").queue = <<>>
      BY DEF Off, Requests
    <3> QED BY <2>2, <3>1 DEF Unsubscribe
  <2> QED BY <2>1, <2>2
<1>6. /\ stream' \in [Streams -> Requests] /\ stream'[l] = new
      /\ \A k \in Streams : k # l => stream'[k] = stream[k]
  BY <1>5 DEF TypeOK
<1>7. ViewInv'
  BY <1>1, <1>2, <1>3, <1>4, <1>5, <1>6, StreamStep
<1> QED BY <1>6, <1>7

\* A stream that yields its next event.
LEMMA YieldView ==
  ASSUME TypeOK, ViewInv, NEW l \in Streams, Yield(l)
  PROVE  ViewInv'
<1>1. history' = history /\ sending' = sending /\ conns' = conns /\ socket' = socket
  BY DEF Yield
<1> DEFINE queue == stream[l].queue
           ev    == Head(queue)
<1>2. /\ stream[l].at = "open" /\ queue # <<>> /\ queue \in Seq(Events)
      /\ \A k \in Streams : k # l => stream'[k] = stream[k]
      /\ \/ stream'[l].at = "closed" /\ stream'[l].queue = <<>>
         \/ /\ stream'[l].at = "open" /\ stream'[l].queue = Tail(queue)
            /\ stream'[l].from = stream[l].from
      /\ \A v \in Viewers : v # l => got'[v] = got[v]
      /\ got'[l] = Append(got[l], ev)
  BY YieldFacts
<1>3. /\ Under(got[l], history) /\ Under(queue, history)
      /\ Ordered(got[l]) /\ Ordered(queue)
      /\ \A j \in 1..Len(queue) : ~In(queue[j], got[l]) /\ NoneAwaits(queue[j], got[l])
      /\ \A e \in Emitters : ~Free(e) =>
           ~In(sending[e].event, got[l]) /\ ~In(sending[e].event, queue)
  BY DEF ViewInv, StreamInv
<1>4. /\ got[l] \in Seq(Events) /\ history \in Seq(Events) /\ ev \in Events
      /\ Tail(queue) \in Seq(Events) /\ ev = queue[1] /\ 1 \in 1..Len(queue)
      /\ \A j \in 1..Len(Tail(queue)) : j + 1 \in 1..Len(queue) /\ Tail(queue)[j] = queue[j + 1]
  BY <1>2, TailFacts, SequenceTypes
<1>5. /\ Ordered(Tail(queue))
      /\ \A x : In(x, queue) <=> x = ev \/ In(x, Tail(queue))
      /\ \A j \in 1..Len(Tail(queue)) : Tail(queue)[j] # ev /\ ~Precedes(Tail(queue)[j], ev)
  BY <1>2, <1>3, OrderedTail
<1> HIDE DEF ev, queue
<1>6. Ordered(got'[l])
  BY <1>2, <1>3, <1>4, OrderedAppend
<1>7. Under(got'[l], history)
  <2>1. In(ev, history)
    BY <1>3, <1>4 DEF Under
  <2> QED BY <1>2, <1>3, <1>4, <2>1, UnderFacts
<1>8. Under(Tail(queue), history)
  BY <1>3, <1>4 DEF Under
<1>9. ASSUME NEW j \in 1..Len(Tail(queue))
      PROVE  ~In(Tail(queue)[j], got'[l]) /\ NoneAwaits(Tail(queue)[j], got'[l])
  <2>1. ~In(Tail(queue)[j], got[l]) /\ NoneAwaits(Tail(queue)[j], got[l])
    BY <1>3, <1>4
  <2> QED BY <1>2, <1>4, <1>5, <2>1, InAppend, NoneAwaitsAppend
<1>10. \A x : In(x, got'[l]) <=> In(x, got[l]) \/ x = ev
  BY <1>2, <1>4, InAppend
<1>11. \A e \in Emitters : ~Free(e) =>
         ~In(sending[e].event, got'[l]) /\ ~In(sending[e].event, Tail(queue))
  BY <1>3, <1>5, <1>10
<1>12. \A i \in stream[l].from..Len(history) :
         \/ In(history[i], got'[l]) \/ In(history[i], Tail(queue))
         \/ \E e \in Emitters : sending[e].event = history[i]
  BY <1>2, <1>5, <1>10 DEF ViewInv, StreamComplete, queue
<1>13. Under(<<>>, history) /\ Ordered(<<>>) /\ \A x : ~In(x, <<>>)
  BY DEF Under, Ordered, In
<1>14. CASE stream'[l].at = "closed" /\ stream'[l].queue = <<>>
  <2>1. \A j \in 1..Len(stream'[l].queue) : FALSE
    BY <1>14
  <2>2. Under(stream'[l].queue, history) /\ Ordered(stream'[l].queue)
        /\ \A e \in Emitters : ~Free(e) =>
             ~In(sending[e].event, got'[l]) /\ ~In(sending[e].event, stream'[l].queue)
    BY <1>11, <1>13, <1>14
  <2>3. stream'[l].at # "away" /\ stream'[l].at # "open"
    BY <1>14
  <2> QED BY <1>1, <1>2, <1>6, <1>7, <1>14, <2>1, <2>2, <2>3, StreamStep
<1>15. CASE /\ stream'[l].at = "open" /\ stream'[l].queue = Tail(queue)
            /\ stream'[l].from = stream[l].from
  BY <1>1, <1>2, <1>5, <1>6, <1>7, <1>8, <1>9, <1>11, <1>12, <1>15, StreamStep
<1> QED BY <1>2, <1>14, <1>15 DEF queue

\* A step that touches neither the hub nor a viewer.
LEMMA IdleView ==
  ASSUME ViewInv, history' = history, sending' = sending, conns' = conns,
         socket' = socket, stream' = stream, got' = got
  PROVE  ViewInv'
<1>1. \A e \in Emitters : Free(e)' <=> Free(e)
  BY DEF Free
<1>2. HubInv' /\ ReplayInv' /\ SocketComplete' /\ StreamComplete'
  BY DEF ViewInv, HubInv, ReplayInv, SocketComplete, StreamComplete
<1>3. Awaited' /\ SocketInv' /\ StreamInv'
  BY <1>1 DEF ViewInv, Awaited, SocketInv, StreamInv
<1> QED BY <1>2, <1>3 DEF ViewInv

\* The viewers' half holds before the run has emitted anything.
LEMMA InitView ==
  ASSUME Init
  PROVE  ViewInv
<1>1. /\ history = <<>> /\ conns = Nobody
      /\ \A e \in Emitters : Free(e)
      /\ \A e \in Emitters, w \in Sockets : sending[e].todo[w] = 0 /\ sending[e].dead[w] = 0
      /\ \A w \in Sockets : socket[w].at = "away" /\ socket[w].seen = 0 /\ got[w] = <<>>
      /\ \A l \in Streams : stream[l].at = "away" /\ stream[l].queue = <<>> /\ got[l] = <<>>
  BY DEF Init, Apart, Off, Viewers, Free, NoBroadcast, Nobody
<1>2. \A seq : Under(<<>>, seq) /\ Ordered(<<>>) /\ Len(history) = 0
  BY <1>1 DEF Under, Ordered
<1>3. HubInv
  BY <1>1 DEF HubInv, Nobody
<1>4. Awaited
  BY <1>1, <1>2 DEF Awaited
<1>5. SocketInv
  BY <1>1, <1>2 DEF SocketInv
<1>6. ReplayInv /\ SocketComplete /\ StreamComplete
  BY <1>1 DEF ReplayInv, SocketComplete, StreamComplete
<1>7. StreamInv
  BY <1>1, <1>2 DEF StreamInv
<1> QED BY <1>3, <1>4, <1>5, <1>6, <1>7 DEF ViewInv

-----------------------------------------------------------------------------
(* The run's half, and the type invariant.                                 *)

\* The events the run emits, and their stages.
LEMMA EventFacts ==
  /\ Event("workflow_start", Server, TRUE) \in Events
  /\ Stage(Event("workflow_start", Server, TRUE)) = 1
  /\ Event("workflow_start", "engine", TRUE) \in Events
  /\ Stage(Event("workflow_start", "engine", TRUE)) = 2
  /\ \A s \in Steps :
       Event("step_start", s, TRUE) \in Events /\ Stage(Event("step_start", s, TRUE)) = 3
  /\ \A s \in Steps, timed \in BOOLEAN :
       Event("step_end", s, timed) \in Events /\ Stage(Event("step_end", s, timed)) = 3
  /\ Event("workflow_end", "engine", TRUE) \in Events
  /\ Stage(Event("workflow_end", "engine", TRUE)) = 4
  /\ Event("workflow_end", Server, TRUE) \in Events
  /\ Stage(Event("workflow_end", Server, TRUE)) = 5
  /\ Event("evaluation_start", Server, TRUE) \in Events
  /\ Stage(Event("evaluation_start", Server, TRUE)) = 6
  /\ Event("evaluation_complete", Server, TRUE) \in Events
  /\ Stage(Event("evaluation_complete", Server, TRUE)) = 7
  /\ Event("error", Server, TRUE) \in Events
BY EventsAssumption DEF Event, Events, WireTypes, Emitters, Stage

\* A step of a viewer or of a broadcast keeps the run's half.
LEMMA RunKept ==
  ASSUME RunInv, main' = main, task' = task, history' = history,
         \A e \in Emitters : ~Free(e)' => ~Free(e) /\ sending'[e].event = sending[e].event
  PROVE  RunInv'
<1>1. TasksInv'
  BY DEF RunInv, TasksInv, Emitters
<1>2. StagesInv'
  BY DEF RunInv, StagesInv
<1> QED BY <1>1, <1>2 DEF RunInv

\* An event of a later stage than any so far is new, and nothing awaits it.
LEMMA LaterFresh ==
  ASSUME TypeOK, StagesInv, NEW ev \in Events, Stage(ev) > LastStage(main)
  PROVE  ~In(ev, history) /\ NoneAwaits(ev, history)
<1> SUFFICES ASSUME NEW i \in 1..Len(history)
             PROVE  history[i] # ev /\ ~Precedes(ev, history[i])
  BY DEF In, NoneAwaits
<1>1. history[i] \in Events /\ Stage(history[i]) \in 1..7 /\ Stage(ev) \in 1..7
  BY StageFacts, SequenceTypes
<1>2. Stage(history[i]) <= LastStage(main) /\ LastStage(main) \in 0..7
  BY DEF StagesInv, LastStage
<1>3. Stage(history[i]) < Stage(ev)
  BY <1>1, <1>2
<1>4. ~(ev.type = "step_start" /\ history[i].type = "step_end")
  BY <1>1, <1>3 DEF Stage
<1> QED BY <1>1, <1>3, <1>4 DEF Precedes

\* What Emit() does: the event is broadcast, or it is refused and the run fails.
LEMMA EmitFacts ==
  ASSUME NEW from, NEW ev, NEW to, Emit(from, ev, to)
  PROVE  /\ main = from /\ Free(Server) /\ setup' = setup
         /\ conns' = conns /\ socket' = socket /\ got' = got
         /\ \/ Valid(ev) /\ Broadcast(Server, ev) /\ main' = to
            \/ /\ ~Valid(ev)
               /\ main' \in {"failing", "died"}
               /\ history' = history /\ sending' = sending /\ stream' = stream
BY DEF Emit

\* The types after the background task has emitted something.
LEMMA EmitTypes ==
  ASSUME TypeOK, NEW from, NEW to \in {"engine", "steps", "reported", "judging",
                                       "scoring", "logging", "died"},
         NEW ev \in Events, Emit(from, ev, to),
         task' \in [Steps -> {"none", "ready", "started", "done", "early", "ended"}]
  PROVE  TypeOK'
<1>1. CASE Broadcast(Server, ev) /\ main' = to
  <2>1. /\ history' \in Seq(Events)
        /\ sending' \in [Emitters -> Broadcasts \cup {NoBroadcast}]
        /\ stream' \in [Streams -> Requests]
    BY <1>1, EmitFacts, BroadcastFacts DEF Emitters
  <2> QED BY <1>1, <2>1, EmitFacts DEF TypeOK
<1>2. CASE /\ main' \in {"failing", "died"}
           /\ history' = history /\ sending' = sending /\ stream' = stream
  BY <1>2, EmitFacts DEF TypeOK
<1> QED BY <1>1, <1>2, EmitFacts

\* A stage at which the background task emits one event, and no task of a step
\* is under way, keeps the invariant.
LEMMA StageStep ==
  ASSUME IInv, NEW from, NEW to \in {"engine", "steps", "reported", "judging",
                                     "scoring", "logging", "died"},
         NEW ev \in Events, Emit(from, ev, to), task' = task,
         Stage(ev) > LastStage(from), Stage(ev) <= LastStage(to),
         ev.type \notin {"step_start", "step_end"},
         \/ (\A s \in Steps : task[s] = "none") /\ Stage(ev) <= 3 /\ to \in {"engine", "steps"}
         \/ (\A s \in Steps : task[s] = "ended") /\ Stage(ev) >= 3 /\ to # "engine"
  PROVE  IInv'
<1>1. TypeOK'
  BY EmitTypes DEF IInv, TypeOK
<1>2. /\ main = from /\ Free(Server)
      /\ conns' = conns /\ socket' = socket /\ got' = got
  BY EmitFacts
<1>3. \A s \in Steps : Free(s)
  BY DEF IInv, RunInv, TasksInv
<1>4. CASE /\ main' \in {"failing", "died"}
           /\ history' = history /\ sending' = sending /\ stream' = stream
  <2>1. ViewInv'
    BY <1>2, <1>4, IdleView DEF IInv
  <2>2. TasksInv'
    BY <1>2, <1>3, <1>4 DEF TasksInv, Free
  <2>3. LastStage(main') = 7 /\ \A i \in 1..Len(history) : Stage(history[i]) <= 7
    BY <1>4, StageFacts, SequenceTypes DEF LastStage, IInv
  <2>4. StagesInv'
    BY <1>4, <2>3 DEF IInv, RunInv, StagesInv
  <2> QED BY <1>1, <2>1, <2>2, <2>4 DEF IInv, RunInv
<1>5. CASE Broadcast(Server, ev) /\ main' = to
  <2>1. ~In(ev, history) /\ NoneAwaits(ev, history)
    BY <1>2, LaterFresh DEF IInv, RunInv
  <2>2. \A f \in Emitters : Free(f)
    BY <1>2, <1>3 DEF Emitters
  <2>3. Server \in Emitters /\ \A s \in Steps : s \in Emitters /\ s # Server
    BY EventsAssumption DEF Emitters
  <2>4. ViewInv'
    BY <1>2, <1>5, <2>1, <2>2, <2>3, BroadcastView DEF IInv
  <2>5. /\ history' = Append(history, ev)
        /\ \A s \in Steps : sending'[s] = sending[s]
        /\ sending'[Server] = sending[Server] \/ sending'[Server].event = ev
    <3>1. /\ history' = Append(history, ev)
          /\ \A f \in Emitters : f # Server => sending'[f] = sending[f]
          /\ \/ sending'[Server] = sending[Server]
             \/ sending'[Server] = [event |-> ev, todo |-> conns, dead |-> Nobody]
      BY <1>2, <1>5, <2>3, BroadcastFacts DEF IInv
    <3> QED BY <2>3, <3>1
  <2>6. TasksInv'
    BY <1>2, <1>3, <1>5, <2>5 DEF TasksInv, Free
  <2>7. LastStage(from) < LastStage(to) /\ LastStage(from) \in 0..7 /\ LastStage(to) \in 0..7
    BY StageFacts DEF LastStage
  <2>8. ASSUME NEW i \in 1..Len(history')
        PROVE  \/ history'[i] = ev
               \/ i \in 1..Len(history) /\ history'[i] = history[i] /\ history[i] \in Events
    BY <2>5, <2>8, SequenceTypes DEF IInv
  <2>9. StagesInv'
    <3> SUFFICES ASSUME NEW i \in 1..Len(history')
                 PROVE  /\ Stage(history'[i]) <= LastStage(to)
                        /\ Stage(history'[i]) > 3 => \A s \in Steps : task[s] = "ended"
                        /\ history'[i].type = "step_start" =>
                             history'[i].by \in Steps /\ task[history'[i].by] \notin {"none", "ready"}
                        /\ history'[i].type = "step_end" =>
                             history'[i].by \in Steps /\ task[history'[i].by] = "ended"
      BY <1>5 DEF StagesInv
    <3>1. CASE history'[i] = ev
      BY <3>1, StageFacts
    <3>2. CASE i \in 1..Len(history) /\ history'[i] = history[i] /\ history[i] \in Events
      <4>1. Stage(history[i]) <= LastStage(from) /\ Stage(history[i]) \in 1..7
        BY <1>2, <3>2, StageFacts DEF IInv, RunInv, StagesInv
      <4>2. Stage(history[i]) <= LastStage(to)
        BY <2>7, <4>1
      <4> QED BY <3>2, <4>2 DEF IInv, RunInv, StagesInv
    <3> QED BY <2>8, <3>1, <3>2
  <2> QED BY <1>1, <2>4, <2>6, <2>9 DEF IInv, RunInv
<1> QED BY <1>4, <1>5, EmitFacts

\* A step's task that emits its step_start keeps the invariant.
LEMMA StepStartsKeeps ==
  ASSUME IInv, NEW s \in Steps, StepStarts(s)
  PROVE  IInv'
<1> DEFINE ev == Event("step_start", s, TRUE)
<1>1. /\ task[s] = "ready" /\ Broadcast(s, ev) /\ task' = [task EXCEPT ![s] = "started"]
      /\ main' = main /\ setup' = setup /\ conns' = conns /\ socket' = socket /\ got' = got
  BY DEF StepStarts
<1>2. ev \in Events /\ Stage(ev) = 3 /\ ev.type = "step_start" /\ ev.by = s
  BY EventFacts DEF Event
<1> HIDE DEF ev
<1>3. s \in Emitters /\ s # Server /\ Free(s)
  BY <1>1, EventsAssumption DEF Emitters, IInv, RunInv, TasksInv
<1>4. TypeOK /\ RunInv /\ ViewInv
  BY DEF IInv
<1>5. /\ history' = Append(history, ev) /\ history' \in Seq(Events)
      /\ sending' \in [Emitters -> Broadcasts \cup {NoBroadcast}]
      /\ stream' \in [Streams -> Requests]
      /\ \A f \in Emitters : f # s => sending'[f] = sending[f]
      /\ \/ sending'[s] = sending[s]
         \/ sending'[s] = [event |-> ev, todo |-> conns, dead |-> Nobody]
  BY <1>1, <1>2, <1>3, <1>4, BroadcastFacts
<1>6. task' \in [Steps -> {"none", "ready", "started", "done", "early", "ended"}]
      /\ task'[s] = "started" /\ \A r \in Steps : r # s => task'[r] = task[r]
  BY <1>1, <1>4 DEF TypeOK
<1>7. TypeOK'
  BY <1>1, <1>4, <1>5, <1>6 DEF TypeOK
<1>8. ASSUME NEW i \in 1..Len(history)
      PROVE  /\ history[i] \in Events /\ Stage(history[i]) \in 1..3
             /\ history[i] # ev /\ ~Precedes(ev, history[i])
  <2>1. history[i] \in Events /\ Stage(history[i]) \in 1..7
    BY <1>4, StageFacts, SequenceTypes
  <2>2. /\ Stage(history[i]) > 3 => task[s] = "ended"
        /\ history[i].type = "step_start" => task[history[i].by] \notin {"none", "ready"}
        /\ history[i].type = "step_end" => task[history[i].by] = "ended"
    BY <1>4 DEF RunInv, StagesInv
  <2> QED BY <1>1, <1>2, <2>1, <2>2 DEF Precedes
<1>9. ~In(ev, history) /\ NoneAwaits(ev, history)
  BY <1>8 DEF In, NoneAwaits
<1>10. ASSUME NEW f \in Emitters, ~Free(f) PROVE ~Precedes(sending[f].event, ev)
  <2>1. Stage(sending[f].event) >= 3
    <3>1. CASE f = Server
      BY <1>1, <1>4, <1>10, <3>1 DEF RunInv, TasksInv
    <3>2. CASE f \in Steps
      <4>1. sending[f].event = Event("step_start", f, TRUE)
        BY <1>4, <1>10, <3>2 DEF RunInv, TasksInv
      <4>2. Stage(Event("step_start", f, TRUE)) = 3
        BY <3>2, EventFacts
      <4>3. Stage(sending[f].event) = 3
        BY <4>1, <4>2
      <4> QED BY <4>3
    <3> QED BY <3>1, <3>2 DEF Emitters
  <2>2. Stage(sending[f].event) \in 1..7
    BY <1>4, <1>10, BusyFacts, StageFacts DEF Broadcasts
  <2> QED BY <1>2, <2>1, <2>2 DEF Precedes
<1>11. ViewInv'
  BY <1>1, <1>2, <1>3, <1>4, <1>9, <1>10, BroadcastView
<1>12. TasksInv'
  <2>1. main \notin {"begin", "engine", "reported", "judging", "scoring", "logging"}
    BY <1>1, <1>4 DEF RunInv, TasksInv
  <2>2. ASSUME NEW r \in Steps, ~Free(r)'
        PROVE  sending'[r].event = Event("step_start", r, TRUE) /\ task'[r] = "started"
    <3>1. CASE r = s
      <4>1. sending'[s] # NoBroadcast /\ sending[s] = NoBroadcast
        BY <1>3, <2>2, <3>1 DEF Free
      <4>2. sending'[s].event = ev
        BY <1>5, <4>1
      <4> QED BY <1>6, <3>1, <4>2 DEF ev
    <3>2. CASE r # s
      <4>1. sending'[r] = sending[r] /\ ~Free(r)
        BY <1>5, <2>2, <3>2 DEF Free, Emitters
      <4> QED BY <1>4, <1>6, <3>2, <4>1 DEF RunInv, TasksInv
    <3> QED BY <3>1, <3>2
  <2>3. ASSUME ~Free(Server)'
        PROVE  sending'[Server].event.type # "step_start" /\ Stage(sending'[Server].event) >= 3
    <3>1. sending'[Server] = sending[Server] /\ ~Free(Server)
      BY <1>3, <1>5, <2>3 DEF Free, Emitters
    <3> QED BY <1>1, <1>4, <3>1 DEF RunInv, TasksInv
  <2> QED BY <1>1, <2>1, <2>2, <2>3 DEF TasksInv
<1>13. StagesInv'
  <2> SUFFICES ASSUME NEW i \in 1..Len(history')
               PROVE  /\ Stage(history'[i]) <= LastStage(main)
                      /\ Stage(history'[i]) > 3 => \A r \in Steps : task'[r] = "ended"
                      /\ history'[i].type = "step_start" =>
                           history'[i].by \in Steps /\ task'[history'[i].by] \notin {"none", "ready"}
                      /\ history'[i].type = "step_end" =>
                           history'[i].by \in Steps /\ task'[history'[i].by] = "ended"
    BY <1>1 DEF StagesInv
  <2>1. main \in {"steps", "failing", "finished", "died"}
    BY <1>1, <1>4 DEF RunInv, TasksInv, TypeOK
  <2>2. LastStage(main) \in {3, 7}
    BY <2>1 DEF LastStage
  <2>3. CASE i \in 1..Len(history) /\ history'[i] = history[i]
    <3>1. Stage(history[i]) \in 1..3 /\ Stage(history[i]) <= LastStage(main)
      BY <1>4, <1>8, <2>3 DEF RunInv, StagesInv
    <3>2. /\ history[i].type = "step_start" =>
               history[i].by \in Steps /\ task[history[i].by] \notin {"none", "ready"}
          /\ history[i].type = "step_end" =>
               history[i].by \in Steps /\ task[history[i].by] = "ended"
      BY <1>4, <2>3 DEF RunInv, StagesInv
    <3>3. history[i].type = "step_end" => history[i].by # s
      BY <1>1, <3>2
    <3> QED BY <1>6, <2>3, <3>1, <3>2, <3>3
  <2>4. CASE history'[i] = ev
    BY <1>2, <1>6, <2>2, <2>4
  <2>5. \/ i \in 1..Len(history) /\ history'[i] = history[i]
        \/ history'[i] = ev
    BY <1>2, <1>4, <1>5, SequenceTypes
  <2> QED BY <2>3, <2>4, <2>5
<1> QED BY <1>7, <1>11, <1>12, <1>13 DEF IInv, RunInv

\* The loop that takes a task's result and emits its step_end, or is refused
\* one without a duration, keeps the invariant.
LEMMA StepEndsKeeps ==
  ASSUME IInv, NEW s \in Steps, StepEnds(s)
  PROVE  IInv'
<1> DEFINE ev == Event("step_end", s, task[s] = "done")
<1>1. /\ task[s] \in {"done", "early"} /\ Emit("steps", ev, "steps")
      /\ task' = [task EXCEPT ![s] = "ended"]
  BY DEF StepEnds
<1>2. ev \in Events /\ Stage(ev) = 3 /\ ev.type = "step_end" /\ ev.by = s
  <2>1. (task[s] = "done") \in BOOLEAN
    OBVIOUS
  <2> QED BY <2>1, EventFacts DEF Event
<1> HIDE DEF ev
<1>3. TypeOK /\ RunInv /\ ViewInv
  BY DEF IInv
<1>4. /\ main = "steps" /\ Free(Server)
      /\ conns' = conns /\ socket' = socket /\ got' = got
      /\ \/ Broadcast(Server, ev) /\ main' = "steps"
         \/ /\ main' \in {"failing", "died"}
            /\ history' = history /\ sending' = sending /\ stream' = stream
  BY <1>1, EmitFacts
<1>5. task' \in [Steps -> {"none", "ready", "started", "done", "early", "ended"}]
      /\ task'[s] = "ended" /\ \A r \in Steps : r # s => task'[r] = task[r]
  BY <1>1, <1>3 DEF TypeOK
<1>6. TypeOK'
  BY <1>1, <1>2, <1>3, <1>5, EmitTypes
<1>7. Server \in Emitters /\ \A r \in Steps : r \in Emitters /\ r # Server
  BY EventsAssumption DEF Emitters
<1>8. ASSUME NEW r \in Steps, ~Free(r)
      PROVE  r # s /\ sending[r].event = Event("step_start", r, TRUE) /\ task[r] = "started"
  BY <1>1, <1>3, <1>8 DEF RunInv, TasksInv
<1>9. ASSUME NEW i \in 1..Len(history)
      PROVE  /\ history[i] \in Events /\ Stage(history[i]) \in 1..3
             /\ history[i] # ev /\ ~Precedes(ev, history[i])
             /\ history[i].type = "step_start" =>
                  history[i].by \in Steps /\ task'[history[i].by] \notin {"none", "ready"}
             /\ history[i].type = "step_end" =>
                  history[i].by \in Steps /\ task'[history[i].by] = "ended"
  <2>1. history[i] \in Events /\ Stage(history[i]) \in 1..7
    BY <1>3, StageFacts, SequenceTypes
  <2>2. Stage(history[i]) <= 3
    BY <1>3, <1>4 DEF RunInv, StagesInv, LastStage
  <2>3. /\ history[i].type = "step_start" =>
             history[i].by \in Steps /\ task[history[i].by] \notin {"none", "ready"}
        /\ history[i].type = "step_end" =>
             history[i].by \in Steps /\ task[history[i].by] = "ended"
    BY <1>3 DEF RunInv, StagesInv
  <2>4. history[i] # ev
    BY <1>1, <1>2, <2>3
  <2>5. ~Precedes(ev, history[i])
    BY <1>2, <2>1, <2>2 DEF Precedes
  <2> QED BY <1>5, <2>1, <2>2, <2>3, <2>4, <2>5
<1>10. CASE /\ main' \in {"failing", "died"}
            /\ history' = history /\ sending' = sending /\ stream' = stream
  <2>1. ViewInv'
    BY <1>3, <1>4, <1>10, IdleView
  <2>2. TasksInv'
    BY <1>4, <1>5, <1>8, <1>10 DEF TasksInv, Free
  <2>3. StagesInv'
    BY <1>9, <1>10 DEF StagesInv, LastStage
  <2> QED BY <1>6, <2>1, <2>2, <2>3 DEF IInv, RunInv
<1>11. CASE Broadcast(Server, ev) /\ main' = "steps"
  <2>1. ~In(ev, history) /\ NoneAwaits(ev, history)
    BY <1>9 DEF In, NoneAwaits
  <2>2. ASSUME NEW f \in Emitters, ~Free(f) PROVE ~Precedes(sending[f].event, ev)
    <3>1. f \in Steps
      BY <1>4, <2>2 DEF Emitters
    <3>2. f # s /\ sending[f].event = Event("step_start", f, TRUE)
      BY <1>8, <2>2, <3>1
    <3>3. Stage(sending[f].event) = 3 /\ sending[f].event.by = f
      BY <3>1, <3>2, EventFacts DEF Event
    <3>4. f # s
      BY <3>2
    <3> QED BY <1>2, <3>3, <3>4 DEF Precedes
  <2>3. ViewInv'
    BY <1>2, <1>3, <1>4, <1>7, <1>11, <2>1, <2>2, BroadcastView
  <2>4. /\ history' = Append(history, ev)
        /\ \A f \in Emitters : f # Server => sending'[f] = sending[f]
        /\ \/ sending'[Server] = sending[Server]
           \/ sending'[Server] = [event |-> ev, todo |-> conns, dead |-> Nobody]
    BY <1>2, <1>3, <1>4, <1>7, <1>11, BroadcastFacts
  <2>5. /\ \A r \in Steps : sending'[r] = sending[r]
        /\ sending'[Server] = sending[Server] \/ sending'[Server].event = ev
    BY <1>7, <2>4
  <2>6. TasksInv'
    <3>1. ASSUME NEW r \in Steps, ~Free(r)'
          PROVE  sending'[r].event = Event("step_start", r, TRUE) /\ task'[r] = "started"
      BY <1>5, <1>8, <2>5, <3>1 DEF Free
    <3>2. ASSUME ~Free(Server)'
          PROVE  sending'[Server].event.type # "step_start" /\ Stage(sending'[Server].event) >= 3
      BY <1>2, <1>4, <2>5, <3>2 DEF Free
    <3> QED BY <1>11, <3>1, <3>2 DEF TasksInv
  <2>7. ASSUME NEW i \in 1..Len(history')
        PROVE  history'[i] = ev \/ (i \in 1..Len(history) /\ history'[i] = history[i])
    BY <1>2, <1>3, <2>4, SequenceTypes
  <2>8. LastStage(main') = 3
    BY <1>11 DEF LastStage
  <2>9. StagesInv'
    BY <1>2, <1>5, <1>9, <2>7, <2>8 DEF StagesInv
  <2> QED BY <1>6, <2>3, <2>6, <2>9 DEF IInv, RunInv
<1> QED BY <1>4, <1>10, <1>11

\* The stages at which the background task emits one event keep the invariant;
\* the error event it is refused ends it.
LEMMA StagesKeep ==
  ASSUME IInv, Begin \/ EngineBegins \/ EngineEnds \/ Report \/ Judge \/ Score \/ EmitError
  PROVE  IInv'
<1>1. /\ main \in {"begin", "engine"} => \A s \in Steps : task[s] = "none"
      /\ main \in {"reported", "judging", "scoring", "logging"} => \A s \in Steps : task[s] = "ended"
  BY DEF IInv, RunInv, TasksInv
<1>2. CASE Begin
  <2> DEFINE ev == Event("workflow_start", Server, TRUE)
  <2>1. Emit("begin", ev, "engine") /\ task' = task /\ main = "begin"
    BY <1>2, EmitFacts DEF Begin
  <2>2. ev \in Events /\ Stage(ev) = 1 /\ ev.type = "workflow_start"
    BY EventFacts DEF Event
  <2> HIDE DEF ev
  <2>3. LastStage("begin") = 0 /\ LastStage("engine") = 1
    BY DEF LastStage
  <2> QED BY <1>1, <2>1, <2>2, <2>3, StageStep
<1>3. CASE EngineBegins
  <2> DEFINE ev == Event("workflow_start", "engine", TRUE)
  <2>1. Emit("engine", ev, "steps") /\ task' = task /\ main = "engine"
    BY <1>3, EmitFacts DEF EngineBegins
  <2>2. ev \in Events /\ Stage(ev) = 2 /\ ev.type = "workflow_start"
    BY EventFacts DEF Event
  <2> HIDE DEF ev
  <2>3. LastStage("engine") = 1 /\ LastStage("steps") = 3
    BY DEF LastStage
  <2> QED BY <1>1, <2>1, <2>2, <2>3, StageStep
<1>4. CASE EngineEnds
  <2> DEFINE ev == Event("workflow_end", "engine", TRUE)
  <2>1. Emit("steps", ev, "reported") /\ task' = task /\ \A s \in Steps : task[s] = "ended"
    BY <1>4 DEF EngineEnds
  <2>2. ev \in Events /\ Stage(ev) = 4 /\ ev.type = "workflow_end"
    BY EventFacts DEF Event
  <2> HIDE DEF ev
  <2>3. LastStage("steps") = 3 /\ LastStage("reported") = 4
    BY DEF LastStage
  <2> QED BY <2>1, <2>2, <2>3, StageStep
<1>5. CASE Report
  <2> DEFINE ev == Event("workflow_end", Server, TRUE)
             to == IF setup.scored THEN "judging" ELSE "logging"
  <2>1. Emit("reported", ev, to) /\ task' = task /\ main = "reported"
    BY <1>5, EmitFacts DEF Report
  <2>2. ev \in Events /\ Stage(ev) = 5 /\ ev.type = "workflow_end" /\ to \in {"judging", "logging"}
    BY EventFacts DEF Event
  <2> HIDE DEF ev, to
  <2>3. LastStage("reported") = 4 /\ LastStage("judging") = 5 /\ LastStage("logging") = 7
    BY DEF LastStage
  <2> QED BY <1>1, <2>1, <2>2, <2>3, StageStep
<1>6. CASE Judge
  <2> DEFINE ev == Event("evaluation_start", Server, TRUE)
  <2>1. Emit("judging", ev, "scoring") /\ task' = task /\ main = "judging"
    BY <1>6, EmitFacts DEF Judge
  <2>2. ev \in Events /\ Stage(ev) = 6 /\ ev.type = "evaluation_start"
    BY EventFacts DEF Event
  <2> HIDE DEF ev
  <2>3. LastStage("judging") = 5 /\ LastStage("scoring") = 6
    BY DEF LastStage
  <2> QED BY <1>1, <2>1, <2>2, <2>3, StageStep
<1>7. CASE Score
  <2> DEFINE ev == Event("evaluation_complete", Server, TRUE)
  <2>1. Emit("scoring", ev, "logging") /\ task' = task /\ main = "scoring"
    BY <1>7, EmitFacts DEF Score
  <2>2. ev \in Events /\ Stage(ev) = 7 /\ ev.type = "evaluation_complete"
    BY EventFacts DEF Event
  <2> HIDE DEF ev
  <2>3. LastStage("scoring") = 6 /\ LastStage("logging") = 7
    BY DEF LastStage
  <2> QED BY <1>1, <2>1, <2>2, <2>3, StageStep
<1>8. CASE EmitError
  <2> DEFINE ev == Event("error", Server, TRUE)
  <2>1. Emit("failing", ev, "died") /\ task' = task
    BY <1>8 DEF EmitError
  <2>2. ev \in Events /\ ~Valid(ev)
    BY EventFacts DEF Event, Valid, WireTypes
  <2> HIDE DEF ev
  <2>3. TypeOK'
    BY <2>1, <2>2, EmitTypes DEF IInv, TypeOK
  <2>4. /\ main' \in {"failing", "died"} /\ conns' = conns /\ socket' = socket /\ got' = got
        /\ history' = history /\ sending' = sending /\ stream' = stream /\ main = "failing"
    BY <2>1, <2>2, EmitFacts
  <2>5. ViewInv'
    BY <2>4, IdleView DEF IInv
  <2>6. TasksInv'
    BY <2>1, <2>4 DEF IInv, RunInv, TasksInv, Free
  <2>7. StagesInv'
    BY <2>1, <2>4 DEF IInv, RunInv, StagesInv, LastStage
  <2> QED BY <2>3, <2>5, <2>6, <2>7 DEF IInv, RunInv
<1> QED BY <1>2, <1>3, <1>4, <1>5, <1>6, <1>7, <1>8

\* The steps of the run that emit nothing keep the invariant.
LEMMA SilentKeeps ==
  ASSUME IInv, Schedule \/ Log \/ Raises \/ \E s \in Steps : StepReturns(s)
  PROVE  IInv'
<1>1. /\ history' = history /\ sending' = sending /\ conns' = conns
      /\ socket' = socket /\ stream' = stream /\ got' = got /\ setup' = setup
  BY DEF Schedule, Log, Raises, StepReturns, viewVars
<1>2. ViewInv' /\ TypeOK
  BY <1>1, IdleView DEF IInv
<1>3. \A e \in Emitters : Free(e)' <=> Free(e)
  BY <1>1 DEF Free
<1>4. CASE Schedule
  <2>1. /\ main = "steps" /\ main' = "steps" /\ Free(Server)
        /\ \A s \in Steps : task[s] = "none" /\ task'[s] \in {"ready", "ended"}
        /\ task' \in [Steps -> {"none", "ready", "started", "done", "early", "ended"}]
    BY <1>4 DEF Schedule
  <2>2. TypeOK'
    BY <1>1, <1>2, <2>1 DEF TypeOK
  <2>3. \A s \in Steps : Free(s)
    BY <2>1 DEF IInv, RunInv, TasksInv
  <2>4. TasksInv'
    BY <1>1, <2>1, <2>3 DEF TasksInv, Free
  <2>5. ASSUME NEW i \in 1..Len(history)
        PROVE  /\ Stage(history[i]) <= 3
               /\ history[i].type \notin {"step_start", "step_end"}
               /\ Stage(history[i]) \in 1..7
    <3>1. /\ Stage(history[i]) <= LastStage("steps")
          /\ history[i].type = "step_start" =>
               history[i].by \in Steps /\ task[history[i].by] \notin {"none", "ready"}
          /\ history[i].type = "step_end" =>
               history[i].by \in Steps /\ task[history[i].by] = "ended"
      BY <2>1 DEF IInv, RunInv, StagesInv
    <3>2. Stage(history[i]) \in 1..7
      BY <1>2, StageFacts, SequenceTypes
    <3> QED BY <2>1, <3>1, <3>2 DEF LastStage
  <2>6. StagesInv'
    BY <1>1, <2>1, <2>5 DEF StagesInv, LastStage
  <2> QED BY <1>2, <2>2, <2>4, <2>6 DEF IInv, RunInv
<1>5. CASE Log \/ Raises
  <2>1. main' \in {"finished", "failing"} /\ task' = task
    BY <1>5 DEF Log, Raises
  <2>2. TypeOK'
    BY <1>1, <1>2, <2>1 DEF TypeOK
  <2>3. TasksInv'
    BY <1>1, <2>1 DEF IInv, RunInv, TasksInv, Free
  <2>4. \A i \in 1..Len(history) : Stage(history[i]) <= 7
    BY <1>2, StageFacts, SequenceTypes
  <2>5. StagesInv'
    BY <1>1, <2>1, <2>4 DEF IInv, RunInv, StagesInv, LastStage
  <2> QED BY <1>2, <2>2, <2>3, <2>5 DEF IInv, RunInv
<1>6. ASSUME NEW s \in Steps, StepReturns(s) PROVE IInv'
  <2>1. /\ main' = main /\ task[s] = "started" /\ Free(s)
        /\ task' \in [Steps -> {"none", "ready", "started", "done", "early", "ended"}]
        /\ task'[s] \in {"done", "early"}
        /\ \A r \in Steps : r # s => task'[r] = task[r]
    BY <1>2, <1>6 DEF StepReturns, TypeOK
  <2>2. TypeOK'
    BY <1>1, <1>2, <2>1 DEF TypeOK
  <2>3. TasksInv'
    <3>1. /\ main \notin {"begin", "engine", "reported", "judging", "scoring", "logging"}
      BY <2>1 DEF IInv, RunInv, TasksInv
    <3>2. \A r \in Steps : ~Free(r) =>
            sending[r].event = Event("step_start", r, TRUE) /\ task'[r] = "started"
      BY <2>1 DEF IInv, RunInv, TasksInv
    <3>3. ~Free(Server) =>
            sending[Server].event.type # "step_start" /\ Stage(sending[Server].event) >= 3
      BY <2>1 DEF IInv, RunInv, TasksInv
    <3> QED BY <1>1, <2>1, <3>1, <3>2, <3>3 DEF TasksInv, Free
  <2>4. ASSUME NEW i \in 1..Len(history)
        PROVE  /\ Stage(history[i]) <= LastStage(main)
               /\ ~(Stage(history[i]) > 3)
               /\ history[i].type = "step_start" =>
                    history[i].by \in Steps /\ task'[history[i].by] \notin {"none", "ready"}
               /\ history[i].type = "step_end" =>
                    history[i].by \in Steps /\ task'[history[i].by] = "ended"
    <3>1. /\ Stage(history[i]) <= LastStage(main)
          /\ Stage(history[i]) > 3 => task[s] = "ended"
          /\ history[i].type = "step_start" =>
               history[i].by \in Steps /\ task[history[i].by] \notin {"none", "ready"}
          /\ history[i].type = "step_end" =>
               history[i].by \in Steps /\ task[history[i].by] = "ended"
      BY DEF IInv, RunInv, StagesInv
    <3>2. history[i].type = "step_end" => history[i].by # s
      BY <2>1, <3>1
    <3> QED BY <2>1, <3>1, <3>2
  <2>5. StagesInv'
    BY <1>1, <2>1, <2>4 DEF StagesInv
  <2> QED BY <1>2, <2>2, <2>3, <2>5 DEF IInv, RunInv
<1> QED BY <1>4, <1>5, <1>6

\* The steps of the broadcasts keep the invariant.
LEMMA BroadcastsKeep ==
  ASSUME IInv, NEW e \in Emitters, SendNext(e) \/ Delivered(e)
  PROVE  IInv'
<1>1. /\ main' = main /\ task' = task /\ setup' = setup /\ history' = history
      /\ socket' = socket /\ TypeOK /\ RunInv /\ TasksInv /\ ViewInv
  BY DEF SendNext, Delivered, runVars, IInv, RunInv
<1>2. CASE SendNext(e)
  <2>1. /\ conns' = conns /\ stream' = stream
        /\ sending' \in [Emitters -> Broadcasts \cup {NoBroadcast}]
        /\ got' \in [Viewers -> Seq(Events)] /\ ~Free(e)
        /\ \A f \in Emitters : f # e => sending'[f] = sending[f]
        /\ sending'[e].event = sending[e].event
    BY <1>1, <1>2, SendFacts DEF SendNext
  <2>2. \A f \in Emitters : ~Free(f)' => ~Free(f) /\ sending'[f].event = sending[f].event
    BY <2>1 DEF Free
  <2>3. RunInv' /\ ViewInv'
    BY <1>1, <1>2, <2>2, RunKept, SendView
  <2>4. TypeOK'
    BY <1>1, <2>1 DEF TypeOK
  <2> QED BY <2>3, <2>4 DEF IInv
<1>3. CASE Delivered(e)
  <2>1. /\ got' = got /\ conns' \in [Sockets -> Nat]
        /\ stream' \in [Streams -> Requests]
        /\ sending' \in [Emitters -> Broadcasts \cup {NoBroadcast}]
        /\ sending'[e] = NoBroadcast
        /\ \A f \in Emitters : f # e => sending'[f] = sending[f]
    BY <1>1, <1>3, DeliveredFacts DEF Delivered
  <2>2. \A f \in Emitters : ~Free(f)' => ~Free(f) /\ sending'[f].event = sending[f].event
    BY <2>1 DEF Free
  <2>3. RunInv' /\ ViewInv'
    BY <1>1, <1>3, <2>2, RunKept, DeliveredView
  <2>4. TypeOK'
    BY <1>1, <2>1 DEF TypeOK
  <2> QED BY <2>3, <2>4 DEF IInv
<1> QED BY <1>2, <1>3

\* The steps of a connection keep the invariant.
LEMMA SocketsKeep ==
  ASSUME IInv, NEW w \in Sockets, Connect(w) \/ Replay(w) \/ PeerCloses(w) \/ Disconnect(w)
  PROVE  IInv'
<1>1. /\ main' = main /\ task' = task /\ setup' = setup /\ history' = history
      /\ sending' = sending /\ stream' = stream /\ TypeOK /\ RunInv /\ ViewInv
  BY DEF Connect, Replay, PeerCloses, Disconnect, runVars, IInv
<1>2. RunInv'
  <2>1. \A e \in Emitters : ~Free(e)' => ~Free(e) /\ sending'[e].event = sending[e].event
    BY <1>1 DEF Free
  <2> QED BY <1>1, <2>1, RunKept
<1>3. conns[w] \in Nat /\ conns[w] <= 1 /\ socket[w] \in Connections /\ Len(history) \in Nat
      /\ socket[w].seen <= Len(history)
  BY <1>1, SequenceTypes DEF ViewInv, HubInv, SocketInv
<1>4. CASE Connect(w)
  BY <1>1, <1>2, <1>4, ConnectView, ConnectFacts DEF IInv, TypeOK
<1>5. CASE Replay(w) /\ socket[w].seen = Len(history)
  <2>1. ViewInv'
    BY <1>1, <1>5, ReplayView
  <2>2. conns' = conns /\ socket' \in [Sockets -> Connections] /\ got' \in [Viewers -> Seq(Events)]
    BY <1>1, <1>5, ReplayFacts
  <2>3. TypeOK'
    BY <1>1, <2>2 DEF TypeOK
  <2> QED BY <1>2, <2>1, <2>3 DEF IInv
<1>6. CASE Disconnect(w) \/ (Replay(w) /\ socket[w].seen # Len(history))
  <2>1. Leave(w) /\ got' = got /\ socket[w].at \in {"gone", "replaying"}
    BY <1>6 DEF Disconnect, Replay
  <2>2. /\ conns' \in [Sockets -> Nat] /\ conns'[w] = 0
        /\ \A u \in Sockets : u # w => conns'[u] = conns[u] /\ socket'[u] = socket[u]
        /\ socket' \in [Sockets -> Connections]
        /\ socket'[w].at = "left" /\ socket'[w].seen <= Len(history)
    BY <1>1, <1>3, <2>1, LeaveFacts
  <2>3. ViewInv'
    BY <1>1, <2>1, <2>2, DropView
  <2>4. TypeOK'
    BY <1>1, <2>1, <2>2 DEF TypeOK
  <2> QED BY <1>2, <2>3, <2>4 DEF IInv
<1>7. CASE PeerCloses(w)
  <2>1. /\ conns' = conns /\ got' = got /\ socket[w].at # "away"
        /\ socket' = [socket EXCEPT ![w] = [socket[w] EXCEPT !.at = "gone"]]
    BY <1>1, <1>7 DEF PeerCloses, TypeOK
  <2>2. [socket[w] EXCEPT !.at = "gone"] \in Connections
    BY <1>3 DEF Connections
  <2>3. /\ socket' \in [Sockets -> Connections]
        /\ socket'[w] = [socket[w] EXCEPT !.at = "gone"]
        /\ \A u \in Sockets : u # w => socket'[u] = socket[u]
    BY <1>1, <2>1, <2>2 DEF TypeOK
  <2>4. socket'[w].at = "gone" /\ socket'[w].seen <= Len(history)
    BY <1>3, <2>3 DEF Connections
  <2>5. ViewInv'
    BY <1>1, <2>1, <2>3, <2>4, DropView
  <2>6. TypeOK'
    BY <1>1, <2>1, <2>3 DEF TypeOK
  <2> QED BY <1>2, <2>5, <2>6 DEF IInv
<1> QED BY <1>4, <1>5, <1>6, <1>7

\* The steps of a stream keep the invariant.
LEMMA StreamsKeep ==
  ASSUME IInv, NEW l \in Streams, Subscribe(l) \/ Yield(l) \/ Unsubscribe(l)
  PROVE  IInv'
<1>1. /\ main' = main /\ task' = task /\ setup' = setup /\ history' = history
      /\ sending' = sending /\ conns' = conns /\ socket' = socket
      /\ TypeOK /\ RunInv /\ ViewInv
  BY DEF Subscribe, Yield, Unsubscribe, runVars, IInv
<1>2. RunInv'
  <2>1. \A e \in Emitters : ~Free(e)' => ~Free(e) /\ sending'[e].event = sending[e].event
    BY <1>1 DEF Free
  <2> QED BY <1>1, <2>1, RunKept
<1>3. CASE Yield(l)
  <2>1. stream' \in [Streams -> Requests] /\ got' \in [Viewers -> Seq(Events)]
    BY <1>1, <1>3, YieldFacts
  <2>2. TypeOK'
    BY <1>1, <2>1 DEF TypeOK
  <2> QED BY <1>1, <1>2, <1>3, <2>2, YieldView DEF IInv
<1>4. CASE Subscribe(l) \/ Unsubscribe(l)
  <2>1. got' = got /\ ViewInv' /\ stream' \in [Streams -> Requests]
    BY <1>1, <1>4, SubscribeView DEF Subscribe, Unsubscribe
  <2>2. TypeOK'
    BY <1>1, <2>1 DEF TypeOK
  <2> QED BY <1>2, <2>1, <2>2 DEF IInv
<1> QED BY <1>3, <1>4

-----------------------------------------------------------------------------
(* The theorems.                                                           *)

\* The invariant holds at the start.
LEMMA InitIInv == Init => IInv
<1> SUFFICES ASSUME Init PROVE IInv
  OBVIOUS
<1>1. TypeOK
  <2>1. NoBroadcast \in Broadcasts \cup {NoBroadcast} /\ Nobody \in [Sockets -> Nat]
    BY DEF Nobody
  <2>2. Apart("away") \in Connections /\ Off("away") \in Requests /\ <<>> \in Seq(Events)
    BY DEF Apart, Off, Connections, Requests
  <2> QED BY <2>1, <2>2 DEF Init, TypeOK
<1>2. TasksInv
  BY DEF Init, TasksInv, Free, Emitters
<1>3. StagesInv
  BY DEF Init, StagesInv
<1> QED BY <1>1, <1>2, <1>3, InitView DEF IInv, RunInv

\* Every step keeps it.
LEMMA NextIInv == IInv /\ [Next]_vars => IInv'
<1> SUFFICES ASSUME IInv, [Next]_vars PROVE IInv'
  OBVIOUS
<1>1. CASE Run \/ Raises
  BY <1>1, StagesKeep, SilentKeeps DEF Run
<1>2. CASE \E s \in Steps : StepStarts(s) \/ StepReturns(s) \/ StepEnds(s)
  BY <1>2, StepStartsKeeps, StepEndsKeeps, SilentKeeps
<1>3. CASE \E e \in Emitters : SendNext(e) \/ Delivered(e)
  BY <1>3, BroadcastsKeep
<1>4. CASE \E w \in Sockets : Connect(w) \/ Replay(w) \/ PeerCloses(w) \/ Disconnect(w)
  BY <1>4, SocketsKeep
<1>5. CASE \E l \in Streams : Subscribe(l) \/ Yield(l) \/ Unsubscribe(l)
  BY <1>5, StreamsKeep
<1>6. CASE UNCHANGED vars
  <2>1. /\ main' = main /\ task' = task /\ setup' = setup /\ history' = history
        /\ sending' = sending /\ conns' = conns /\ socket' = socket
        /\ stream' = stream /\ got' = got
    BY <1>6 DEF vars, runVars, viewVars
  <2>2. RunInv'
    <3>1. \A e \in Emitters : ~Free(e)' => ~Free(e) /\ sending'[e].event = sending[e].event
      BY <2>1 DEF Free
    <3> QED BY <2>1, <3>1, RunKept DEF IInv
  <2>3. TypeOK'
    BY <2>1 DEF IInv, TypeOK
  <2> QED BY <2>1, <2>2, <2>3, IdleView DEF IInv
<1> QED BY <1>1, <1>2, <1>3, <1>4, <1>5, <1>6 DEF Next

\* The inductive invariant of the run, the hub and the viewers.
THEOREM EventsInvariant == Spec => []IInv
BY InitIInv, NextIInv, PTL DEF Spec

\* The types of the state.
THEOREM EventsTyped == Spec => []TypeOK
<1>1. IInv => TypeOK
  BY DEF IInv
<1> QED BY <1>1, EventsInvariant, PTL

\* The hub holds every connection that is being served exactly once, and none
\* whose endpoint has ended, whoever disconnected it.
THEOREM HubHolds == Spec => []HubExact
<1>1. IInv => HubExact
  BY DEF IInv, ViewInv, HubInv, HubExact
<1> QED BY <1>1, EventsInvariant, PTL

\* No viewer is sent an event twice, nor one that another it was sent before
\* had to wait for.
THEOREM OrderHolds == Spec => []CausalOrder
<1>1. IInv => CausalOrder
  BY DEF IInv, ViewInv, SocketInv, StreamInv, Ordered, CausalOrder, Viewers
<1> QED BY <1>1, EventsInvariant, PTL

\* A connection that is out of its replay, and an open stream, miss nothing.
THEOREM NothingLostHolds == Spec => []NothingLost
<1>1. IInv => NothingLost
  <2> SUFFICES ASSUME IInv PROVE NothingLost
    OBVIOUS
  <2>1. \A seq \in Seq(Events) : \A x : In(x, seq) => x \in Range(seq)
    BY DEF In, Range
  <2>2. /\ \A w \in Sockets : got[w] \in Seq(Events)
        /\ \A l \in Streams : got[l] \in Seq(Events) /\ stream[l].queue \in Seq(Events)
    BY SequenceTypes DEF IInv
  <2>3. SocketComplete /\ StreamComplete
    BY DEF IInv, ViewInv
  <2>4. ASSUME NEW w \in Sockets, socket[w].at = "live",
               NEW i \in socket[w].from..Len(history)
        PROVE  \/ history[i] \in Range(got[w])
               \/ \E e \in Emitters : sending[e].event = history[i] /\ sending[e].todo[w] > 0
    BY <2>1, <2>2, <2>3, <2>4 DEF SocketComplete
  <2>5. ASSUME NEW l \in Streams, stream[l].at = "open",
               NEW i \in stream[l].from..Len(history)
        PROVE  \/ history[i] \in Range(got[l]) \cup Range(stream[l].queue)
               \/ \E e \in Emitters : sending[e].event = history[i]
    BY <2>1, <2>2, <2>3, <2>5 DEF StreamComplete
  <2> QED BY <2>4, <2>5 DEF NothingLost
<1> QED BY <1>1, EventsInvariant, PTL


-----------------------------------------------------------------------------
(* The refinement of EventLog.                                             *)

\* In a sequence in order, what comes last may follow the rest.
LEMMA LastMayFollow ==
  ASSUME NEW seq \in Seq(Events), NEW ev \in Events, Ordered(Append(seq, ev))
  PROVE  Promised!MayFollow(ev, seq)
<1>1. /\ Len(Append(seq, ev)) = Len(seq) + 1 /\ Append(seq, ev)[Len(seq) + 1] = ev
      /\ \A i \in 1..Len(seq) : Append(seq, ev)[i] = seq[i] /\ seq[i] \in Events
  OBVIOUS
<1>2. ASSUME NEW i \in 1..Len(seq) PROVE seq[i] # ev /\ ~Precedes(ev, seq[i])
  <2>1. i \in 1..Len(Append(seq, ev)) /\ Len(seq) + 1 \in 1..Len(Append(seq, ev))
        /\ i < Len(seq) + 1
    BY <1>1
  <2> QED BY <1>1, <2>1 DEF Ordered
<1> QED BY <1>1, <1>2 DEF Promised!MayFollow

\* An event that is emitted is logged.
LEMMA LogStep ==
  ASSUME IInv, IInv', NEW ev \in Events, history' = Append(history, ev), got' = got
  PROVE  Promised!Log
<1>1. history \in Seq(Events) /\ Ordered(history')
  BY DEF IInv, TypeOK, ViewInv, Awaited
<1>2. Promised!MayFollow(ev, history)
  BY <1>1, LastMayFollow
<1> QED BY <1>2 DEF Promised!Log

\* An event that is sent to a viewer is in the log and may follow what the
\* viewer was told.
LEMMA TellStep ==
  ASSUME IInv, IInv', NEW v \in Viewers, NEW ev \in Events, history' = history,
         got' = [got EXCEPT ![v] = Append(@, ev)]
  PROVE  Promised!Tell(v)
<1>1. history \in Seq(Events) /\ got[v] \in Seq(Events) /\ got'[v] = Append(got[v], ev)
  BY DEF IInv, TypeOK
<1>2. Ordered(got'[v]) /\ Under(got'[v], history)
  BY DEF IInv, ViewInv, SocketInv, StreamInv, Viewers
<1>3. Promised!MayFollow(ev, got[v])
  BY <1>1, <1>2, LastMayFollow
<1>4. In(ev, history)
  <2>1. Len(got'[v]) = Len(got[v]) + 1 /\ got'[v][Len(got[v]) + 1] = ev
    BY <1>1
  <2> QED BY <1>1, <1>2, <2>1 DEF Under
<1>5. PICK i \in 1..Len(history) : history[i] = ev
  BY <1>4 DEF In
<1> QED BY <1>3, <1>5 DEF Promised!Tell

\* An event of the background task is logged or refused.
LEMMA EmitLogs ==
  ASSUME IInv, IInv', NEW from, NEW ev \in Events, NEW to, Emit(from, ev, to)
  PROVE  Promised!Log \/ UNCHANGED Promised!vars
<1>1. got' = got /\ (history' = Append(history, ev) \/ history' = history)
  BY EmitFacts DEF Broadcast
<1> QED BY <1>1, LogStep DEF Promised!vars

\* The steps of the background task and of the steps' tasks.
LEMMA RunLogs ==
  ASSUME IInv, IInv', \/ Run \/ Raises
                      \/ \E s \in Steps : StepStarts(s) \/ StepReturns(s) \/ StepEnds(s)
  PROVE  Promised!Log \/ UNCHANGED Promised!vars
<1>1. CASE \/ Begin \/ EngineBegins \/ EngineEnds \/ Report \/ Judge \/ Score \/ EmitError
  BY <1>1, EmitLogs, EventFacts
  DEF Begin, EngineBegins, EngineEnds, Report, Judge, Score, EmitError
<1>2. CASE Schedule \/ Log \/ Raises \/ \E s \in Steps : StepReturns(s)
  BY <1>2 DEF Schedule, Log, Raises, StepReturns, viewVars, Promised!vars
<1>3. CASE \E s \in Steps : StepStarts(s)
  BY <1>3, LogStep, EventFacts DEF StepStarts, Broadcast
<1>4. CASE \E s \in Steps : StepEnds(s)
  <2>1. \A s \in Steps : Event("step_end", s, task[s] = "done") \in Events
    BY EventFacts
  <2> QED BY <1>4, <2>1, EmitLogs DEF StepEnds
<1> QED BY <1>1, <1>2, <1>3, <1>4 DEF Run

\* A broadcast tells at most one connection at a time of its event.
LEMMA BroadcastTells ==
  ASSUME IInv, IInv', NEW e \in Emitters, SendNext(e) \/ Delivered(e)
  PROVE  (\E v \in Viewers : Promised!Tell(v)) \/ UNCHANGED Promised!vars
<1>1. CASE SendNext(e)
  <2>1. history' = history /\ sending[e].event \in Events
    BY <1>1, SendFacts, BusyFacts DEF SendNext, IInv, Broadcasts
  <2>2. \/ got' = got
        \/ \E w \in Sockets : got' = [got EXCEPT ![w] = Append(@, sending[e].event)]
    BY <1>1 DEF SendNext
  <2> QED BY <2>1, <2>2, TellStep DEF Viewers, Promised!vars
<1>2. CASE Delivered(e)
  BY <1>2 DEF Delivered, Promised!vars
<1> QED BY <1>1, <1>2

\* A connection that replays is told of one event of the buffer at a time.
LEMMA SocketTells ==
  ASSUME IInv, IInv', NEW w \in Sockets,
         Connect(w) \/ Replay(w) \/ PeerCloses(w) \/ Disconnect(w)
  PROVE  (\E v \in Viewers : Promised!Tell(v)) \/ UNCHANGED Promised!vars
<1>1. w \in Viewers /\ history \in Seq(Events) /\ history' = history
  BY DEF Viewers, IInv, TypeOK, Connect, Replay, PeerCloses, Disconnect
<1>2. CASE got' = got
  BY <1>1, <1>2 DEF Promised!vars
<1>3. CASE Replay(w) /\ got' # got
  <2>1. /\ socket[w].next <= Len(history) /\ socket[w].next \in Nat \ {0}
        /\ got' = [got EXCEPT ![w] = Append(@, history[socket[w].next])]
    BY <1>3 DEF Replay, IInv, TypeOK, Connections
  <2>2. history[socket[w].next] \in Events
    BY <1>1, <2>1
  <2> QED BY <1>1, <2>1, <2>2, TellStep
<1>4. CASE Connect(w) /\ got' # got
  <2>1. /\ socket[w].at = "away" /\ history # <<>>
        /\ got' = [got EXCEPT ![w] = <<history[Oldest]>>]
    BY <1>4 DEF Connect
  <2>2. got[w] = <<>>
    BY <2>1 DEF IInv, ViewInv, SocketInv
  <2>3. Oldest \in 1..Len(history)
    BY <1>1, <2>1, EventsAssumption DEF Oldest
  <2>4. history[Oldest] \in Events /\ <<history[Oldest]>> = Append(got[w], history[Oldest])
    BY <1>1, <2>2, <2>3
  <2>5. got' = [got EXCEPT ![w] = Append(@, history[Oldest])]
    BY <2>1, <2>4
  <2> QED BY <1>1, <2>4, <2>5, TellStep
<1> QED BY <1>2, <1>3, <1>4 DEF PeerCloses, Disconnect

\* A stream is told of the head of its queue.
LEMMA StreamTells ==
  ASSUME IInv, IInv', NEW l \in Streams, Subscribe(l) \/ Yield(l) \/ Unsubscribe(l)
  PROVE  (\E v \in Viewers : Promised!Tell(v)) \/ UNCHANGED Promised!vars
<1>1. CASE Yield(l)
  <2>1. /\ history' = history /\ stream[l].queue # <<>>
        /\ got' = [got EXCEPT ![l] = Append(@, Head(stream[l].queue))]
    BY <1>1 DEF Yield
  <2>2. stream[l].queue \in Seq(Events)
    BY DEF IInv, TypeOK, Requests
  <2>3. Head(stream[l].queue) \in Events
    BY <2>1, <2>2, TailFacts
  <2> QED BY <2>1, <2>3, TellStep DEF Viewers
<1>2. CASE Subscribe(l) \/ Unsubscribe(l)
  BY <1>2 DEF Subscribe, Unsubscribe, Promised!vars
<1> QED BY <1>1, <1>2

\* Whatever the broadcasts, the replays and the queues do, what the viewers see
\* is a log that is told in order: the run and its hub implement EventLog.
THEOREM ImplementsLog == Spec => ImplementsEventLog
<1>1. Init => Promised!Init
  BY DEF Init, Promised!Init
<1>2. IInv /\ IInv' /\ [Next]_vars => [Promised!Next]_Promised!vars
  <2> SUFFICES ASSUME IInv, IInv', [Next]_vars PROVE [Promised!Next]_Promised!vars
    OBVIOUS
  <2>1. CASE UNCHANGED vars
    BY <2>1 DEF vars, viewVars, Promised!vars
  <2> QED BY <2>1, RunLogs, BroadcastTells, SocketTells, StreamTells DEF Next, Promised!Next
<1> QED
  BY <1>1, <1>2, EventsInvariant, PTL DEF Spec, ImplementsEventLog, Promised!Spec

-----------------------------------------------------------------------------
(* The end of a stream: what StreamsEnd needs besides fairness.            *)

\* An open stream has yielded no terminal event.
Unended ==
  \A l \in Streams : stream[l].at = "open" =>
    \A i \in 1..Len(got[l]) : got[l][i].type \notin Terminal

\* A terminal event that was emitted since a stream was opened is in the
\* stream's queue, or in a broadcast that is still to feed it.
EndIsComing ==
  \A l \in Streams : stream[l].at = "open" =>
    \A i \in stream[l].from..Len(history) : history[i].type \in Terminal =>
      \/ history[i] \in Range(stream[l].queue)
      \/ \E e \in Emitters : sending[e].event = history[i]

\* But for Yield, no step tells an open stream anything, nor opens one that
\* was told something.
LEMMA OpenUntouched ==
  ASSUME TypeOK, ViewInv, [Next]_vars, NEW l \in Streams, stream'[l].at = "open"
  PROVE  \/ Yield(l)
         \/ got'[l] = got[l] /\ (stream[l].at = "open" \/ got[l] = <<>>)
<1>1. stream[l] \in Requests /\ l \in Viewers /\ l \notin Sockets
  BY EventsAssumption DEF TypeOK, Viewers
<1>2. \A ev : Fed(ev)[l].at = stream[l].at
  BY <1>1 DEF Fed, Requests
<1>3. ASSUME NEW e, NEW ev, Broadcast(e, ev) PROVE stream'[l].at = stream[l].at
  BY <1>2, <1>3 DEF Broadcast
<1>4. ASSUME NEW from, NEW ev, NEW to, Emit(from, ev, to)
      PROVE  got' = got /\ stream'[l].at = stream[l].at
  BY <1>3, <1>4, EmitFacts
<1>5. CASE Run \/ Raises
  BY <1>4, <1>5 DEF Run, Begin, EngineBegins, Schedule, EngineEnds, Report, Judge, Score, Log,
                    EmitError, Raises, viewVars
<1>6. CASE \E s \in Steps : StepStarts(s) \/ StepReturns(s) \/ StepEnds(s)
  BY <1>3, <1>4, <1>6 DEF StepStarts, StepReturns, StepEnds, viewVars
<1>7. CASE \E e \in Emitters : SendNext(e) \/ Delivered(e)
  <2>1. ASSUME NEW e \in Emitters, SendNext(e) PROVE got'[l] = got[l] /\ stream' = stream
    BY <1>1, <2>1, SendFacts DEF SendNext
  <2>2. ASSUME NEW e \in Emitters, Delivered(e)
        PROVE  got' = got /\ stream'[l].at = stream[l].at
    BY <1>2, <2>2 DEF Delivered
  <2> QED BY <1>7, <2>1, <2>2
<1>8. CASE \E w \in Sockets : Connect(w) \/ Replay(w) \/ PeerCloses(w) \/ Disconnect(w)
  <2>1. stream' = stream /\ \E w \in Sockets : \E x : got' = got \/ got' = [got EXCEPT ![w] = x]
    BY <1>8 DEF Connect, Replay, PeerCloses, Disconnect
  <2> QED BY <1>1, <2>1 DEF TypeOK
<1>9. CASE \E k \in Streams : Subscribe(k) \/ Yield(k) \/ Unsubscribe(k)
  <2>1. ASSUME NEW k \in Streams, Subscribe(k)
        PROVE  got' = got /\ (stream[l].at = "open" \/ got[l] = <<>>)
    BY <2>1 DEF Subscribe, TypeOK, ViewInv, StreamInv
  <2>2. ASSUME NEW k \in Streams, Unsubscribe(k)
        PROVE  got' = got /\ stream[l].at = "open"
    BY <2>2 DEF Unsubscribe, TypeOK, Off
  <2>3. ASSUME NEW k \in Streams, Yield(k), k # l
        PROVE  got'[l] = got[l] /\ stream[l].at = "open"
    BY <1>1, <2>3, YieldFacts
  <2> QED BY <1>9, <2>1, <2>2, <2>3
<1>10. CASE UNCHANGED vars
  BY <1>10 DEF vars, viewVars
<1> QED BY <1>5, <1>6, <1>7, <1>8, <1>9, <1>10 DEF Next

\* Every step keeps Unended.
LEMMA UnendedStep == TypeOK /\ ViewInv /\ Unended /\ [Next]_vars => Unended'
<1> SUFFICES ASSUME TypeOK, ViewInv, Unended, [Next]_vars,
                    NEW l \in Streams, stream'[l].at = "open",
                    NEW i \in 1..Len(got'[l])
             PROVE  got'[l][i].type \notin Terminal
  BY DEF Unended
<1>1. CASE Yield(l)
  <2>1. /\ stream[l].at = "open" /\ stream[l].queue # <<>>
        /\ stream[l].queue \in Seq(Events)
        /\ got'[l] = Append(got[l], Head(stream[l].queue))
    BY <1>1, YieldFacts
  <2>2. Head(stream[l].queue).type \notin Terminal
    BY <1>1 DEF Yield, Off, TypeOK
  <2>3. got[l] \in Seq(Events)
    BY SequenceTypes
  <2>4. Head(stream[l].queue) \in Events
    BY <2>1, TailFacts
  <2>5. (i \in 1..Len(got[l]) /\ got'[l][i] = got[l][i]) \/ got'[l][i] = Head(stream[l].queue)
    BY <2>1, <2>3, <2>4
  <2> QED BY <2>1, <2>2, <2>5 DEF Unended
<1>2. CASE got'[l] = got[l] /\ (stream[l].at = "open" \/ got[l] = <<>>)
  BY <1>2 DEF Unended
<1> QED BY <1>1, <1>2, OpenUntouched

\* The end of a run reaches every stream that was open: only its own yields,
\* and broadcasts that are under way, stand between a stream and its end.
THEOREM EndIsComingHolds == Spec => []EndIsComing
<1>1. Init => Unended
  BY DEF Init, Unended, Off
<1>2. IInv /\ Unended /\ [Next]_vars => Unended'
  BY UnendedStep DEF IInv
<1>3. IInv /\ Unended => EndIsComing
  <2> SUFFICES ASSUME IInv, Unended, NEW l \in Streams, stream[l].at = "open",
                      NEW i \in stream[l].from..Len(history), history[i].type \in Terminal
               PROVE  \/ history[i] \in Range(stream[l].queue)
                      \/ \E e \in Emitters : sending[e].event = history[i]
    BY DEF EndIsComing
  <2>1. ~In(history[i], got[l])
    BY DEF Unended, In
  <2>2. stream[l].queue \in Seq(Events)
    BY SequenceTypes DEF IInv
  <2>3. In(history[i], stream[l].queue) => history[i] \in Range(stream[l].queue)
    BY <2>2 DEF In, Range
  <2> QED BY <2>1, <2>3 DEF IInv, ViewInv, StreamComplete
<1> QED BY <1>1, <1>2, <1>3, EventsInvariant, PTL DEF Spec
=============================================================================
