---------------------------- MODULE ConsoleProofs ----------------------------
(***************************************************************************)
(* Proofs about Console, for any number of writes, events and failures.    *)
(*                                                                         *)
(* ListFresh looks at states in which no list is on its way.  Promised     *)
(* says it of every state: a job event the console was given is in a list  *)
(* it has shown or in the one the event asked for.  MarkerSettles looks at *)
(* states in which nothing is under way at all; Newest follows the newest  *)
(* ping from the simulator to the map.                                     *)
(***************************************************************************)
EXTENDS Console, TLAPS

Event   == [event : {"job", "feed"}, n : Nat]
Message == [event : {"identify", "ping", "burst"}, n : Nat]
Entry   == [n : Nat, left : Nat]

Request == [of : {"jobs", "drivers", "metrics"}, why : {"boot", "event", "reply"},
            n : Nat, at : {"asked", "served"}, snap : Nat]

\* The part of the types that the list depends on.
ListTypes ==
  /\ written \in Nat /\ shown \in Nat /\ best \in Nat /\ streamed \in Nat /\ row \in Nat
  /\ ingesting \in Seq(Entry)
  /\ wire \in Seq(Event)
  /\ inbox \in Seq(Message) /\ position \in Nat
  /\ fetches \subseteq Request /\ posts \subseteq Nat

\* Nothing is announced or shown before it was written.
Numbered ==
  /\ announcing \subseteq 1 .. written
  /\ JobsIn(wire) \subseteq 1 .. written
  /\ known \subseteq 1 .. written

\* The list asked for when job event n came.
Carries(f, n) ==
  /\ f.of = "jobs" /\ f.why = "event" /\ f.n = n
  /\ f.at = "asked" \/ f.snap >= n

Promised ==
  \A n \in known \ (silent \cup unlisted) :
    n <= best \/ \E f \in fetches : Carries(f, n)

IInv == ListTypes /\ Numbered /\ Promised

\* A job event that joins the queue, and what is left when one is taken off.
LEMMA JobsAppend ==
  ASSUME NEW q \in Seq(Event), NEW e \in Event
  PROVE  JobsIn(Append(q, e)) \subseteq JobsIn(q) \cup (IF e.event = "job" THEN {e.n} ELSE {})
<1>1. ASSUME NEW i \in DOMAIN Append(q, e), Append(q, e)[i].event = "job"
      PROVE  Append(q, e)[i].n \in JobsIn(q) \cup (IF e.event = "job" THEN {e.n} ELSE {})
  <2>1. CASE i = Len(q) + 1
    BY <1>1, <2>1
  <2>2. CASE i # Len(q) + 1
    <3>1. i \in DOMAIN q /\ Append(q, e)[i] = q[i]
      BY <2>2
    <3> QED
      BY <1>1, <3>1 DEF JobsIn
  <2> QED
    BY <2>1, <2>2
<1> QED
  BY <1>1 DEF JobsIn

LEMMA JobsTail ==
  ASSUME NEW q \in Seq(Event), q # <<>>
  PROVE  /\ JobsIn(Tail(q)) \subseteq JobsIn(q)
         /\ Head(q).event = "job" => Head(q).n \in JobsIn(q)
<1>1. ASSUME NEW i \in DOMAIN Tail(q)
      PROVE  i + 1 \in DOMAIN q /\ Tail(q)[i] = q[i + 1]
  OBVIOUS
<1>2. 1 \in DOMAIN q /\ Head(q) = q[1]
  OBVIOUS
<1> QED
  BY <1>1, <1>2 DEF JobsIn

LEMMA Extended ==
  ASSUME NEW S, NEW x \in S
  PROVE  <<x>> \in Seq(S) /\ \A q \in Seq(S) : Append(q, x) \in Seq(S)
OBVIOUS

LEMMA InvInit == Init => IInv
<1> SUFFICES ASSUME Init
             PROVE  IInv
  OBVIOUS
<1>1. /\ written = 0 /\ shown = 0 /\ best = 0 /\ streamed = 0 /\ position = 0
      /\ ingesting = <<>> /\ wire = <<>> /\ inbox = <<>> /\ announcing = {} /\ known = {}
      /\ fetches = {Fetch("drivers", "boot", 0)} /\ posts = {} /\ row = 0
  BY Zenon DEF Init
<1>2. Fetch("drivers", "boot", 0) \in Request
  BY DEF Request, Fetch
<1>3. JobsIn(wire) = {}
  BY <1>1 DEF JobsIn
<1> QED
  BY <1>1, <1>2, <1>3 DEF IInv, ListTypes, Numbered, Promised
-----------------------------------------------------------------------------
(* Steps that leave some of the three alone. *)

LEMMA TypesFrame ==
  ASSUME ListTypes, UNCHANGED <<written, shown, best, streamed, ingesting, wire, inbox,
                               position, fetches, row, posts>>
  PROVE  ListTypes'
BY DEF ListTypes

LEMMA NumberedFrame ==
  ASSUME Numbered, UNCHANGED <<written, announcing, wire, known>>
  PROVE  Numbered'
BY DEF Numbered, JobsIn

\* The promise is kept as long as no list on its way is lost.
LEMMA PromisedFrame ==
  ASSUME Promised, UNCHANGED <<best, known>>,
         silent \subseteq silent', unlisted \subseteq unlisted',
         \A f \in fetches, n \in known \ unlisted' :
           Carries(f, n) => \E g \in fetches' : Carries(g, n)
  PROVE  Promised'
BY DEF Promised

\* What a broadcast puts on the wire.
LEMMA BroadcastWire ==
  ASSUME wire \in Seq(Event), NEW e \in Event, Broadcast(e)
  PROVE  /\ wire' \in Seq(Event)
         /\ JobsIn(wire)' \subseteq JobsIn(wire) \cup (IF e.event = "job" THEN {e.n} ELSE {})
<1>1. CASE wire' = wire
  BY <1>1 DEF JobsIn
<1>2. CASE wire' = Append(wire, e)
  <2>1. JobsIn(wire)' = JobsIn(Append(wire, e))
    BY <1>2 DEF JobsIn
  <2>2. Append(wire, e) \in Seq(Event)
    OBVIOUS
  <2> QED
    BY <1>2, <2>1, <2>2, JobsAppend
<1> QED
  BY <1>1, <1>2 DEF Broadcast

\* A request that is new.
LEMMA FetchFields ==
  ASSUME NEW what \in {"jobs", "drivers", "metrics"},
         NEW why \in {"boot", "event", "reply"}, NEW n \in Nat
  PROVE  /\ Fetch(what, why, n) \in Request
         /\ Fetch(what, why, n).of = what /\ Fetch(what, why, n).why = why
         /\ Fetch(what, why, n).n = n
         /\ Fetch(what, why, n).at = "asked" /\ Fetch(what, why, n).snap = 0
BY DEF Request, Fetch
-----------------------------------------------------------------------------
(* The steps. *)

LEMMA WriteKeeps ==
  ASSUME IInv, NEW n, Write(n), silent \subseteq silent',
         posts' = posts \/ posts' = posts \cup {n}
  PROVE  IInv'
<1> USE DEF IInv
<1>1. /\ n = written + 1 /\ written' = n /\ announcing' = announcing \cup {n}
      /\ UNCHANGED <<shown, best, streamed, ingesting, wire, inbox, position, fetches,
                     unlisted, known, row>>
  BY Zenon DEF Write, feedVars, socketVars, fetchVars, simVars
<1>2. ListTypes'
  <2>1. n \in Nat
    BY <1>1 DEF ListTypes
  <2> QED
    BY <1>1, <2>1 DEF ListTypes
<1>3. Numbered'
  <2>1. written \in Nat /\ JobsIn(wire)' = JobsIn(wire)
    BY <1>1 DEF ListTypes, JobsIn
  <2> QED
    BY <1>1, <2>1 DEF Numbered
<1>4. Promised'
  BY <1>1, PromisedFrame
<1> QED
  BY <1>2, <1>3, <1>4

LEMMA AnnounceKeeps ==
  ASSUME IInv, NEW n \in announcing, Announce(n)
  PROVE  IInv'
<1> USE DEF IInv
<1>1. /\ announcing' = announcing \ {n} /\ Broadcast(Job(n))
      /\ UNCHANGED <<written, silent, shown, best, streamed, ingesting, inbox, position,
                     fetches, unlisted, known, row, posts>>
  BY Zenon DEF Announce, feedVars, fetchVars, simVars
<1>2. n \in 1 .. written /\ written \in Nat
  BY DEF Numbered, ListTypes
<1>3. Job(n) \in Event /\ Job(n).n = n
  BY <1>2 DEF Job, Event
<1>4. wire' \in Seq(Event) /\ JobsIn(wire)' \subseteq JobsIn(wire) \cup {n}
  BY <1>1, <1>3, BroadcastWire DEF ListTypes
<1>5. ListTypes'
  BY <1>1, <1>4 DEF ListTypes
<1>6. Numbered'
  BY <1>1, <1>2, <1>4 DEF Numbered
<1>7. Promised'
  BY <1>1, PromisedFrame
<1> QED
  BY <1>5, <1>6, <1>7

\* A queue without its head, with and without one more.
LEMMA Requeued ==
  ASSUME NEW S, NEW q \in Seq(S), q # <<>>, NEW x \in S, NEW b
  PROVE  /\ Head(q) \in S
         /\ Tail(q) \o (IF b THEN <<x>> ELSE <<>>) \in Seq(S)
<1>1. Head(q) \in S /\ Tail(q) \in Seq(S) /\ <<x>> \in Seq(S) /\ <<>> \in Seq(S)
  OBVIOUS
<1> QED
  BY <1>1

\* The gateway and the batch worker: nothing of a list.
LEMMA GatewayKeeps ==
  ASSUME IInv, Receive \/ Echo \/ PingFails \/ PhonePing \/ StoreRow
  PROVE  IInv'
<1> USE DEF IInv
<1>1. UNCHANGED <<written, announcing, silent, shown, best, unlisted, position, fetches,
                  known, posts>>
  BY Zenon DEF Receive, Echo, PingFails, PhonePing, StoreRow, writeVars, fetchVars, simVars
<1>2. Promised'
  BY <1>1, PromisedFrame
<1>3. CASE Receive
  <2>1. /\ inbox # <<>> /\ inbox' = Tail(inbox) /\ UNCHANGED <<streamed, row, wire>>
        /\ \/ ingesting' = ingesting
           \/ ingesting' = Append(ingesting,
                [n |-> Head(inbox).n,
                 left |-> IF Head(inbox) = Pings THEN BurstSize - 1 ELSE 0])
    BY <1>3, Zenon DEF Receive
  <2>2. Head(inbox).n \in Nat /\ Tail(inbox) \in Seq(Message)
    <3>1. Head(inbox) \in Message /\ Tail(inbox) \in Seq(Message)
      BY <2>1 DEF ListTypes
    <3> QED
      BY <3>1 DEF Message
  <2>3. ingesting' \in Seq(Entry)
    <3>1. ingesting \in Seq(Entry)
      BY DEF ListTypes
    <3>2. (IF Head(inbox) = Pings THEN BurstSize - 1 ELSE 0) \in Nat
      BY BoundAssumption
    <3>3. [n |-> Head(inbox).n,
           left |-> IF Head(inbox) = Pings THEN BurstSize - 1 ELSE 0] \in Entry
      BY <2>2, <3>2 DEF Entry
    <3> QED
      BY <2>1, <3>1, <3>3, Extended
  <2>4. ListTypes'
    BY <1>1, <2>1, <2>2, <2>3 DEF ListTypes
  <2> QED
    BY <1>1, <1>2, <2>1, <2>4, NumberedFrame
<1>4. CASE Echo
  <2>1. /\ ingesting # <<>> /\ streamed' = Head(ingesting).n
        /\ ingesting' = Tail(ingesting) \o
             (IF Head(ingesting).left > 0
              THEN <<[n |-> Head(ingesting).n, left |-> Head(ingesting).left - 1]>>
              ELSE <<>>)
        /\ Broadcast(Feed(Head(ingesting).n)) /\ UNCHANGED <<inbox, row>>
    BY <1>4, Zenon DEF Echo
  <2>2. /\ ingesting \in Seq(Entry)
        /\ Head(ingesting).n \in Nat /\ Head(ingesting).left \in Nat
    <3>1. ingesting \in Seq(Entry) /\ Head(ingesting) \in Entry
      BY <2>1 DEF ListTypes
    <3> QED
      BY <3>1 DEF Entry
  <2>3. ingesting' \in Seq(Entry)
    <3>1. CASE Head(ingesting).left > 0
      <4>1. [n |-> Head(ingesting).n, left |-> Head(ingesting).left - 1] \in Entry
        BY <2>2, <3>1 DEF Entry
      <4> QED
        BY <2>1, <2>2, <4>1, Requeued
    <3>2. CASE ~ (Head(ingesting).left > 0)
      BY <2>1, <2>2, <3>2
    <3> QED
      BY <3>1, <3>2
  <2>4. /\ Feed(Head(ingesting).n) \in Event
        /\ Feed(Head(ingesting).n).event # "job"
    BY <2>2 DEF Feed, Event
  <2>5. wire' \in Seq(Event) /\ JobsIn(wire)' \subseteq JobsIn(wire)
    BY <2>1, <2>4, BroadcastWire DEF ListTypes
  <2>6. ListTypes'
    BY <1>1, <2>1, <2>2, <2>3, <2>5 DEF ListTypes
  <2>7. Numbered'
    BY <1>1, <2>5 DEF Numbered
  <2> QED
    BY <1>2, <2>6, <2>7
<1>5. CASE PingFails
  <2>1. /\ ingesting # <<>> /\ ingesting' = Tail(ingesting)
        /\ streamed' \in {streamed, Head(ingesting).n} /\ UNCHANGED <<row, wire, inbox>>
    BY <1>5, Zenon DEF PingFails, socketVars
  <2>2. ingesting' \in Seq(Entry) /\ Head(ingesting).n \in Nat
    <3>1. Tail(ingesting) \in Seq(Entry) /\ Head(ingesting) \in Entry
      BY <2>1 DEF ListTypes
    <3> QED
      BY <2>1, <3>1 DEF Entry
  <2>3. ListTypes'
    BY <1>1, <2>1, <2>2 DEF ListTypes
  <2> QED
    BY <1>1, <1>2, <2>1, <2>3, NumberedFrame
<1>6. CASE PhonePing
  <2>1. /\ ingesting' = Append(ingesting, [n |-> Elsewhere, left |-> 0])
        /\ UNCHANGED <<streamed, row, wire, inbox>>
    BY <1>6, Zenon DEF PhonePing, socketVars
  <2>2. ingesting' \in Seq(Entry)
    <3>1. [n |-> Elsewhere, left |-> 0] \in Entry
      BY BoundAssumption DEF Elsewhere, Entry
    <3>2. ingesting \in Seq(Entry)
      BY DEF ListTypes
    <3> QED
      BY <2>1, <3>1, <3>2, Extended
  <2>3. ListTypes'
    BY <1>1, <2>1, <2>2 DEF ListTypes
  <2> QED
    BY <1>1, <1>2, <2>1, <2>3, NumberedFrame
<1>7. CASE StoreRow
  <2>1. row' = streamed /\ UNCHANGED <<ingesting, streamed, wire, inbox>>
    BY <1>7, Zenon DEF StoreRow, socketVars
  <2>2. ListTypes'
    BY <1>1, <2>1 DEF ListTypes
  <2> QED
    BY <1>1, <1>2, <2>1, <2>2, NumberedFrame
<1> QED
  BY <1>3, <1>4, <1>5, <1>6, <1>7

\* The socket: it loses events, and gives the console none.
LEMMA SocketKeeps ==
  ASSUME IInv, Open \/ Break \/ Notice \/ Close \/ Reconnect
  PROVE  IInv'
<1> USE DEF IInv
<1>1. UNCHANGED <<written, announcing, silent, shown, best, streamed, ingesting, position,
                  fetches, unlisted, known, row, posts>>
  BY Zenon DEF Open, Break, Notice, Close, Reconnect, writeVars, feedVars, fetchVars, simVars
<1>2. /\ wire' = wire \/ wire' = <<>>
      /\ inbox' = inbox \/ inbox' = <<>> \/ inbox' = <<Identify>>
  BY Zenon DEF Open, Break, Notice, Close, Reconnect
<1>3. wire' \in Seq(Event) /\ inbox' \in Seq(Message)
  <2>1. Identify \in Message
    BY DEF Identify, Message
  <2>2. <<Identify>> \in Seq(Message)
    BY <2>1, Extended
  <2>3. wire \in Seq(Event) /\ inbox \in Seq(Message)
    BY DEF ListTypes
  <2>4. <<>> \in Seq(Event) /\ <<>> \in Seq(Message)
    OBVIOUS
  <2> QED
    BY <1>2, <2>2, <2>3, <2>4, Zenon
<1>4. ListTypes'
  BY <1>1, <1>3 DEF ListTypes
<1>5. Numbered'
  <2>1. JobsIn(wire)' = JobsIn(wire) \/ JobsIn(wire)' = {}
    BY <1>2 DEF JobsIn
  <2> QED
    BY <1>1, <2>1 DEF Numbered
<1>6. Promised'
  BY <1>1, PromisedFrame
<1> QED
  BY <1>4, <1>5, <1>6

\* A job event with a status asks for the list again.
LEMMA MessageKeeps ==
  ASSUME IInv, OnMessage
  PROVE  IInv'
<1> USE DEF IInv
<1> DEFINE e == Head(wire)
<1>1. /\ wire # <<>> /\ wire' = Tail(wire)
      /\ UNCHANGED <<written, announcing, silent, shown, best, streamed, ingesting, inbox,
                     position, unlisted, row, posts>>
      /\ \/ UNCHANGED <<fetches, known>>
         \/ /\ e.event = "job" /\ known' = known \cup {e.n}
            /\ \/ e.n \in silent /\ fetches' = fetches
               \/ fetches' = fetches \cup Refetch(e.n)
  BY Zenon DEF OnMessage, writeVars, feedVars, simVars
<1>2. wire \in Seq(Event) /\ wire' \in Seq(Event) /\ e \in Event /\ e.n \in Nat
  <2>1. wire \in Seq(Event) /\ wire' \in Seq(Event) /\ e \in Event
    BY <1>1 DEF ListTypes
  <2> QED
    BY <2>1 DEF Event
<1>3. /\ JobsIn(wire)' \subseteq JobsIn(wire)
      /\ e.event = "job" => e.n \in JobsIn(wire)
  <2>1. JobsIn(wire)' = JobsIn(Tail(wire))
    BY <1>1 DEF JobsIn
  <2> QED
    BY <1>1, <1>2, <2>1, JobsTail
<1> HIDE DEF e
<1>4. ListTypes'
  <2>1. Refetch(e.n) \subseteq Request
    BY <1>2, FetchFields DEF Refetch
  <2>2. fetches' \subseteq Request
    BY <1>1, <2>1 DEF ListTypes
  <2> QED
    BY <1>1, <1>2, <2>2 DEF ListTypes
<1>5. Numbered'
  BY <1>1, <1>3 DEF Numbered
<1>6. Promised'
  <2>1. PICK g \in Refetch(e.n) : Carries(g, e.n)
    BY <1>2, FetchFields DEF Refetch, Carries
  <2> QED
    BY <1>1, <2>1 DEF Promised
<1> QED
  BY <1>4, <1>5, <1>6

\* A request that is answered by the backend carries all that is written.
LEMMA ServeKeeps ==
  ASSUME IInv, NEW f \in fetches, Serve(f)
  PROVE  IInv'
<1> USE DEF IInv
<1> DEFINE snap == CASE f.of = "jobs" -> written [] f.of = "drivers" -> row
                     [] f.of = "metrics" -> 0
           g == [f EXCEPT !.at = "served", !.snap = snap]
<1>1. /\ fetches' = (fetches \ {f}) \cup {g}
      /\ UNCHANGED <<written, announcing, silent, shown, best, streamed, ingesting, wire,
                     inbox, position, unlisted, known, row, posts>>
  BY Zenon DEF Serve, JobList, DriverList, writeVars, feedVars, socketVars, simVars
<1>2. f \in Request /\ written \in Nat /\ row \in Nat
  BY DEF ListTypes
<1>3. snap \in Nat /\ (f.of = "jobs" => snap = written)
  BY <1>2 DEF Request
<1> HIDE DEF snap
<1>4. /\ g \in Request /\ g.of = f.of /\ g.snap = snap
      /\ g.why = f.why /\ g.n = f.n
  BY <1>2, <1>3 DEF Request
<1> HIDE DEF g
<1>5. ListTypes'
  BY <1>1, <1>4 DEF ListTypes
<1>6. Numbered'
  BY <1>1, NumberedFrame
<1>7. Promised'
  <2>1. ASSUME NEW n \in known, Carries(f, n)
        PROVE  Carries(g, n)
    <3>1. n \in Nat /\ n <= written
      BY <1>2, <2>1 DEF Numbered
    <3>2. f.of = "jobs" /\ f.why = "event" /\ f.n = n
      BY <2>1 DEF Carries
    <3> QED
      BY <1>2, <1>3, <1>4, <3>1, <3>2 DEF Carries
  <2>2. ASSUME NEW h \in fetches, NEW n \in known, Carries(h, n)
        PROVE  \E k \in fetches' : Carries(k, n)
    BY <1>1, <2>1, <2>2
  <2> QED
    BY <1>1, <2>2, PromisedFrame
<1> QED
  BY <1>5, <1>6, <1>7

\* What follows a request: itself gone, and the next one init awaits.
LEMMA DoneEffect ==
  ASSUME ListTypes, NEW f \in fetches, Done(f)
  PROVE  fetches' \subseteq Request /\ fetches \ {f} \subseteq fetches'
<1> DEFINE next == IF boot = "drivers" THEN "jobs"
                   ELSE IF boot = "jobs" THEN "metrics" ELSE "ready"
<1>1. next = "ready" \/ Fetch(next, "boot", 0) \in Request
  BY DEF Fetch, Request
<1>2. fetches \subseteq Request
  BY DEF ListTypes
<1>3. \/ fetches' = fetches \ {f}
      \/ fetches' = (fetches \ {f}) \cup (IF next = "ready" THEN {} ELSE {Fetch(next, "boot", 0)})
  BY Zenon DEF Done
<1> HIDE DEF next
<1> QED
  BY <1>1, <1>2, <1>3

\* An answer shows what it carries; the newest list shown stays the newest.
LEMMA AnswerKeeps ==
  ASSUME IInv, NEW f \in fetches, Answer(f)
  PROVE  IInv'
<1> USE DEF IInv
<1>1. /\ f.at = "served" /\ Done(f)
      /\ UNCHANGED <<written, announcing, silent, unlisted, streamed, ingesting, wire, inbox,
                     position, known, row, posts>>
  BY Zenon DEF Answer, writeVars, feedVars, socketVars, simVars
<1>2. \/ /\ f.of = "jobs" /\ shown' = f.snap
         /\ best' = IF f.snap > best THEN f.snap ELSE best
      \/ f.of \in {"drivers", "metrics"} /\ UNCHANGED <<shown, best>>
  BY Zenon DEF Answer, ShowJobs, ShowDrivers, ShowMetrics
<1>3. fetches' \subseteq Request /\ fetches \ {f} \subseteq fetches'
  BY <1>1, DoneEffect
<1>4. f.snap \in Nat /\ shown \in Nat /\ best \in Nat
  BY DEF ListTypes, Request
<1>5. /\ shown' \in Nat /\ best' \in Nat /\ best' >= best
      /\ f.of = "jobs" => best' >= f.snap
  BY <1>2, <1>4
<1>6. ListTypes'
  BY <1>1, <1>3, <1>5 DEF ListTypes
<1>7. Numbered'
  BY <1>1, NumberedFrame
<1>8. Promised'
  <2>1. SUFFICES ASSUME NEW n \in known \ (silent \cup unlisted)
                 PROVE  n <= best' \/ \E g \in fetches' : Carries(g, n)
    BY <1>1 DEF Promised
  <2>2. n \in Nat
    BY <2>1 DEF Numbered
  <2>3. CASE n <= best
    BY <1>4, <1>5, <2>2, <2>3
  <2>4. ASSUME NEW g \in fetches, Carries(g, n), g # f
        PROVE  \E h \in fetches' : Carries(h, n)
    BY <1>3, <2>4
  <2>5. CASE Carries(f, n)
    BY <1>1, <1>4, <1>5, <2>2, <2>5 DEF Carries
  <2> QED
    BY <2>1, <2>3, <2>4, <2>5 DEF Promised
<1> QED
  BY <1>6, <1>7, <1>8

\* A request that fails takes the promise to its event with it.
LEMMA FetchFailKeeps ==
  ASSUME IInv, NEW f \in fetches, FetchFails(f)
  PROVE  IInv'
<1> USE DEF IInv
<1>1. /\ Done(f)
      /\ unlisted' = IF f.of = "jobs" /\ f.why = "event" THEN unlisted \cup {f.n}
                     ELSE unlisted
      /\ UNCHANGED <<written, announcing, silent, shown, best, streamed, ingesting, wire,
                     inbox, position, row, posts, known>>
  BY Zenon DEF FetchFails, writeVars, feedVars, socketVars, simVars
<1>2. fetches' \subseteq Request /\ fetches \ {f} \subseteq fetches'
  BY <1>1, DoneEffect
<1>3. ListTypes'
  BY <1>1, <1>2 DEF ListTypes
<1>4. Numbered'
  BY <1>1, NumberedFrame
<1>5. ASSUME NEW g \in fetches, NEW n \in known \ unlisted', Carries(g, n)
      PROVE  \E h \in fetches' : Carries(h, n)
  <2>1. g # f
    BY <1>1, <1>5 DEF Carries
  <2> QED
    BY <1>2, <1>5, <2>1
<1>6. Promised'
  BY <1>1, <1>5, PromisedFrame
<1> QED
  BY <1>3, <1>4, <1>6

LEMMA HandlerFailKeeps ==
  ASSUME IInv, NEW n \in announcing, HandlerFails(n)
  PROVE  IInv'
<1> USE DEF IInv
<1>1. /\ announcing' = announcing \ {n}
      /\ UNCHANGED <<written, silent, shown, best, unlisted, streamed, ingesting, wire,
                     inbox, position, row, posts, known, fetches>>
  BY Zenon DEF HandlerFails, feedVars, socketVars, fetchVars, simVars
<1>2. Numbered'
  BY <1>1 DEF Numbered, JobsIn
<1> QED
  BY <1>1, <1>2, TypesFrame, PromisedFrame

\* The reply to the console's own POST asks for the list too.
LEMMA ReplyKeeps ==
  ASSUME IInv, NEW n \in posts, PostReply(n)
  PROVE  IInv'
<1> USE DEF IInv
<1>1. /\ posts' = posts \ {n}
      /\ UNCHANGED <<written, announcing, silent, shown, best, unlisted, streamed, ingesting,
                     wire, inbox, position, row, known>>
      /\ fetches' = fetches \cup {Fetch("jobs", "reply", n)} \/ fetches' = fetches
  BY Zenon DEF PostReply, feedVars, socketVars, simVars
<1>2. Fetch("jobs", "reply", n) \in Request
  BY FetchFields DEF ListTypes
<1>3. ListTypes'
  BY <1>1, <1>2 DEF ListTypes
<1>4. Numbered' /\ Promised'
  BY <1>1, NumberedFrame, PromisedFrame
<1> QED
  BY <1>3, <1>4

\* The simulator sends pings, no lists.
LEMMA SimulatorKeeps ==
  ASSUME IInv, Toggle \/ Step \/ Burst
  PROVE  IInv'
<1> USE DEF IInv
<1>1. UNCHANGED <<written, announcing, silent, shown, best, unlisted, streamed, ingesting,
                  wire, fetches, known, row, posts>>
  BY Zenon DEF Toggle, Step, Burst, writeVars, feedVars, socketVars, fetchVars
<1>2. position' \in Nat /\ inbox' \in Seq(Message)
  <2>1. CASE Toggle
    BY <2>1 DEF Toggle, socketVars, ListTypes
  <2>2. CASE Step
    <3>1. /\ position' = position + 1
          /\ inbox' = inbox \/ inbox' = Append(inbox, Ping(position + 1))
      BY <2>2, Zenon DEF Step, Send
    <3>2. position + 1 \in Nat /\ inbox \in Seq(Message)
      BY DEF ListTypes
    <3>3. Ping(position + 1) \in Message
      BY <3>2 DEF Ping, Message
    <3> QED
      BY <3>1, <3>2, <3>3, Extended
  <2>3. CASE Burst
    <3>1. /\ position' = position
          /\ inbox' = inbox \/ inbox' = Append(inbox, Pings)
      BY <2>3, Zenon DEF Burst, Send
    <3>2. position \in Nat /\ inbox \in Seq(Message)
      BY DEF ListTypes
    <3>3. Pings \in Message
      BY BoundAssumption DEF Pings, Elsewhere, Message
    <3> QED
      BY <3>1, <3>2, <3>3, Extended
  <2> QED
    BY <2>1, <2>2, <2>3
<1>3. ListTypes'
  BY <1>1, <1>2 DEF ListTypes
<1> QED
  BY <1>1, <1>3, NumberedFrame, PromisedFrame

LEMMA InvStep == IInv /\ [Next]_vars => IInv'
<1> SUFFICES ASSUME IInv, [Next]_vars
             PROVE  IInv'
  OBVIOUS
<1>1. CASE JobWrite \/ JobUpdate \/ CreateJob
  <2>1. PICK n : /\ Write(n) /\ silent \subseteq silent'
                 /\ posts' = posts \/ posts' = posts \cup {n}
    BY <1>1 DEF JobWrite, JobUpdate, CreateJob
  <2> QED
    BY <2>1, WriteKeeps
<1>2. CASE UNCHANGED vars
  <2>1. /\ UNCHANGED <<written, shown, best, streamed, ingesting, wire, inbox, position,
                       fetches, row, posts>>
        /\ UNCHANGED <<announcing, silent, unlisted, known>>
    BY <1>2, Zenon DEF vars, writeVars, feedVars, socketVars, fetchVars, simVars
  <2> QED
    BY <2>1, TypesFrame, NumberedFrame, PromisedFrame DEF IInv
<1> QED
  BY <1>1, <1>2, AnnounceKeeps, GatewayKeeps, SocketKeeps, MessageKeeps, ServeKeeps,
     AnswerKeeps, FetchFailKeeps, HandlerFailKeeps, ReplyKeeps, SimulatorKeeps
  DEF Next, BackendStep, ConsoleStep

THEOREM Invariance == Spec => []IInv
BY InvInit, InvStep, PTL DEF Spec

\* For any number of writes and overlapping requests, a console that shows the newest
\* jobs list it ever had, with no other under way, misses no job event it was given
\* but those without a status and those whose own request failed.
THEOREM ListsAreFresh == Spec => []ListFresh
<1>1. IInv => ListFresh
  BY DEF IInv, Promised, Carries, ListFresh, NoFetch
<1> QED
  BY <1>1, Invariance, PTL
-----------------------------------------------------------------------------
(* The marker.  A ping passes the inbox, the ingestion and the wire on its way *)
(* back to the map; the newest one that is anywhere on it is where the         *)
(* simulator has the driver (Newest), as long as nothing led the marker        *)
(* astray.  Whatever the history, nothing is on a socket that is not open, and *)
(* the gateway attaches the console before it reads a ping of it (Attaching);  *)
(* the timer is armed only while there is no socket (Waiting).                 *)

Waiting == reconnectTimer # "null" => link = "none"

Attaching ==
  /\ link # "open" => inbox = <<>> /\ wire = <<>> /\ ~ attached
  /\ \A i \in DOMAIN inbox : inbox[i] = Identify => i = 1
  /\ link = "open" /\ ~ attached => inbox # <<>> /\ inbox[1] = Identify

Sent        == inbox # <<>> /\ inbox[Len(inbox)] # Identify
FeedFree(q) == \A i \in DOMAIN q : q[i].event # "feed"
LastFeed(q) == {i \in DOMAIN q : /\ q[i].event = "feed"
                                 /\ \A k \in DOMAIN q : q[k].event = "feed" => k <= i}

WireNewest ==
  /\ \A i \in LastFeed(wire) : wire[i].n = position
  /\ FeedFree(wire) => marker.at = position \/ marker.by = "row"

Newest ==
  /\ ~ Bursting
  /\ Sent => inbox[Len(inbox)].n = position
  /\ ~ Sent /\ ingesting # <<>> => attached /\ ingesting[Len(ingesting)].n = position
  /\ ~ Sent /\ ingesting = <<>> => WireNewest

Followed == Attaching /\ (~ astray => Newest)

LEMMA FollowedInit == Init => Followed
<1> SUFFICES ASSUME Init
             PROVE  Followed
  OBVIOUS
<1>1. /\ link = "opening" /\ attached = FALSE
      /\ inbox = <<>> /\ ingesting = <<>> /\ wire = <<>>
      /\ marker = [at |-> 0, by |-> "row"]
  BY Zenon DEF Init
<1>2. Attaching
  BY <1>1 DEF Attaching
<1>3. Newest
  BY <1>1 DEF Newest, Bursting, WireNewest, Sent, LastFeed
<1> QED
  BY <1>2, <1>3 DEF Followed

\* Steps the marker and its pings have no part in.
LEMMA FollowedFrame ==
  ASSUME Followed, UNCHANGED <<astray, link, attached, inbox, ingesting, wire, position,
                              marker>>
  PROVE  Followed'
BY DEF Followed, Attaching, Newest, Bursting, WireNewest, Sent

\* The messages of the three kinds are told apart.
LEMMA Kinds == Pings # Identify /\ \A n : Ping(n) # Identify /\ Ping(n) # Pings
BY DEF Pings, Identify, Ping

\* A queue of one.
LEMMA LastOne ==
  ASSUME NEW M, NEW q \in Seq(M), q # <<>>
  PROVE  /\ Tail(q) = <<>> <=> Len(q) = 1
         /\ Len(q) = 1 => Head(q) = q[Len(q)]
         /\ Len(q) # 1 => Tail(q)[Len(Tail(q))] = q[Len(q)]
<1>1. Len(q) \in Nat \ {0} /\ Len(Tail(q)) = Len(q) - 1 /\ Tail(q) \in Seq(M)
  OBVIOUS
<1>2. Tail(q) = <<>> <=> Len(Tail(q)) = 0
  BY <1>1
<1>3. Tail(q) = <<>> <=> Len(q) = 1
  BY <1>1, <1>2
<1> QED
  BY <1>1, <1>3

\* The last position on the wire when an event joins it, and when one is read.
LEMMA FeedsAppend ==
  ASSUME NEW q \in Seq(Event), NEW e \in Event
  PROVE  /\ Append(q, e) # <<>>
         /\ e.event = "feed" => /\ ~ FeedFree(Append(q, e))
                                /\ \A i \in LastFeed(Append(q, e)) : Append(q, e)[i] = e
         /\ e.event # "feed" => /\ FeedFree(Append(q, e)) => FeedFree(q)
                                /\ \A i \in LastFeed(Append(q, e)) :
                                     i \in LastFeed(q) /\ Append(q, e)[i] = q[i]
<1> DEFINE r == Append(q, e)
<1>1. /\ Len(q) \in Nat /\ DOMAIN q = 1 .. Len(q) /\ DOMAIN r = 1 .. Len(q) + 1
      /\ r[Len(q) + 1] = e /\ \A i \in 1 .. Len(q) : r[i] = q[i]
      /\ r # <<>>
  OBVIOUS
<1> HIDE DEF r
<1>2. e.event = "feed" => ~ FeedFree(r) /\ \A i \in LastFeed(r) : r[i] = e
  BY <1>1 DEF FeedFree, LastFeed
<1>3. e.event # "feed" => (FeedFree(r) => FeedFree(q))
  BY <1>1 DEF FeedFree
<1>4. ASSUME e.event # "feed", NEW i \in LastFeed(r)
      PROVE  i \in LastFeed(q) /\ r[i] = q[i]
  BY <1>1, <1>4 DEF LastFeed
<1> QED
  BY <1>1, <1>2, <1>3, <1>4 DEF r

LEMMA FeedsTail ==
  ASSUME NEW q \in Seq(Event), q # <<>>
  PROVE  /\ \A i \in LastFeed(Tail(q)) : i + 1 \in LastFeed(q) /\ Tail(q)[i] = q[i + 1]
         /\ Head(q) = q[1]
         /\ FeedFree(Tail(q)) /\ Head(q).event = "feed" => 1 \in LastFeed(q)
         /\ FeedFree(Tail(q)) /\ Head(q).event # "feed" => FeedFree(q)
<1> DEFINE r == Tail(q)
<1>1. /\ Len(q) \in Nat \ {0} /\ DOMAIN q = 1 .. Len(q) /\ DOMAIN r = 1 .. Len(q) - 1
      /\ \A i \in 1 .. Len(q) - 1 : r[i] = q[i + 1]
      /\ Head(q) = q[1]
  OBVIOUS
<1>2. \A k \in 2 .. Len(q) : k - 1 \in DOMAIN r /\ r[k - 1] = q[k]
  BY <1>1
<1> HIDE DEF r
<1>3. ASSUME NEW i \in LastFeed(r)
      PROVE  i + 1 \in LastFeed(q) /\ r[i] = q[i + 1]
  <2>1. /\ i \in 1 .. Len(q) - 1 /\ r[i].event = "feed"
        /\ \A k \in 1 .. Len(q) - 1 : r[k].event = "feed" => k <= i
    BY <1>1 DEF LastFeed
  <2>2. i + 1 \in 1 .. Len(q) /\ r[i] = q[i + 1]
    BY <1>1, <2>1
  <2>3. ASSUME NEW k \in 1 .. Len(q), q[k].event = "feed"
        PROVE  k <= i + 1
    <3>1. CASE k = 1
      BY <2>1, <3>1
    <3>2. CASE k # 1
      <4>1. k - 1 \in 1 .. Len(q) - 1 /\ r[k - 1] = q[k]
        BY <1>1, <1>2, <3>2
      <4> QED
        BY <1>1, <2>1, <2>3, <4>1
    <3> QED
      BY <3>1, <3>2
  <2> QED
    BY <1>1, <2>1, <2>2, <2>3 DEF LastFeed
<1>4. FeedFree(r) => \A k \in 2 .. Len(q) : q[k].event # "feed"
  BY <1>1, <1>2 DEF FeedFree
<1>5. FeedFree(r) /\ Head(q).event = "feed" => 1 \in LastFeed(q)
  BY <1>1, <1>4 DEF LastFeed
<1>6. FeedFree(r) /\ Head(q).event # "feed" => FeedFree(q)
  BY <1>1, <1>4 DEF FeedFree
<1> QED
  BY <1>1, <1>3, <1>5, <1>6 DEF r

\* A job event on the wire.
LEMMA AnnounceFollows ==
  ASSUME IInv, Followed, NEW n \in announcing, Announce(n)
  PROVE  Followed'
<1>1. /\ UNCHANGED <<astray, link, attached, inbox, ingesting, position, marker>>
      /\ \/ wire' = wire
         \/ attached /\ link = "open" /\ wire' = Append(wire, Job(n))
  BY Zenon DEF Announce, Broadcast, feedVars, simVars, mapVars
<1>2. CASE wire' = wire
  BY <1>1, <1>2, FollowedFrame
<1>3. CASE link = "open" /\ wire' = Append(wire, Job(n))
  <2>1. wire \in Seq(Event)
    BY DEF IInv, ListTypes
  <2>2. Job(n) \in Event /\ Job(n).event # "feed"
    BY DEF Job, Event, IInv, Numbered, ListTypes
  <2>3. /\ FeedFree(wire') => FeedFree(wire)
        /\ \A i \in LastFeed(wire') : i \in LastFeed(wire) /\ wire'[i] = wire[i]
    BY <1>3, <2>1, <2>2, FeedsAppend
  <2>4. Newest => Newest'
    <3>1. WireNewest => WireNewest'
      BY <1>1, <2>3 DEF WireNewest
    <3> QED
      BY <1>1, <3>1 DEF Newest, Bursting, Sent
  <2>5. Attaching => Attaching'
    BY <1>1, <1>3 DEF Attaching
  <2> QED
    BY <1>1, <2>4, <2>5 DEF Followed
<1> QED
  BY <1>1, <1>2, <1>3

\* The gateway reads a message.
LEMMA ReceiveFollows ==
  ASSUME IInv, Followed, Receive
  PROVE  Followed'
<1> DEFINE left == IF Head(inbox) = Pings THEN BurstSize - 1 ELSE 0
<1>1. /\ inbox # <<>> /\ link = "open" /\ inbox' = Tail(inbox)
      /\ UNCHANGED <<astray, link, wire, position, marker>>
      /\ \/ Head(inbox) = Identify /\ attached' = TRUE /\ ingesting' = ingesting
         \/ /\ Head(inbox) # Identify /\ attached' = attached
            /\ ingesting' = Append(ingesting, [n |-> Head(inbox).n, left |-> left])
  BY Zenon DEF Receive, simVars, mapVars
<1>2. Attaching /\ inbox \in Seq(Message) /\ ingesting \in Seq(Entry)
  BY DEF Followed, IInv, ListTypes
<1>3. /\ Len(inbox) \in Nat \ {0} /\ Head(inbox) = inbox[1] /\ Head(inbox).n \in Nat
      /\ DOMAIN inbox = 1 .. Len(inbox)
      /\ Len(inbox') = Len(inbox) - 1 /\ DOMAIN inbox' = 1 .. Len(inbox) - 1
      /\ \A i \in 1 .. Len(inbox) - 1 : inbox'[i] = inbox[i + 1]
      /\ inbox' = <<>> <=> Len(inbox) = 1
  <2>1. /\ Len(inbox) \in Nat \ {0} /\ Head(inbox) = inbox[1] /\ Head(inbox) \in Message
        /\ DOMAIN inbox = 1 .. Len(inbox)
        /\ Len(inbox') = Len(inbox) - 1 /\ DOMAIN inbox' = 1 .. Len(inbox) - 1
        /\ \A i \in 1 .. Len(inbox) - 1 : inbox'[i] = inbox[i + 1]
    BY <1>1, <1>2
  <2>2. inbox' = <<>> <=> Len(inbox) = 1
    BY <1>1, <1>2, LastOne
  <2>3. Head(inbox).n \in Nat
    BY <2>1 DEF Message
  <2> QED
    BY <2>1, <2>2, <2>3
<1>4. ASSUME NEW i \in DOMAIN inbox'
      PROVE  i + 1 \in DOMAIN inbox /\ inbox'[i] = inbox[i + 1] /\ inbox'[i] # Identify
  <2>1. i \in 1 .. Len(inbox) - 1 /\ inbox'[i] = inbox[i + 1]
    BY <1>3, <1>4
  <2>2. i + 1 \in DOMAIN inbox /\ i + 1 # 1
    BY <1>3, <2>1
  <2> QED
    BY <1>2, <2>1, <2>2 DEF Attaching
<1>5. attached' = TRUE \/ (attached /\ attached' = attached)
  BY <1>1, <1>2, <1>3 DEF Attaching
<1>6. Attaching'
  BY <1>1, <1>2, <1>4, <1>5 DEF Attaching
<1> SUFFICES ASSUME Newest
             PROVE  Newest'
  BY <1>1, <1>6 DEF Followed
<1>7. ~ Bursting'
  <2>1. ~ Bursting /\ 1 \in DOMAIN inbox
    BY <1>3 DEF Newest
  <2>2. Head(inbox) # Pings
    BY <1>3, <2>1 DEF Bursting
  <2>3. left = 0
    BY <2>2
  <2> HIDE DEF left
  <2>4. \A i \in DOMAIN inbox' : inbox'[i] # Pings
    BY <1>4, <2>1 DEF Bursting
  <2>5. ASSUME NEW i \in DOMAIN ingesting'
        PROVE  ~ (ingesting'[i].left > 0)
    <3>1. CASE ingesting' = ingesting
      BY <2>1, <2>5, <3>1 DEF Bursting
    <3>2. CASE ingesting' = Append(ingesting, [n |-> Head(inbox).n, left |-> left])
      <4>1. CASE i = Len(ingesting) + 1
        BY <1>2, <2>3, <3>2, <4>1
      <4>2. CASE i # Len(ingesting) + 1
        <5>1. i \in DOMAIN ingesting /\ ingesting'[i] = ingesting[i]
          BY <1>2, <2>5, <3>2, <4>2
        <5> QED
          BY <2>1, <5>1 DEF Bursting
      <4> QED
        BY <4>1, <4>2
    <3> QED
      BY <1>1, <3>1, <3>2
  <2> QED
    BY <2>4, <2>5 DEF Bursting
<1> HIDE DEF left
<1>8. WireNewest' <=> WireNewest
  BY <1>1 DEF WireNewest
<1>9. CASE Len(inbox) # 1
  <2>1. Len(inbox') \in DOMAIN inbox' /\ Len(inbox') + 1 = Len(inbox) /\ inbox' # <<>>
    BY <1>3, <1>9
  <2>2. Sent /\ Sent' /\ inbox'[Len(inbox')] = inbox[Len(inbox)]
    BY <1>1, <1>4, <2>1 DEF Sent
  <2> QED
    BY <1>1, <1>7, <2>2 DEF Newest
<1>10. CASE Len(inbox) = 1 /\ Head(inbox) # Identify
  <2>1. Sent /\ ~ Sent' /\ Head(inbox).n = position
    BY <1>1, <1>3, <1>10 DEF Sent, Newest
  <2>2. ingesting' # <<>> /\ ingesting'[Len(ingesting')].n = position
    BY <1>1, <1>2, <1>10, <2>1
  <2> QED
    BY <1>1, <1>5, <1>7, <2>1, <2>2 DEF Newest
<1>11. CASE Len(inbox) = 1 /\ Head(inbox) = Identify
  <2>1. ~ Sent /\ ~ Sent' /\ ingesting' = ingesting
    BY <1>1, <1>3, <1>11 DEF Sent
  <2> QED
    BY <1>1, <1>5, <1>7, <1>8, <2>1 DEF Newest
<1> QED
  BY <1>9, <1>10, <1>11

\* What is left of ingestion when its first ping is through or rejected.
LEMMA IngestedTail ==
  ASSUME IInv, Newest, ingesting # <<>>, ingesting' = Tail(ingesting), inbox' = inbox
  PROVE  /\ ~ Bursting'
         /\ Tail(ingesting) = <<>> => Head(ingesting) = ingesting[Len(ingesting)]
         /\ Tail(ingesting) # <<>> =>
              ingesting'[Len(ingesting')] = ingesting[Len(ingesting)]
<1>1. ingesting \in Seq(Entry) /\ ~ Bursting
  BY DEF IInv, ListTypes, Newest
<1>2. ASSUME NEW i \in DOMAIN ingesting'
      PROVE  ~ (ingesting'[i].left > 0)
  <2>1. i + 1 \in DOMAIN ingesting /\ ingesting'[i] = ingesting[i + 1]
    BY <1>1, <1>2
  <2> QED
    BY <1>1, <2>1 DEF Bursting
<1>3. ~ Bursting'
  BY <1>1, <1>2 DEF Bursting
<1> QED
  BY <1>1, <1>3, LastOne

\* A position is broadcast.
LEMMA EchoFollows ==
  ASSUME IInv, Followed, Echo
  PROVE  Followed'
<1> DEFINE p == Head(ingesting)
<1>1. /\ ingesting # <<>>
      /\ ingesting' = Tail(ingesting) \o
           (IF p.left > 0 THEN <<[n |-> p.n, left |-> p.left - 1]>> ELSE <<>>)
      /\ wire' = IF attached /\ link = "open" THEN Append(wire, Feed(p.n)) ELSE wire
      /\ UNCHANGED <<astray, link, attached, inbox, position, marker>>
  BY Zenon DEF Echo, Broadcast, simVars, mapVars
<1>2. Attaching /\ wire \in Seq(Event) /\ ingesting \in Seq(Entry)
  BY DEF Followed, IInv, ListTypes
<1>3. Attaching'
  BY <1>1, <1>2 DEF Attaching
<1> SUFFICES ASSUME Newest
             PROVE  Newest'
  BY <1>1, <1>3 DEF Followed
<1>4. ~ (p.left > 0)
  <2>1. 1 \in DOMAIN ingesting /\ p = ingesting[1]
    BY <1>1, <1>2
  <2> QED
    BY <2>1 DEF Newest, Bursting
<1>5. ingesting' = Tail(ingesting)
  <2>1. ingesting' = Tail(ingesting) \o <<>>
    BY <1>1, <1>4
  <2> QED
    BY <1>1, <1>2, <2>1
<1>6. /\ ~ Bursting'
      /\ Tail(ingesting) = <<>> => p = ingesting[Len(ingesting)]
      /\ Tail(ingesting) # <<>> => ingesting'[Len(ingesting')] = ingesting[Len(ingesting)]
  BY <1>1, <1>5, IngestedTail
<1>7. p.n \in Nat /\ Feed(p.n) \in Event /\ Feed(p.n).event = "feed" /\ Feed(p.n).n = p.n
  <2>1. p \in Entry
    BY <1>1, <1>2
  <2>2. p.n \in Nat
    BY <2>1 DEF Entry
  <2> QED
    BY <2>2 DEF Feed, Event
<1> HIDE DEF p
<1>8. ASSUME attached, p.n = position
      PROVE  WireNewest'
  <2>1. wire' = Append(wire, Feed(p.n))
    BY <1>1, <1>2, <1>8 DEF Attaching
  <2>2. /\ ~ FeedFree(Append(wire, Feed(p.n)))
        /\ \A i \in LastFeed(Append(wire, Feed(p.n))) :
             Append(wire, Feed(p.n))[i] = Feed(p.n)
    BY <1>2, <1>7, FeedsAppend
  <2> QED
    BY <1>1, <1>7, <1>8, <2>1, <2>2 DEF WireNewest
<1>9. CASE Tail(ingesting) = <<>>
  <2>1. ~ Sent => attached /\ p.n = position
    BY <1>1, <1>6, <1>9 DEF Newest
  <2> QED
    BY <1>1, <1>5, <1>6, <1>8, <1>9, <2>1 DEF Newest, Sent
<1>10. CASE Tail(ingesting) # <<>>
  BY <1>1, <1>5, <1>6, <1>10 DEF Newest, Sent
<1> QED
  BY <1>9, <1>10

\* A ping is rejected: an older one than the newest, or the marker goes astray.
LEMMA PingFailFollows ==
  ASSUME IInv, Followed, PingFails
  PROVE  Followed'
<1>1. /\ ingesting # <<>> /\ ingesting' = Tail(ingesting)
      /\ ~ astray' => ~ astray /\ Head(ingesting).n # position
      /\ UNCHANGED <<link, attached, wire, inbox, position, marker>>
  BY Zenon DEF PingFails, socketVars, simVars
<1>2. Attaching'
  BY <1>1 DEF Followed, Attaching
<1> SUFFICES ASSUME Newest, Head(ingesting).n # position
             PROVE  Newest'
  BY <1>1, <1>2 DEF Followed
<1>3. /\ ~ Bursting'
      /\ Tail(ingesting) = <<>> => Head(ingesting) = ingesting[Len(ingesting)]
      /\ Tail(ingesting) # <<>> => ingesting'[Len(ingesting')] = ingesting[Len(ingesting)]
  BY <1>1, IngestedTail
<1> QED
  BY <1>1, <1>3 DEF Newest, Sent

LEMMA WaitingStep == Waiting /\ [Next]_vars => Waiting'
<1> SUFFICES ASSUME Waiting, [Next]_vars
             PROVE  Waiting'
  OBVIOUS
<1>1. ASSUME UNCHANGED <<link, reconnectTimer>>
      PROVE  Waiting'
  BY <1>1 DEF Waiting
<1>2. CASE JobWrite \/ JobUpdate \/ CreateJob
  <2>1. PICK n : Write(n)
    BY <1>2 DEF JobWrite, JobUpdate, CreateJob
  <2>2. UNCHANGED <<link, reconnectTimer>>
    BY <2>1, Zenon DEF Write, socketVars
  <2> QED
    BY <1>1, <2>2
<1>3. CASE Open \/ Break \/ Notice \/ Close \/ Reconnect
  BY <1>3 DEF Open, Break, Notice, Close, Reconnect, Waiting
<1>4. CASE \/ \E n \in announcing : Announce(n) \/ HandlerFails(n)
           \/ \E n \in posts : PostReply(n)
           \/ \E f \in fetches : Serve(f) \/ Answer(f) \/ FetchFails(f)
  <2>1. UNCHANGED <<link, reconnectTimer>>
    BY <1>4, Zenon DEF Announce, HandlerFails, PostReply, Serve, Answer, FetchFails, socketVars
  <2> QED
    BY <1>1, <2>1
<1>5. CASE \/ Receive \/ Echo \/ StoreRow \/ PingFails \/ PhonePing \/ OnMessage
           \/ Toggle \/ Step \/ Burst \/ UNCHANGED vars
  <2>1. UNCHANGED <<link, reconnectTimer>>
    BY <1>5, Zenon DEF Receive, Echo, StoreRow, PingFails, PhonePing, OnMessage, Toggle, Step,
                       Burst, vars, socketVars
  <2> QED
    BY <1>1, <2>1
<1> QED
  BY <1>2, <1>3, <1>4, <1>5 DEF Next, BackendStep, ConsoleStep

\* The socket opens, or is lost: with nothing on its way, or the marker goes astray.
LEMMA SocketFollows ==
  ASSUME Followed, Waiting, Open \/ Break \/ Notice \/ Close \/ Reconnect
  PROVE  Followed'
<1>1. CASE Break
  <2>1. /\ ~ astray' => ~ astray /\ Quiet
        /\ link' # "open" /\ attached' = FALSE /\ inbox' = <<>> /\ wire' = <<>>
        /\ UNCHANGED <<ingesting, position, marker>>
    BY <1>1, Zenon DEF Break, feedVars, simVars
  <2>2. Attaching'
    BY <2>1 DEF Attaching
  <2>3. Newest /\ Quiet => Newest'
    <3> SUFFICES ASSUME Newest, Quiet
                 PROVE  Newest'
      OBVIOUS
    <3>1. UNCHANGED <<inbox, wire, ingesting, position, marker>> /\ ~ Sent
      BY <2>1 DEF Quiet, Sent
    <3>2. WireNewest
      BY <3>1 DEF Newest, Quiet
    <3>3. WireNewest' /\ ~ Sent' /\ ~ Bursting' /\ ingesting' = <<>>
      BY <3>1, <3>2 DEF WireNewest, Sent, Bursting, Newest, Quiet
    <3> QED
      BY <3>3 DEF Newest
  <2> QED
    BY <2>1, <2>2, <2>3 DEF Followed
<1>2. CASE Notice \/ Close \/ Reconnect
  <2>1. UNCHANGED <<astray, attached, inbox, wire, ingesting, position, marker>>
    BY <1>2, Zenon DEF Notice, Close, Reconnect, feedVars, simVars, mapVars
  <2>2. link # "open" /\ link' # "open"
    BY <1>2 DEF Notice, Close, Reconnect, Waiting
  <2>3. Attaching'
    BY <2>1, <2>2 DEF Followed, Attaching
  <2>4. Newest => Newest'
    BY <2>1 DEF Newest, Bursting, WireNewest, Sent
  <2> QED
    BY <2>1, <2>3, <2>4 DEF Followed
<1>3. CASE Open
  <2>1. /\ link = "opening" /\ link' = "open" /\ inbox' = <<Identify>>
        /\ UNCHANGED <<astray, attached, wire, ingesting, position, marker>>
    BY <1>3, Zenon DEF Open, feedVars, simVars, mapVars
  <2>2. /\ Len(inbox') = 1 /\ inbox'[1] = Identify /\ DOMAIN inbox' = {1} /\ inbox' # <<>>
    BY <2>1
  <2>3. inbox = <<>> /\ ~ attached /\ ~ Sent /\ ~ Sent'
    BY <2>1, <2>2 DEF Followed, Attaching, Sent
  <2>4. Attaching'
    BY <2>1, <2>2 DEF Attaching
  <2>5. Newest => Newest'
    <3>1. WireNewest => WireNewest'
      BY <2>1 DEF WireNewest
    <3>2. ~ Bursting => ~ Bursting'
      BY <2>1, <2>2, Kinds DEF Bursting
    <3> QED
      BY <2>1, <2>3, <3>1, <3>2 DEF Newest
  <2> QED
    BY <2>1, <2>4, <2>5 DEF Followed
<1> QED
  BY <1>1, <1>2, <1>3

\* The console reads an event.
LEMMA MessageFollows ==
  ASSUME IInv, Followed, OnMessage
  PROVE  Followed'
<1> DEFINE e == Head(wire)
<1>1. /\ wire # <<>> /\ wire' = Tail(wire)
      /\ UNCHANGED <<astray, link, attached, inbox, ingesting, position>>
      /\ \/ e.event = "feed" /\ marker' = [at |-> e.n, by |-> "feed"]
         \/ e.event = "job" /\ marker' = marker
  BY Zenon DEF OnMessage, SetMarker, feedVars, simVars
<1>2. wire \in Seq(Event)
  BY DEF IInv, ListTypes
<1>3. /\ \A i \in LastFeed(wire') : i + 1 \in LastFeed(wire) /\ wire'[i] = wire[i + 1]
      /\ FeedFree(wire') /\ e.event = "feed" => 1 \in LastFeed(wire) /\ e = wire[1]
      /\ FeedFree(wire') /\ e.event # "feed" => FeedFree(wire)
  BY <1>1, <1>2, FeedsTail
<1> HIDE DEF e
<1>4. Newest => Newest'
  <2>1. ASSUME WireNewest, FeedFree(wire')
        PROVE  marker'.at = position \/ marker'.by = "row"
    <3>1. CASE e.event = "feed"
      BY <1>1, <1>3, <2>1, <3>1 DEF WireNewest
    <3>2. CASE e.event # "feed"
      BY <1>1, <1>3, <2>1, <3>2 DEF WireNewest
    <3> QED
      BY <3>1, <3>2
  <2>2. ASSUME WireNewest, NEW i \in LastFeed(wire')
        PROVE  wire'[i].n = position
    BY <1>3, <2>2 DEF WireNewest
  <2>3. WireNewest => WireNewest'
    BY <1>1, <2>1, <2>2 DEF WireNewest
  <2> QED
    BY <1>1, <2>3 DEF Newest, Bursting, Sent
<1>5. Attaching => Attaching'
  BY <1>1 DEF Attaching
<1> QED
  BY <1>1, <1>4, <1>5 DEF Followed

\* An answer to fetchDrivers puts the marker where the row is.
LEMMA AnswerFollows ==
  ASSUME IInv, Followed, NEW f \in fetches, Answer(f)
  PROVE  Followed'
<1>1. UNCHANGED <<astray, link, attached, inbox, ingesting, wire, position>>
  BY Zenon DEF Answer, feedVars, socketVars, simVars
<1>2. marker' = marker \/ marker'.by = "row"
  BY DEF Answer, ShowJobs, ShowDrivers, ShowMetrics, SetMarker
<1>3. WireNewest => WireNewest'
  BY <1>1, <1>2 DEF WireNewest
<1> QED
  BY <1>1, <1>3 DEF Followed, Attaching, Newest, Bursting, Sent

\* Another message joins those of an open socket.
LEMMA SendKeepsAttaching ==
  ASSUME IInv, Attaching, NEW m, m # Identify, Send(m), UNCHANGED <<link, attached, wire>>
  PROVE  Attaching'
<1>1. inbox \in Seq(Message)
  BY DEF IInv, ListTypes
<1>2. CASE link # "open"
  BY <1>2 DEF Send, Attaching
<1>3. CASE link = "open"
  <2>1. /\ Len(inbox) \in Nat /\ DOMAIN inbox = 1 .. Len(inbox)
        /\ DOMAIN inbox' = 1 .. Len(inbox) + 1 /\ inbox' # <<>>
        /\ inbox'[Len(inbox) + 1] = m
        /\ \A i \in 1 .. Len(inbox) : inbox'[i] = inbox[i]
    BY <1>1, <1>3 DEF Send
  <2>2. ASSUME NEW i \in DOMAIN inbox', inbox'[i] = Identify
        PROVE  i = 1
    <3>1. i \in DOMAIN inbox /\ inbox[i] = Identify
      BY <2>1, <2>2
    <3> QED
      BY <3>1 DEF Attaching
  <2>3. ~ attached => inbox'[1] = Identify
    <3>1. inbox # <<>> => 1 \in 1 .. Len(inbox)
      BY <1>1
    <3> QED
      BY <1>3, <2>1, <3>1 DEF Attaching
  <2> QED
    BY <1>3, <2>1, <2>2, <2>3 DEF Attaching
<1> QED
  BY <1>2, <1>3

\* The simulator moves the driver and, on an open socket, tells of it.
LEMMA StepFollows ==
  ASSUME IInv, Followed, Step
  PROVE  Followed'
<1> DEFINE n == position + 1
<1>1. /\ position' = n /\ marker' = [at |-> n, by |-> "step"]
      /\ inbox' = IF link = "open" THEN Append(inbox, Ping(n)) ELSE inbox
      /\ Send(Ping(n))
      /\ ~ astray' => ~ Bursting /\ (link # "open" => ingesting = <<>>)
      /\ UNCHANGED <<link, attached, ingesting, wire>>
  <2>1. /\ position' = n /\ Send(Ping(n)) /\ SetMarker(n, "step")
        /\ UNCHANGED <<link, attached, ingesting, wire>>
    BY DEF Step, feedVars
  <2>2. ~ astray' => ~ Bursting /\ (link # "open" => ingesting = <<>>)
    BY Zenon DEF Step
  <2> QED
    BY <2>1, <2>2, Zenon DEF Send, SetMarker
<1> HIDE DEF n
<1>2. Attaching /\ inbox \in Seq(Message)
  BY DEF Followed, IInv, ListTypes
<1>3. Attaching'
  BY <1>1, <1>2, Kinds, SendKeepsAttaching
<1> SUFFICES ASSUME ~ Bursting, link # "open" => ingesting = <<>>
             PROVE  Newest'
  BY <1>1, <1>3 DEF Followed
<1>4. CASE link = "open"
  <2>1. Ping(n) # Identify /\ Ping(n) # Pings /\ Ping(n).n = n
    BY Kinds DEF Ping
  <2>2. /\ Len(inbox) \in Nat /\ Len(inbox') = Len(inbox) + 1
        /\ DOMAIN inbox = 1 .. Len(inbox) /\ DOMAIN inbox' = 1 .. Len(inbox) + 1
        /\ inbox'[Len(inbox) + 1] = Ping(n) /\ inbox' # <<>>
        /\ \A i \in 1 .. Len(inbox) : inbox'[i] = inbox[i]
    BY <1>1, <1>2, <1>4
  <2>3. ASSUME NEW i \in DOMAIN inbox', inbox'[i] = Pings
        PROVE  FALSE
    <3>1. i \in DOMAIN inbox /\ inbox[i] = Pings
      BY <2>1, <2>2, <2>3
    <3> QED
      BY <3>1 DEF Bursting
  <2>4. ~ Bursting'
    BY <1>1, <2>3 DEF Bursting
  <2> QED
    BY <1>1, <2>1, <2>2, <2>4 DEF Sent, Newest
<1>5. CASE link # "open"
  <2>1. inbox = <<>> /\ inbox' = <<>> /\ ingesting = <<>> /\ wire = <<>>
    BY <1>1, <1>2, <1>5 DEF Attaching
  <2>2. ~ Bursting'
    BY <1>1, <2>1 DEF Bursting
  <2> QED
    BY <1>1, <2>1, <2>2 DEF Newest, WireNewest, Sent, LastFeed
<1> QED
  BY <1>4, <1>5

\* Other positions of the driver: the marker goes astray, if they are sent at all.
LEMMA StrayFollows ==
  ASSUME IInv, Followed, Burst \/ PhonePing
  PROVE  Followed'
<1>1. CASE PhonePing
  <2>1. astray' = TRUE /\ UNCHANGED <<link, attached, inbox, wire>>
    BY <1>1, Zenon DEF PhonePing, socketVars
  <2> QED
    BY <2>1 DEF Followed, Attaching
<1>2. CASE Burst
  <2>1. UNCHANGED <<link, attached, wire, ingesting, position, marker>>
    BY <1>2, Zenon DEF Burst, feedVars
  <2>2. Send(Pings)
    BY <1>2 DEF Burst
  <2>3. Attaching'
    BY <2>1, <2>2, Kinds, SendKeepsAttaching DEF Followed
  <2>4. link # "open" => inbox' = inbox
    BY <2>2 DEF Send
  <2>5. link # "open" /\ Newest => Newest'
    BY <2>1, <2>4 DEF Newest, Bursting, WireNewest, Sent
  <2>6. ~ astray' => ~ astray /\ link # "open"
    BY <1>2, Zenon DEF Burst
  <2> QED
    BY <2>3, <2>5, <2>6 DEF Followed
<1> QED
  BY <1>1, <1>2

LEMMA FollowedStep == IInv /\ Waiting /\ Followed /\ [Next]_vars => Followed'
<1> SUFFICES ASSUME IInv, Waiting, Followed, [Next]_vars
             PROVE  Followed'
  OBVIOUS
<1> DEFINE Still == UNCHANGED <<astray, link, attached, inbox, ingesting, wire, position,
                               marker>>
<1>1. CASE JobWrite \/ JobUpdate \/ CreateJob
  <2>1. PICK n : Write(n)
    BY <1>1 DEF JobWrite, JobUpdate, CreateJob
  <2>2. Still
    BY <2>1, Zenon DEF Write, feedVars, socketVars, simVars, mapVars
  <2> QED
    BY <2>2, FollowedFrame
<1>2. ASSUME \/ \E n \in announcing : HandlerFails(n)
             \/ \E f \in fetches : FetchFails(f) \/ Serve(f)
             \/ \E n \in posts : PostReply(n)
      PROVE  Followed'
  <2>1. Still
    BY <1>2, Zenon DEF HandlerFails, FetchFails, Serve, PostReply, feedVars, socketVars,
                       simVars, mapVars
  <2> QED
    BY <2>1, FollowedFrame
<1>3. ASSUME StoreRow \/ Toggle \/ UNCHANGED vars
      PROVE  Followed'
  <2>1. Still
    BY <1>3, Zenon DEF StoreRow, Toggle, vars, feedVars, socketVars, simVars, mapVars
  <2> QED
    BY <2>1, FollowedFrame
<1> QED
  BY <1>1, <1>2, <1>3, AnnounceFollows, ReceiveFollows, EchoFollows, PingFailFollows,
     SocketFollows, MessageFollows, AnswerFollows, StepFollows, StrayFollows
  DEF Next, BackendStep, ConsoleStep

\* For any number of steps, jobs and requests, breaks of the socket, bursts and rejected
\* pings: once nothing is on its way the marker is where the simulator has the driver,
\* unless the newest position itself was lost or rejected, other positions of the driver
\* came after it, or a row of the table was fetched over it.
THEOREM MarkersSettle == Spec => []MarkerSettles
<1>1. IInv /\ Followed => MarkerSettles
  BY DEF Followed, Newest, WireNewest, Sent, FeedFree, MarkerSettles, Quiet
<1>2. Init => Waiting
  BY DEF Init, Waiting
<1> QED
  BY <1>1, <1>2, WaitingStep, FollowedInit, FollowedStep, Invariance, PTL DEF Spec
=============================================================================
