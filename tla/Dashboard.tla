------------------------------ MODULE Dashboard ------------------------------
(***************************************************************************)
(* DashboardServer (host/dashboard/server.ts) and the page it serves: a    *)
(* listener to everything on the bus, a buffer for pages that come late,   *)
(* and pages that lose their connection and come back.  The host that      *)
(* emits is that of Swarm.                                                 *)
(***************************************************************************)
EXTENDS Swarm

CONSTANTS
  Pages,          \* that have the token, if one is asked for
  MaxBuffered     \* maxBufferSize, and the most rows of a page

ASSUME DashboardAssumption == MaxBuffered \in Nat \ {0}

VARIABLES
  up,             \* whether the server has been started
  places,         \* of its handlers among those of everything
  stream,         \* history: the messages those were called with
  eventBuffer,
  pages           \* at, the events on its wire, of which the first init come in one
                  \*   message, and its rows, the oldest first

dashboardVars == <<up, places, stream, eventBuffer, pages>>

DashboardInit ==
  /\ up = FALSE /\ places = {} /\ stream = << >> /\ eventBuffer = << >>
  /\ pages = [p \in Pages |-> [at |-> "away", init |-> 0, wire |-> << >>, rows |-> << >>]]

Latest(s) == SubSeq(s, IF Len(s) > MaxBuffered THEN Len(s) - MaxBuffered + 1 ELSE 1, Len(s))

Clients == {p \in Pages : pages[p].at = "client"}

\* Mutant: a full buffer takes nothing more.
BufferUntilFull(m) == IF Len(eventBuffer) < MaxBuffered THEN Append(eventBuffer, m) ELSE eventBuffer

Buffered(m) == Latest(Append(eventBuffer, m))

\* The handler: buffers, and sends to every client.
Hear(m) ==
  /\ stream' = Append(stream, m)
  /\ eventBuffer' = Buffered(m)
  /\ pages' = [p \in Pages |-> IF p \in Clients THEN [pages[p] EXCEPT !.wire = Append(@, m)]
                                                ELSE pages[p]]

\* A step of the bus calls at most one handler.
Notice ==
  /\ UNCHANGED <<up, places>>
  /\ IF Len(heard') > Len(heard) /\ Last(heard').array = "*" /\ Last(heard').place \in places
       THEN Hear(Last(heard').msg)
       ELSE UNCHANGED <<stream, eventBuffer, pages>>

-----------------------------------------------------------------------------
\* Nothing synchronous is running: the server and its sockets get their turn.
EventLoop == calls = << >> /\ run.at \in {"rest", "done", "threw"}

\* start, by code of the host; it subscribes each time.
Start ==
  /\ ~up /\ HostRuns
  /\ Subscribe("*")
  /\ up' = TRUE /\ places' = places \cup {listeners'["*"]}
  /\ UNCHANGED <<run, stream, eventBuffer, pages>>

\* stop: its pages may still get what was sent; its handlers stay on the bus.
Stop ==
  /\ up /\ HostRuns
  /\ up' = FALSE
  /\ pages' = [p \in Pages |-> IF p \in Clients THEN [pages[p] EXCEPT !.at = "left"] ELSE pages[p]]
  /\ UNCHANGED <<deliveryVars, run, places, stream, eventBuffer>>

\* on('connection'): INIT is the first thing on the wire; an empty one does nothing.
Connect(p) ==
  /\ up /\ EventLoop /\ pages[p].at = "away"
  /\ pages' = [pages EXCEPT ![p].at = "client", ![p].wire = eventBuffer,
                           ![p].init = Len(eventBuffer)]
  /\ UNCHANGED <<deliveryVars, run, up, places, stream, eventBuffer>>

\* onmessage: addEvent for each event.
Receive(p) ==
  /\ pages[p].wire # << >>
  /\ LET wire == pages[p].wire
         taken == IF pages[p].init = 0 THEN 1 ELSE pages[p].init
     IN pages' = [pages EXCEPT ![p].init = 0,
                               ![p].wire = SubSeq(wire, taken + 1, Len(wire)),
                               ![p].rows = Latest(@ \o SubSeq(wire, 1, taken))]
  /\ UNCHANGED <<deliveryVars, run, up, places, stream, eventBuffer>>

\* onclose, with or without a stop: what was on the wire is lost, the rows stay,
\* and the page connects again.
Disconnect(p) ==
  /\ EventLoop /\ pages[p].at # "away"
  /\ pages' = [pages EXCEPT ![p].at = "away", ![p].init = 0, ![p].wire = << >>]
  /\ UNCHANGED <<deliveryVars, run, up, places, stream, eventBuffer>>

DashboardStep ==
  \/ Start \/ Stop
  \/ \E p \in Pages : Connect(p) \/ Receive(p) \/ Disconnect(p)

-----------------------------------------------------------------------------
\* A page that is connected shows, once it has received what is on its wire, the
\* latest events that the server was told of, in their order and without a gap,
\* however often it lost its connection and the server was stopped and started.
PageShowsLatest ==
  \A p \in Clients :
    LET shown == pages[p].rows \o pages[p].wire
        latest == Latest(stream)
    IN /\ Len(shown) >= Len(latest)
       /\ SubSeq(shown, Len(shown) - Len(latest) + 1, Len(shown)) = latest
=============================================================================
