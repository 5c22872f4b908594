------------------------------ MODULE Delivery ------------------------------
(***************************************************************************)
(* How KernelBus.emit (kernel/bus.ts) and SwarmProtocol.send               *)
(* (swarm/protocol.ts) call handlers: at once, one after the other, over   *)
(* arrays that grow meanwhile.  A handler may send and subscribe itself;   *)
(* what it throws ends every delivery up to the handler or host that       *)
(* catches.  Nobody is ever unsubscribed, so a handler is its place in an  *)
(* array.                                                                  *)
(***************************************************************************)
EXTENDS Naturals, Sequences, SequencesExt

CONSTANTS
  EventKinds, Channels,
  MaxMessages, MaxListeners     \* bounds of the model: messages, handlers per array

ASSUME DeliveryAssumption ==
  /\ EventKinds \cap Channels = {} /\ "*" \notin EventKinds \cup Channels
  /\ MaxMessages \in Nat /\ MaxListeners \in Nat

VARIABLES
  listeners,      \* how many handlers each array has
  messages,       \* messageLog, and for the bus history; known and after are
                  \*   history: the listeners then, and the length of heard
  calls,          \* the stack: which handler of which message is running
  heard,          \* history: the calls in the order they began
  returned        \* history: messages whose emit or send returned

deliveryVars == <<listeners, messages, calls, heard, returned>>

Arrays == EventKinds \cup {"*"} \cup Channels

DeliveryInit ==
  /\ listeners = [a \in Arrays |-> 0]
  /\ messages = << >> /\ calls = << >> /\ heard = << >> /\ returned = {}

\* The arrays that a message walks; `to' plays no part.
Walked(topic) == IF topic \in EventKinds THEN <<topic, "*">> ELSE <<topic>>

\* The places that delivery d still has before it, as the arrays are now.
Ahead(d) ==
  LET walked == Walked(d.topic)
  IN {h \in (DOMAIN walked) \X (1..MaxListeners) :
        /\ h[2] <= listeners[walked[h[1]]]
        /\ h[1] > d.array \/ (h[1] = d.array /\ h[2] > d.place)}

\* Delivery d, on top of those below it, calls its next handler or returns.
Proceed(below, d) ==
  IF Ahead(d) = {}
    THEN /\ calls' = below /\ returned' = returned \cup {d.msg}
         /\ UNCHANGED heard
    ELSE \E h \in Ahead(d) :
           /\ \A g \in Ahead(d) : h[1] < g[1] \/ (h[1] = g[1] /\ h[2] <= g[2])
           /\ calls' = Append(below, [d EXCEPT !.array = h[1], !.place = h[2]])
           /\ heard' = Append(heard, [msg |-> d.msg, array |-> Walked(d.topic)[h[1]], place |-> h[2]])
           /\ UNCHANGED returned

\* subscribe
Subscribe(a) ==
  /\ listeners[a] < MaxListeners
  /\ listeners' = [listeners EXCEPT ![a] = @ + 1]
  /\ UNCHANGED <<messages, calls, heard, returned>>

Log(topic, body) ==
  /\ Len(messages) < MaxMessages
  /\ messages' = Append(messages, [topic |-> topic, body |-> body,
                                  known |-> listeners, after |-> Len(heard)])

Begun(topic) == [msg |-> Len(messages) + 1, topic |-> topic, array |-> 1, place |-> 0]

\* Mutant: what a handler sends is put off until the handlers after it have run.
SendLater(topic, body) ==
  /\ Log(topic, body)
  /\ IF calls = << >>
       THEN Proceed(calls, Begun(topic))
       ELSE /\ calls' = <<Begun(topic)>> \o calls
            /\ UNCHANGED <<heard, returned>>
  /\ UNCHANGED listeners

\* send and emit
Send(topic, body) ==
  /\ Log(topic, body)
  /\ Proceed(calls, Begun(topic))
  /\ UNCHANGED listeners

HandlerReturns ==
  /\ calls # << >>
  /\ Proceed(Front(calls), Last(calls))
  /\ UNCHANGED <<listeners, messages>>

\* Mutant: the loop is left, the exception is not passed on.
ThrowSwallowed(n) ==
  /\ n < Len(calls)
  /\ calls' = SubSeq(calls, 1, n)
  /\ returned' = returned \cup {calls[i].msg : i \in (n + 1)..Len(calls)}
  /\ UNCHANGED <<listeners, messages, heard>>

\* A handler throws, and one that runs n deep catches, or for 0 no handler does.
HandlerThrows(n) ==
  /\ n < Len(calls)
  /\ calls' = SubSeq(calls, 1, n)
  /\ UNCHANGED <<listeners, messages, heard, returned>>

-----------------------------------------------------------------------------
\* A message whose send returned has been heard by each handler that was there
\* when it was sent; and no handler, late ones included, hears a message twice.
ReturnedReachedAll ==
  LET Hearings(m, a, p) == {i \in DOMAIN heard : heard[i] = [msg |-> m, array |-> a, place |-> p]}
  IN \A m \in DOMAIN messages, a \in Arrays, p \in 1..MaxListeners :
       /\ \A i, j \in Hearings(m, a, p) : i = j
       /\ m \in returned /\ p <= messages[m].known[a]
            /\ (a = messages[m].topic \/ (a = "*" /\ messages[m].topic \in EventKinds))
          => Hearings(m, a, p) # {}

\* Handlers hear a message in the order they subscribed in, those of its kind
\* before those of everything; and once a message is sent, none hears an earlier
\* one before the calls for this one are over: later handlers of the earlier
\* message know this one first.
DeliveryIsOrdered ==
  /\ \A i, j \in DOMAIN heard :
       i < j /\ heard[i].msg = heard[j].msg =>
         \/ heard[i].array # "*" /\ heard[j].array = "*"
         \/ heard[i].array = heard[j].array /\ heard[i].place < heard[j].place
  /\ \A n \in DOMAIN messages, j, k \in DOMAIN heard :
       heard[k].msg < n /\ k > messages[n].after /\ heard[j].msg = n => j < k
=============================================================================
