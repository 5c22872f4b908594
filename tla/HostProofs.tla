------------------------------ MODULE HostProofs ------------------------------
(***************************************************************************)
(* What holds of the parts of a host, for any number of handlers, messages,*)
(* agents, voters, pages and plugins: deliveries on the bus and the swarm's*)
(* channels, votes, execute, the dashboard, and the registry with plugins. *)
(*                                                                         *)
(* The argument about deliveries, which the others build on, is about the  *)
(* stack of those that run.  A message is sent on top of the one whose     *)
(* handler sends it, so the messages on the stack grow upwards, and only the*)
(* topmost can be heard next; a delivery takes the nearest place before it,*)
(* so those it has passed have heard.                                      *)
(***************************************************************************)
EXTENDS Host, ToolProofs, FiniteSetTheorems, SequenceTheorems, WellFoundedInduction, TLAPS

-----------------------------------------------------------------------------
(* Deliveries.                                                             *)

Topics == EventKinds \cup Channels

IsSequence(s) == \E S : s \in Seq(S)

\* The calls of handlers, and the deliveries that make them.
Hearing == [msg : Nat, array : Arrays, place : Nat]
Delivery == [msg : Nat, topic : Topics, array : {1, 2}, place : Nat]

HeardBy(hs, m, a, p) == \E k \in DOMAIN hs : hs[k] = [msg |-> m, array |-> a, place |-> p]

\* Place p of array q of what d walks is not ahead of d.
Passed(d, q, p) == q < d.array \/ (q = d.array /\ p <= d.place)

\* The log: who was known when is still there, and calls made since come after.
LogOK(ls, ms, hs) ==
  /\ ls \in [Arrays -> 0..MaxListeners]
  /\ IsSequence(ms)
  /\ \A n \in DOMAIN ms : /\ ms[n].topic \in Topics
                          /\ ms[n].known \in [Arrays -> 0..MaxListeners]
                          /\ \A a \in Arrays : ms[n].known[a] <= ls[a]
                          /\ ms[n].after \in 0..Len(hs)

\* DeliveryIsOrdered, of any log and calls.
Ordered(ms, hs) ==
  /\ \A i, j \in DOMAIN hs :
       i < j /\ hs[i].msg = hs[j].msg =>
         \/ hs[i].array # "*" /\ hs[j].array = "*"
         \/ hs[i].array = hs[j].array /\ hs[i].place < hs[j].place
  /\ \A n \in DOMAIN ms, j, k \in DOMAIN hs :
       hs[k].msg < n /\ k > ms[n].after /\ hs[j].msg = n => j < k

HeardOK(ms, hs) ==
  /\ hs \in Seq(Hearing)
  /\ \A k \in DOMAIN hs : hs[k].msg \in DOMAIN ms
  /\ Ordered(ms, hs)

\* What delivery d has behind it: its message was heard at places it has passed
\* only, by all of them that were known, and since it was sent by no handler of
\* an earlier message.
Behind(ms, hs, d) ==
  /\ \A k \in DOMAIN hs : hs[k].msg = d.msg =>
       \E q \in DOMAIN Walked(d.topic) : /\ hs[k].array = Walked(d.topic)[q]
                                         /\ Passed(d, q, hs[k].place)
  /\ \A k \in DOMAIN hs : hs[k].msg < d.msg => k <= ms[d.msg].after
  /\ \A q \in DOMAIN Walked(d.topic), p \in 1..MaxListeners :
       Passed(d, q, p) /\ p <= ms[d.msg].known[Walked(d.topic)[q]]
         => HeardBy(hs, d.msg, Walked(d.topic)[q], p)

Running(ms, hs, d) ==
  /\ d \in Delivery
  /\ d.msg \in DOMAIN ms /\ d.topic = ms[d.msg].topic
  /\ d.array \in DOMAIN Walked(d.topic)
  /\ Behind(ms, hs, d)

StackOK(ms, hs, cs) ==
  /\ cs \in Seq(Delivery)
  /\ \A i \in DOMAIN cs : Running(ms, hs, cs[i])
  /\ \A i, j \in DOMAIN cs : i < j => cs[i].msg < cs[j].msg

\* A message whose delivery returned was heard at every place that was known.
ReturnedOK(ms, hs, rs) ==
  \A m \in rs : /\ m \in DOMAIN ms
                /\ \A q \in DOMAIN Walked(ms[m].topic), p \in 1..MaxListeners :
                     p <= ms[m].known[Walked(ms[m].topic)[q]]
                       => HeardBy(hs, m, Walked(ms[m].topic)[q], p)

Sound(ls, ms, cs, hs, rs) ==
  /\ LogOK(ls, ms, hs) /\ HeardOK(ms, hs)
  /\ StackOK(ms, hs, cs) /\ ReturnedOK(ms, hs, rs)

DInv == Sound(listeners, messages, calls, heard, returned)

-----------------------------------------------------------------------------
\* What appending to a sequence does, spelled out.
LEMMA AppendGrows ==
  ASSUME NEW S, NEW s \in Seq(S), NEW e \in S
  PROVE  /\ Append(s, e) \in Seq(S)
         /\ Len(s) \in Nat /\ DOMAIN s = 1..Len(s)
         /\ Len(Append(s, e)) = Len(s) + 1
         /\ DOMAIN Append(s, e) = 1..(Len(s) + 1)
         /\ Append(s, e)[Len(s) + 1] = e
         /\ \A i \in 1..Len(s) : Append(s, e)[i] = s[i]
  OBVIOUS

LEMMA AppendAnything ==
  ASSUME NEW s, IsSequence(s), NEW e
  PROVE  /\ IsSequence(Append(s, e))
         /\ Len(s) \in Nat /\ DOMAIN s = 1..Len(s)
         /\ Len(Append(s, e)) = Len(s) + 1
         /\ DOMAIN Append(s, e) = 1..(Len(s) + 1)
         /\ Append(s, e)[Len(s) + 1] = e
         /\ \A i \in 1..Len(s) : Append(s, e)[i] = s[i]
<1>1. PICK S : s \in Seq(S)
  BY DEF IsSequence
<1>2. s \in Seq(S \cup {e})
  BY <1>1
<1>3. QED
  BY <1>2, AppendGrows DEF IsSequence

\* What a message walks: its own array, and for events that of everything.
LEMMA WalkedArrays ==
  ASSUME NEW t \in Topics
  PROVE  /\ 1 \in DOMAIN Walked(t) /\ DOMAIN Walked(t) \subseteq {1, 2}
         /\ Walked(t)[1] = t /\ t # "*"
         /\ 2 \in DOMAIN Walked(t) => Walked(t)[2] = "*"
         /\ 2 \in DOMAIN Walked(t) <=> t \in EventKinds
         /\ \A q \in DOMAIN Walked(t) : Walked(t)[q] \in Arrays
  BY DeliveryAssumption DEF Walked, Topics, Arrays

\* Who has heard has heard, whatever is heard next.
LEMMA HeardStays ==
  ASSUME NEW hs \in Seq(Hearing), NEW x \in Hearing, NEW m, NEW a, NEW p,
         HeardBy(hs, m, a, p)
  PROVE  HeardBy(Append(hs, x), m, a, p)
  BY AppendGrows DEF HeardBy

-----------------------------------------------------------------------------
\* A message is logged, and its delivery pushed before it has called anyone.
LEMMA PushSound ==
  ASSUME NEW ls, NEW ms, NEW cs, NEW hs, NEW rs, Sound(ls, ms, cs, hs, rs),
         NEW topic \in Topics, NEW e,
         e.topic = topic, e.known = ls, e.after = Len(hs),
         NEW d \in Delivery, d.msg = Len(ms) + 1, d.topic = topic, d.array = 1, d.place = 0
  PROVE  Sound(ls, Append(ms, e), Append(cs, d), hs, rs)
<1> DEFINE ms2 == Append(ms, e)
<1>1. /\ IsSequence(ms) /\ hs \in Seq(Hearing) /\ cs \in Seq(Delivery)
      /\ ls \in [Arrays -> 0..MaxListeners]
  BY DEF Sound, LogOK, HeardOK, StackOK
<1>2. /\ IsSequence(ms2) /\ Len(ms) \in Nat /\ DOMAIN ms = 1..Len(ms)
      /\ DOMAIN ms2 = 1..(Len(ms) + 1) /\ ms2[Len(ms) + 1] = e
      /\ \A i \in 1..Len(ms) : ms2[i] = ms[i]
  BY <1>1, AppendAnything
<1>3. Len(hs) \in Nat /\ DOMAIN hs = 1..Len(hs)
  BY <1>1
<1> HIDE DEF ms2
<1>4. LogOK(ls, ms2, hs)
  <2>1. /\ e.topic \in Topics /\ e.known \in [Arrays -> 0..MaxListeners]
        /\ \A a \in Arrays : e.known[a] <= ls[a]
        /\ e.after \in 0..Len(hs)
    BY <1>1, <1>3
  <2>2. \A n \in DOMAIN ms : /\ ms2[n].topic \in Topics
                             /\ ms2[n].known \in [Arrays -> 0..MaxListeners]
                             /\ \A a \in Arrays : ms2[n].known[a] <= ls[a]
                             /\ ms2[n].after \in 0..Len(hs)
    BY <1>2 DEF Sound, LogOK
  <2>3. \A n \in DOMAIN ms2 : n \in DOMAIN ms \/ n = Len(ms) + 1
    BY <1>2
  <2>4. QED
    BY <1>1, <1>2, <2>1, <2>2, <2>3 DEF LogOK
<1>5. \A k \in DOMAIN hs : hs[k].msg \in 1..Len(ms)
  BY <1>2 DEF Sound, HeardOK
<1>6. HeardOK(ms2, hs)
  <2>1. Ordered(ms, hs)
    BY DEF Sound, HeardOK
  <2>2. ASSUME NEW n \in DOMAIN ms2, NEW j \in DOMAIN hs, NEW k \in DOMAIN hs,
               hs[k].msg < n, k > ms2[n].after, hs[j].msg = n
        PROVE  j < k
    <3>1. n \in DOMAIN ms /\ ms2[n] = ms[n]
      BY <1>2, <1>5, <2>2
    <3>2. QED
      BY <2>1, <2>2, <3>1 DEF Ordered
  <2>3. Ordered(ms2, hs)
    BY <2>1, <2>2 DEF Ordered
  <2>4. QED
    BY <1>1, <1>2, <1>5, <2>3 DEF HeardOK
<1>7. StackOK(ms2, hs, Append(cs, d))
  <2>1. /\ Append(cs, d) \in Seq(Delivery) /\ Len(cs) \in Nat /\ DOMAIN cs = 1..Len(cs)
        /\ DOMAIN Append(cs, d) = 1..(Len(cs) + 1)
        /\ Append(cs, d)[Len(cs) + 1] = d
        /\ \A i \in 1..Len(cs) : Append(cs, d)[i] = cs[i]
    BY <1>1, AppendGrows
  <2>2. Running(ms2, hs, d)
    <3>1. d.msg \in DOMAIN ms2 /\ d.topic = ms2[d.msg].topic /\ d.array \in DOMAIN Walked(d.topic)
      BY <1>2, WalkedArrays
    <3>2. \A k \in DOMAIN hs : hs[k].msg # d.msg /\ k <= ms2[d.msg].after
      BY <1>2, <1>3, <1>5
    <3>3. \A q \in DOMAIN Walked(d.topic), p \in 1..MaxListeners : ~Passed(d, q, p)
      BY WalkedArrays, DeliveryAssumption DEF Passed
    <3>4. QED
      BY <3>1, <3>2, <3>3 DEF Running, Behind
  <2>3. ASSUME NEW i \in DOMAIN cs
        PROVE  Running(ms2, hs, cs[i]) /\ cs[i].msg < d.msg
    <3>1. Running(ms, hs, cs[i])
      BY DEF Sound, StackOK
    <3>2. cs[i].msg \in 1..Len(ms) /\ ms2[cs[i].msg] = ms[cs[i].msg]
      BY <1>2, <3>1 DEF Running
    <3>3. QED
      BY <1>2, <3>1, <3>2 DEF Running, Behind
  <2> DEFINE cs2 == Append(cs, d)
  <2>4. \A i \in DOMAIN cs2 : Running(ms2, hs, cs2[i])
    BY <2>1, <2>2, <2>3
  <2>5. ASSUME NEW i \in DOMAIN cs2, NEW j \in DOMAIN cs2, i < j
        PROVE  cs2[i].msg < cs2[j].msg
    <3>1. i \in DOMAIN cs /\ cs2[i] = cs[i]
      BY <2>1, <2>5
    <3>2. CASE j \in DOMAIN cs
      <4>1. cs2[j] = cs[j]
        BY <2>1, <3>2
      <4>2. QED
        BY <2>5, <3>1, <3>2, <4>1 DEF Sound, StackOK
    <3>3. CASE j = Len(cs) + 1
      BY <2>1, <2>3, <3>1, <3>3
    <3>4. QED
      BY <2>1, <3>2, <3>3
  <2>6. QED
    BY <2>1, <2>4, <2>5 DEF StackOK
<1>8. ReturnedOK(ms2, hs, rs)
  <2>1. ReturnedOK(ms, hs, rs)
    BY DEF Sound
  <2>2. \A m \in rs : m \in DOMAIN ms /\ m \in DOMAIN ms2 /\ ms2[m] = ms[m]
    BY <1>2, <2>1 DEF ReturnedOK
  <2>3. QED
    BY <2>1, <2>2 DEF ReturnedOK
<1>9. QED
  BY <1>4, <1>6, <1>7, <1>8 DEF Sound, ms2

\* What is below the topmost delivery, whatever becomes of that one.
LEMMA PopSound ==
  ASSUME NEW ls, NEW ms, NEW below, NEW d, NEW hs, NEW rs, below \in Seq(Delivery),
         Sound(ls, ms, Append(below, d), hs, rs), d \in Delivery
  PROVE  /\ Sound(ls, ms, below, hs, rs)
         /\ Running(ms, hs, d)
         /\ \A i \in DOMAIN below : below[i].msg < d.msg
<1> DEFINE cs == Append(below, d)
<1>1. /\ Len(below) \in Nat /\ DOMAIN below = 1..Len(below)
      /\ DOMAIN cs = 1..(Len(below) + 1) /\ cs[Len(below) + 1] = d
      /\ \A i \in 1..Len(below) : cs[i] = below[i]
  BY AppendGrows
<1> HIDE DEF cs
<1>2. StackOK(ms, hs, cs)
  BY DEF Sound, cs
<1>3. /\ \A i \in DOMAIN below : Running(ms, hs, below[i]) /\ below[i].msg < d.msg
      /\ \A i, j \in DOMAIN below : i < j => below[i].msg < below[j].msg
      /\ Running(ms, hs, d)
  BY <1>1, <1>2 DEF StackOK
<1>4. StackOK(ms, hs, below)
  BY <1>3 DEF StackOK
<1>5. QED
  BY <1>3, <1>4 DEF Sound

\* The topmost delivery has nothing ahead: it returns.
LEMMA ReturnSound ==
  ASSUME NEW ms, NEW below, NEW d, NEW hs, NEW rs, below \in Seq(Delivery), d \in Delivery,
         Sound(listeners, ms, Append(below, d), hs, rs), Ahead(d) = {}
  PROVE  Sound(listeners, ms, below, hs, rs \cup {d.msg})
<1>1. Sound(listeners, ms, below, hs, rs) /\ Running(ms, hs, d)
  BY PopSound
<1>2. ASSUME NEW q \in DOMAIN Walked(d.topic), NEW p \in 1..MaxListeners,
             p <= ms[d.msg].known[Walked(d.topic)[q]]
      PROVE  HeardBy(hs, d.msg, Walked(d.topic)[q], p)
  <2>1. /\ Walked(d.topic)[q] \in Arrays /\ q \in {1, 2} /\ d.topic \in Topics
        /\ d.array \in {1, 2} /\ d.place \in Nat /\ MaxListeners \in Nat
    BY WalkedArrays, DeliveryAssumption DEF Delivery
  <2>2. p <= listeners[Walked(d.topic)[q]]
    <3>1. /\ ms[d.msg].known[Walked(d.topic)[q]] \in 0..MaxListeners
          /\ listeners[Walked(d.topic)[q]] \in 0..MaxListeners
          /\ ms[d.msg].known[Walked(d.topic)[q]] <= listeners[Walked(d.topic)[q]]
      BY <1>1, <2>1 DEF Sound, LogOK, Running
    <3>2. QED
      BY <1>2, <3>1
  <2>3. Passed(d, q, p)
    <3> DEFINE h == <<q, p>>
    <3>1. h \in (DOMAIN Walked(d.topic)) \X (1..MaxListeners) /\ h[1] = q /\ h[2] = p
      OBVIOUS
    <3>2. ~(q > d.array \/ (q = d.array /\ p > d.place))
      BY <2>2, <3>1 DEF Ahead
    <3>3. QED
      BY <2>1, <3>2 DEF Passed
  <2>4. QED
    BY <1>1, <1>2, <2>3 DEF Running, Behind
<1>3. ReturnedOK(ms, hs, rs \cup {d.msg})
  <2>1. d.msg \in DOMAIN ms /\ d.topic = ms[d.msg].topic
    BY <1>1 DEF Running
  <2>2. QED
    BY <1>1, <1>2, <2>1 DEF Sound, ReturnedOK
<1>4. QED
  BY <1>1, <1>3 DEF Sound

\* The topmost delivery calls the nearest handler ahead of it.
LEMMA CallSound ==
  ASSUME NEW ms, NEW below, NEW d, NEW hs, NEW rs, below \in Seq(Delivery), d \in Delivery,
         Sound(listeners, ms, Append(below, d), hs, rs),
         NEW h \in Ahead(d), \A g \in Ahead(d) : h[1] < g[1] \/ (h[1] = g[1] /\ h[2] <= g[2]),
         NEW d2 \in Delivery, d2.msg = d.msg, d2.topic = d.topic, d2.array = h[1], d2.place = h[2],
         NEW x \in Hearing, x.msg = d.msg, x.array = Walked(d.topic)[h[1]], x.place = h[2]
  PROVE  Sound(listeners, ms, Append(below, d2), Append(hs, x), rs)
<1> DEFINE hs2 == Append(hs, x)
           cs2 == Append(below, d2)
           walked == Walked(d.topic)
<1>1. /\ Sound(listeners, ms, below, hs, rs) /\ Running(ms, hs, d)
      /\ \A i \in DOMAIN below : below[i].msg < d.msg
  BY PopSound
<1>2. /\ d.msg \in DOMAIN ms /\ d.msg \in Nat /\ d.topic = ms[d.msg].topic /\ d.topic \in Topics
      /\ d.array \in {1, 2} /\ d.place \in Nat
  BY <1>1 DEF Running, Delivery
<1>3. /\ h[1] \in DOMAIN walked /\ h[1] \in {1, 2} /\ h[2] \in 1..MaxListeners
      /\ h[1] > d.array \/ (h[1] = d.array /\ h[2] > d.place)
      /\ MaxListeners \in Nat
  BY <1>2, WalkedArrays, DeliveryAssumption DEF Ahead
<1>4. /\ hs2 \in Seq(Hearing) /\ hs \in Seq(Hearing) /\ Len(hs) \in Nat /\ DOMAIN hs = 1..Len(hs)
      /\ Len(hs2) = Len(hs) + 1 /\ DOMAIN hs2 = 1..(Len(hs) + 1)
      /\ hs2[Len(hs) + 1] = x
      /\ \A i \in 1..Len(hs) : hs2[i] = hs[i]
  BY <1>1, AppendGrows DEF Sound, HeardOK
<1>5. \A k \in DOMAIN hs2 : k \in DOMAIN hs \/ k = Len(hs) + 1
  BY <1>4
<1>6. /\ \A k \in DOMAIN hs : /\ hs[k].msg \in Nat /\ hs[k].msg \in DOMAIN ms
                              /\ hs[k].place \in Nat
      /\ \A k \in DOMAIN hs : hs2[k] = hs[k] /\ k \in Nat /\ k < Len(hs) + 1
  <2>1. \A k \in DOMAIN hs : hs[k] \in Hearing /\ hs[k].msg \in DOMAIN ms
    BY <1>1, <1>4 DEF Sound, HeardOK
  <2>2. \A k \in DOMAIN hs : hs[k].msg \in Nat /\ hs[k].place \in Nat
    BY <2>1 DEF Hearing
  <2>3. \A k \in DOMAIN hs : hs2[k] = hs[k] /\ k \in Nat /\ k < Len(hs) + 1
    BY <1>4
  <2>4. QED
    BY <2>1, <2>2, <2>3
<1>7. \A m, a, p : HeardBy(hs, m, a, p) => HeardBy(hs2, m, a, p)
  BY <1>4, HeardStays
<1>8. HeardBy(hs2, d.msg, walked[h[1]], h[2])
  <2>1. x = [msg |-> d.msg, array |-> walked[h[1]], place |-> h[2]]
    BY DEF Hearing
  <2>2. QED
    BY <1>4, <2>1 DEF HeardBy
<1> HIDE DEF hs2
<1>9. LogOK(listeners, ms, hs2)
  <2>1. \A n \in DOMAIN ms : ms[n].after \in 0..Len(hs2)
    BY <1>1, <1>4 DEF Sound, LogOK
  <2>2. QED
    BY <1>1, <2>1 DEF Sound, LogOK
\* Where the places passed before stand to the new one.
<1>10. ASSUME NEW q \in DOMAIN walked, NEW p \in Nat, Passed(d, q, p)
       PROVE  Passed(d2, q, p) /\ (q < h[1] \/ (q = h[1] /\ p < h[2]))
  <2>1. q \in {1, 2}
    BY <1>2, WalkedArrays
  <2>2. QED
    BY <1>2, <1>3, <1>10, <2>1 DEF Passed
<1>11. Behind(ms, hs2, d2)
  <2>1. ASSUME NEW k \in DOMAIN hs2, hs2[k].msg = d.msg
        PROVE  \E q \in DOMAIN walked : hs2[k].array = walked[q] /\ Passed(d2, q, hs2[k].place)
    <3>1. CASE k \in DOMAIN hs
      <4>1. PICK q \in DOMAIN walked : hs[k].array = walked[q] /\ Passed(d, q, hs[k].place)
        BY <1>1, <1>6, <2>1, <3>1 DEF Running, Behind
      <4>2. QED
        BY <1>6, <1>10, <3>1, <4>1
    <3>2. CASE k = Len(hs) + 1
      <4>1. hs2[k].array = walked[h[1]] /\ Passed(d2, h[1], hs2[k].place)
        BY <1>3, <1>4, <3>2 DEF Passed
      <4>2. QED
        BY <1>3, <4>1
    <3>3. QED
      BY <1>5, <3>1, <3>2
  <2>2. \A k \in DOMAIN hs2 : hs2[k].msg < d.msg => k <= ms[d.msg].after
    <3>1. \A k \in DOMAIN hs : hs[k].msg < d.msg => k <= ms[d.msg].after
      BY <1>1 DEF Running, Behind
    <3>2. ~(hs2[Len(hs) + 1].msg < d.msg)
      BY <1>2, <1>4
    <3>3. QED
      BY <1>5, <1>6, <3>1, <3>2
  <2>3. ASSUME NEW q \in DOMAIN walked, NEW p \in 1..MaxListeners,
               Passed(d2, q, p), p <= ms[d.msg].known[walked[q]]
        PROVE  HeardBy(hs2, d.msg, walked[q], p)
    <3>1. CASE Passed(d, q, p)
      BY <1>1, <1>7, <2>3, <3>1 DEF Running, Behind
    <3>2. CASE ~Passed(d, q, p)
      <4>1. q \in {1, 2} /\ walked[q] \in Arrays
        BY <1>2, WalkedArrays
      <4>2. p <= listeners[walked[q]]
        <5>1. /\ ms[d.msg].known[walked[q]] \in 0..MaxListeners
              /\ listeners[walked[q]] \in 0..MaxListeners
              /\ ms[d.msg].known[walked[q]] <= listeners[walked[q]]
          BY <1>1, <1>2, <4>1 DEF Sound, LogOK
        <5>2. QED
          BY <2>3, <5>1
      <4> DEFINE g == <<q, p>>
      <4>3. g \in (DOMAIN walked) \X (1..MaxListeners) /\ g[1] = q /\ g[2] = p
        OBVIOUS
      <4>4. q > d.array \/ (q = d.array /\ p > d.place)
        BY <1>2, <3>2, <4>1 DEF Passed
      <4>5. g \in Ahead(d)
        BY <4>2, <4>3, <4>4 DEF Ahead
      <4>6. h[1] < q \/ (h[1] = q /\ h[2] <= p)
        BY <4>3, <4>5
      <4>7. q = h[1] /\ p = h[2]
        BY <1>3, <2>3, <4>1, <4>6 DEF Passed
      <4>8. QED
        BY <1>8, <4>7
    <3>3. QED
      BY <3>1, <3>2
  <2>4. QED
    BY <2>1, <2>2, <2>3 DEF Behind
<1>12. Ordered(ms, hs2)
  <2>1. Ordered(ms, hs)
    BY <1>1 DEF Sound, HeardOK
  <2>2. ASSUME NEW i \in DOMAIN hs2, NEW j \in DOMAIN hs2, i < j, hs2[i].msg = hs2[j].msg
        PROVE  \/ hs2[i].array # "*" /\ hs2[j].array = "*"
               \/ hs2[i].array = hs2[j].array /\ hs2[i].place < hs2[j].place
    <3>1. i \in DOMAIN hs
      BY <1>4, <2>2
    <3>2. CASE j \in DOMAIN hs
      <4>1. hs2[i] = hs[i] /\ hs2[j] = hs[j]
        BY <1>6, <3>1, <3>2
      <4>2. QED
        BY <2>1, <2>2, <3>1, <3>2, <4>1 DEF Ordered
    <3>3. CASE j = Len(hs) + 1
      <4>1. /\ hs2[i] = hs[i] /\ hs[i].msg = d.msg /\ hs[i].place \in Nat
            /\ hs2[j].array = walked[h[1]] /\ hs2[j].place = h[2]
        BY <1>4, <1>6, <2>2, <3>1, <3>3
      <4>2. PICK q \in DOMAIN walked : hs[i].array = walked[q] /\ Passed(d, q, hs[i].place)
        BY <1>1, <3>1, <4>1 DEF Running, Behind
      <4>3. q < h[1] \/ (q = h[1] /\ hs[i].place < h[2])
        BY <1>10, <4>1, <4>2
      <4>4. CASE q < h[1]
        <5>1. q = 1 /\ h[1] = 2
          BY <1>2, <1>3, <4>4, WalkedArrays
        <5>2. walked[1] # "*" /\ walked[2] = "*"
          BY <1>2, <1>3, <5>1, WalkedArrays
        <5>3. QED
          BY <4>1, <4>2, <5>1, <5>2
      <4>5. CASE q = h[1] /\ hs[i].place < h[2]
        BY <4>1, <4>2, <4>5
      <4>6. QED
        BY <4>3, <4>4, <4>5
    <3>4. QED
      BY <1>5, <3>2, <3>3
  <2>3. ASSUME NEW n \in DOMAIN ms, NEW j \in DOMAIN hs2, NEW k \in DOMAIN hs2,
               hs2[k].msg < n, k > ms[n].after, hs2[j].msg = n
        PROVE  j < k
    <3>1. CASE j \in DOMAIN hs /\ k \in DOMAIN hs
      <4>1. hs2[j] = hs[j] /\ hs2[k] = hs[k]
        BY <1>6, <3>1
      <4>2. QED
        BY <2>1, <2>3, <3>1, <4>1 DEF Ordered
    <3>2. CASE j = Len(hs) + 1
      <4>1. n = d.msg
        BY <1>4, <2>3, <3>2
      <4>2. k <= ms[d.msg].after
        BY <1>11, <2>3, <4>1 DEF Behind
      <4>3. ms[d.msg].after \in Nat /\ k \in Nat
        BY <1>2, <1>4, <1>9 DEF LogOK
      <4>4. QED
        BY <2>3, <4>1, <4>2, <4>3
    <3>3. CASE j \in DOMAIN hs /\ k = Len(hs) + 1
      BY <1>6, <3>3
    <3>4. QED
      BY <1>5, <3>1, <3>2, <3>3
  <2>4. QED
    BY <2>2, <2>3 DEF Ordered
<1>13. HeardOK(ms, hs2)
  <2>1. \A k \in DOMAIN hs2 : hs2[k].msg \in DOMAIN ms
    BY <1>2, <1>4, <1>5, <1>6
  <2>2. QED
    BY <1>4, <1>12, <2>1 DEF HeardOK
<1>14. ASSUME NEW i \in DOMAIN below
       PROVE  Running(ms, hs2, below[i])
  <2> DEFINE b == below[i]
  <2>1. Running(ms, hs, b) /\ b.msg < d.msg /\ b.msg \in Nat
    BY <1>1 DEF Sound, StackOK, Running, Delivery
  <2> HIDE DEF b
  <2>2. ~(hs2[Len(hs) + 1].msg = b.msg) /\ ~(hs2[Len(hs) + 1].msg < b.msg)
    BY <1>2, <1>4, <2>1
  <2>3. \A k \in DOMAIN hs2 : hs2[k].msg = b.msg =>
          \E q \in DOMAIN Walked(b.topic) : /\ hs2[k].array = Walked(b.topic)[q]
                                            /\ Passed(b, q, hs2[k].place)
    BY <1>5, <1>6, <2>1, <2>2 DEF Running, Behind
  <2>4. \A k \in DOMAIN hs2 : hs2[k].msg < b.msg => k <= ms[b.msg].after
    BY <1>5, <1>6, <2>1, <2>2 DEF Running, Behind
  <2>5. \A q \in DOMAIN Walked(b.topic), p \in 1..MaxListeners :
          Passed(b, q, p) /\ p <= ms[b.msg].known[Walked(b.topic)[q]]
            => HeardBy(hs2, b.msg, Walked(b.topic)[q], p)
    BY <1>7, <2>1 DEF Running, Behind
  <2>6. QED
    BY <2>1, <2>3, <2>4, <2>5 DEF Running, Behind, b
<1>15. StackOK(ms, hs2, cs2)
  <2>1. /\ cs2 \in Seq(Delivery) /\ Len(below) \in Nat /\ DOMAIN below = 1..Len(below)
        /\ DOMAIN cs2 = 1..(Len(below) + 1) /\ cs2[Len(below) + 1] = d2
        /\ \A i \in 1..Len(below) : cs2[i] = below[i]
    BY AppendGrows
  <2> HIDE DEF cs2
  <2>2. Running(ms, hs2, d2)
    BY <1>2, <1>3, <1>11 DEF Running
  <2>3. \A i \in DOMAIN cs2 : Running(ms, hs2, cs2[i])
    BY <1>14, <2>1, <2>2
  <2>4. ASSUME NEW i \in DOMAIN cs2, NEW j \in DOMAIN cs2, i < j
        PROVE  cs2[i].msg < cs2[j].msg
    <3>1. i \in DOMAIN below /\ cs2[i] = below[i]
      BY <2>1, <2>4
    <3>2. CASE j \in DOMAIN below
      BY <1>1, <2>1, <2>4, <3>1, <3>2 DEF Sound, StackOK
    <3>3. CASE j = Len(below) + 1
      BY <1>1, <2>1, <3>1, <3>3
    <3>4. QED
      BY <2>1, <3>2, <3>3
  <2>5. QED
    BY <2>1, <2>3, <2>4 DEF StackOK
<1>16. ReturnedOK(ms, hs2, rs)
  BY <1>1, <1>7 DEF Sound, ReturnedOK
<1>17. QED
  BY <1>9, <1>13, <1>15, <1>16 DEF Sound, hs2, cs2

\* The topmost delivery goes on.
LEMMA ProceedSound ==
  ASSUME NEW ms, NEW below, NEW d, below \in Seq(Delivery), d \in Delivery,
         Sound(listeners, ms, Append(below, d), heard, returned),
         Proceed(below, d)
  PROVE  Sound(listeners, ms, calls', heard', returned')
<1>1. CASE Ahead(d) = {}
  BY <1>1, ReturnSound DEF Proceed
<1>2. CASE Ahead(d) # {}
  <2>1. PICK h \in Ahead(d) :
          /\ \A g \in Ahead(d) : h[1] < g[1] \/ (h[1] = g[1] /\ h[2] <= g[2])
          /\ calls' = Append(below, [d EXCEPT !.array = h[1], !.place = h[2]])
          /\ heard' = Append(heard, [msg |-> d.msg, array |-> Walked(d.topic)[h[1]], place |-> h[2]])
          /\ UNCHANGED returned
    BY <1>2 DEF Proceed
  <2> DEFINE d2 == [d EXCEPT !.array = h[1], !.place = h[2]]
             x == [msg |-> d.msg, array |-> Walked(d.topic)[h[1]], place |-> h[2]]
  <2>2. d.msg \in Nat /\ d.topic \in Topics
    BY DEF Delivery
  <2>3. /\ h[1] \in {1, 2} /\ h[2] \in Nat /\ Walked(d.topic)[h[1]] \in Arrays
    BY <2>2, WalkedArrays, DeliveryAssumption DEF Ahead
  <2>4. d2 \in Delivery /\ d2.msg = d.msg /\ d2.topic = d.topic /\ d2.array = h[1] /\ d2.place = h[2]
    BY <2>2, <2>3 DEF Delivery
  <2>5. x \in Hearing /\ x.msg = d.msg /\ x.array = Walked(d.topic)[h[1]] /\ x.place = h[2]
    BY <2>2, <2>3 DEF Hearing
  <2>6. calls' = Append(below, d2) /\ heard' = Append(heard, x) /\ returned' = returned
    BY <2>1
  <2>7. \A g \in Ahead(d) : h[1] < g[1] \/ (h[1] = g[1] /\ h[2] <= g[2])
    BY <2>1
  <2> HIDE DEF d2, x
  <2>8. Sound(listeners, ms, Append(below, d2), Append(heard, x), returned)
    BY <2>4, <2>5, <2>7, CallSound
  <2>9. QED
    BY <2>6, <2>8
<1>3. QED
  BY <1>1, <1>2

LEMMA SendKeepsDInv ==
  ASSUME DInv, NEW topic \in Topics, NEW body, Send(topic, body)
  PROVE  DInv'
<1> DEFINE e == [topic |-> topic, body |-> body, known |-> listeners, after |-> Len(heard)]
           d == Begun(topic)
<1>1. messages' = Append(messages, e) /\ listeners' = listeners /\ Proceed(calls, d)
  BY DEF Send, Log
<1>2. e.topic = topic /\ e.known = listeners /\ e.after = Len(heard)
  OBVIOUS
<1>3. /\ d \in Delivery /\ d.msg = Len(messages) + 1 /\ d.topic = topic
      /\ d.array = 1 /\ d.place = 0
  <2>1. Len(messages) + 1 \in Nat
    BY DEF DInv, Sound, LogOK, IsSequence
  <2>2. QED
    BY <2>1 DEF Begun, Delivery
<1> HIDE DEF e, d
<1>4. Sound(listeners, messages', Append(calls, d), heard, returned)
  BY <1>1, <1>2, <1>3, PushSound DEF DInv
<1>5. calls \in Seq(Delivery)
  BY DEF DInv, Sound, StackOK
<1>6. Sound(listeners, messages', calls', heard', returned')
  BY <1>1, <1>3, <1>4, <1>5, ProceedSound
<1>7. QED
  BY <1>1, <1>6 DEF DInv

LEMMA ReturnsKeepDInv ==
  ASSUME DInv, HandlerReturns
  PROVE  DInv'
<1>1. calls \in Seq(Delivery) /\ calls # << >>
  BY DEF DInv, Sound, StackOK, HandlerReturns
<1>2. /\ Front(calls) \in Seq(Delivery) /\ Last(calls) \in Delivery
      /\ calls = Append(Front(calls), Last(calls))
  BY <1>1 DEF Front, Last
<1>3. Sound(listeners, messages, Append(Front(calls), Last(calls)), heard, returned)
  BY <1>2 DEF DInv
<1>4. Proceed(Front(calls), Last(calls)) /\ listeners' = listeners /\ messages' = messages
  BY DEF HandlerReturns
<1>5. Sound(listeners, messages, calls', heard', returned')
  BY <1>2, <1>3, <1>4, ProceedSound
<1>6. QED
  BY <1>4, <1>5 DEF DInv

\* A lower part of the stack is as sound as the stack.
LEMMA ThrowKeepsDInv ==
  ASSUME DInv, NEW n \in Nat, HandlerThrows(n)
  PROVE  DInv'
<1>1. /\ calls \in Seq(Delivery) /\ n < Len(calls)
      /\ calls' = SubSeq(calls, 1, n)
      /\ UNCHANGED <<listeners, messages, heard, returned>>
  BY DEF DInv, Sound, StackOK, HandlerThrows
<1>2. /\ calls' \in Seq(Delivery) /\ DOMAIN calls' = 1..n
      /\ \A i \in 1..n : calls'[i] = calls[i] /\ i \in DOMAIN calls
  BY <1>1
<1>3. StackOK(messages, heard, calls')
  BY <1>2 DEF DInv, Sound, StackOK
<1>4. QED
  BY <1>1, <1>3 DEF DInv, Sound

LEMMA SubscribeKeepsDInv ==
  ASSUME DInv, NEW a \in Arrays, Subscribe(a)
  PROVE  DInv'
<1>1. /\ listeners \in [Arrays -> 0..MaxListeners] /\ listeners[a] < MaxListeners
      /\ listeners' = [listeners EXCEPT ![a] = @ + 1]
      /\ UNCHANGED <<messages, calls, heard, returned>>
  BY DEF DInv, Sound, LogOK, Subscribe
<1>2. listeners' \in [Arrays -> 0..MaxListeners] /\ \A b \in Arrays : listeners[b] <= listeners'[b]
  BY <1>1, DeliveryAssumption
<1>3. LogOK(listeners', messages, heard)
  <2>1. ASSUME NEW n \in DOMAIN messages, NEW b \in Arrays
        PROVE  messages[n].known[b] <= listeners'[b]
    <3>1. /\ messages[n].known[b] \in 0..MaxListeners /\ listeners[b] \in 0..MaxListeners
          /\ listeners'[b] \in 0..MaxListeners
          /\ messages[n].known[b] <= listeners[b] /\ listeners[b] <= listeners'[b]
      BY <1>2 DEF DInv, Sound, LogOK
    <3>2. QED
      BY <3>1, DeliveryAssumption
  <2>2. QED
    BY <1>2, <2>1 DEF DInv, Sound, LogOK
<1>4. QED
  BY <1>1, <1>3 DEF DInv, Sound

LEMMA UnchangedKeepsDInv ==
  ASSUME DInv, UNCHANGED deliveryVars
  PROVE  DInv'
  BY DEF deliveryVars, DInv

LEMMA InitDInv == DeliveryInit => DInv
<1> SUFFICES ASSUME DeliveryInit PROVE DInv
  OBVIOUS
<1>1. listeners \in [Arrays -> 0..MaxListeners]
  BY DeliveryAssumption DEF DeliveryInit
<1>2. IsSequence(messages) /\ heard \in Seq(Hearing) /\ calls \in Seq(Delivery)
  BY DEF DeliveryInit, IsSequence
<1>3. LogOK(listeners, messages, heard) /\ HeardOK(messages, heard)
  BY <1>1, <1>2 DEF DeliveryInit, LogOK, HeardOK, Ordered
<1>4. StackOK(messages, heard, calls) /\ ReturnedOK(messages, heard, returned)
  BY <1>2 DEF DeliveryInit, StackOK, ReturnedOK
<1>5. QED
  BY <1>3, <1>4 DEF DInv, Sound

-----------------------------------------------------------------------------
(* Every step of a host does one thing to the deliveries, or none.         *)

hostVars ==
  <<swarmVars, config, dashboardVars, bash, browserVars, pluginVars, programVars>>

HInv == DInv /\ config \in Configs

LEMMA ConfigTopics ==
  ASSUME NEW c \in Configs
  PROVE  c.topics \subseteq Topics
  BY SwarmAssumption DEF Topics

LEMMA ChannelsOfExecute ==
  {"swarm.leadership", "swarm.task", "swarm.result", "swarm.pipeline"} \subseteq Topics
  BY SwarmAssumption DEF Topics

LEMMA SwarmKeepsDInv ==
  ASSUME HInv, Next
  PROVE  DInv'
<1>1. DInv /\ config \in Configs
  BY DEF HInv
<1>2. CASE Execute \/ Assign \/ Report
  BY <1>1, <1>2, SendKeepsDInv, ChannelsOfExecute DEF Execute, Assign, Report, Broadcast, Say
<1>3. CASE Split \/ Work \/ Finish \/ CallbackThrows
  BY <1>1, <1>3, UnchangedKeepsDInv DEF Split, Work, Finish, CallbackThrows
<1>4. CASE HostStep
  <2>1. ASSUME NEW topic \in config.topics, Send(topic, nobody)
        PROVE  DInv'
    BY <1>1, <2>1, SendKeepsDInv, ConfigTopics
  <2>2. ASSUME NEW topic \in config.topics, NEW a \in ToSet(Walked(topic)), Subscribe(a)
        PROVE  DInv'
    <3>1. topic \in Topics
      BY <1>1, ConfigTopics
    <3>2. a \in Arrays
      BY <3>1, WalkedArrays DEF ToSet
    <3>3. QED
      BY <1>1, <2>2, <3>2, SubscribeKeepsDInv
  <2>3. QED
    BY <1>4, <2>1, <2>2 DEF HostStep
<1>5. CASE HandlerReturns
  BY <1>1, <1>5, ReturnsKeepDInv
<1>6. ASSUME NEW n \in 0..MaxMessages, Throw(n)
      PROVE  DInv'
  BY <1>1, <1>6, ThrowKeepsDInv, DeliveryAssumption DEF Throw
<1>7. CASE Vote
  BY <1>1, <1>7, UnchangedKeepsDInv DEF Vote
<1>8. QED
  BY <1>2, <1>3, <1>4, <1>5, <1>6, <1>7 DEF Next

LEMMA DashboardKeepsDInv ==
  ASSUME DInv, DashboardStep
  PROVE  DInv'
<1>1. CASE Start
  BY <1>1, SubscribeKeepsDInv DEF Start, Arrays
<1>2. CASE Stop
  BY <1>2, UnchangedKeepsDInv DEF Stop
<1>3. ASSUME NEW p \in Pages, Connect(p) \/ Receive(p) \/ Disconnect(p)
      PROVE  DInv'
  BY <1>3, UnchangedKeepsDInv DEF Connect, Receive, Disconnect
<1>4. QED
  BY <1>1, <1>2, <1>3 DEF DashboardStep

LEMMA ProgramsKeepDInv ==
  ASSUME DInv, BootstrapFullEcosystem \/ BootstrapSWE \/ BootstrapResearcher \/ BootstrapSwarm
  PROVE  DInv'
<1>1. CASE BootHost
  BY <1>1, SubscribeKeepsDInv DEF BootHost, Arrays
<1>2. ASSUME NEW kind \in {"AGENT_SPAWNED", "TICK_COMPLETED", "TOOL_CALL_REQUESTED"}, NEW tool,
             Emit(kind, tool)
      PROVE  DInv'
  BY <1>2, SendKeepsDInv, HostAssumption DEF Emit, Topics
<1>3. CASE Announce \/ ReportTick \/ RequestTool
  BY <1>2, <1>3 DEF Announce, ReportTick, RequestTool
<1>4. CASE TerminalReturns
  BY <1>4, ReturnsKeepDInv DEF TerminalReturns
<1>5. CASE Silent \/ UNCHANGED deliveryVars
  BY <1>5, UnchangedKeepsDInv DEF Silent
<1>6. CASE SettleTool \/ RefuseTool \/ Quit
  BY <1>5, <1>6 DEF SettleTool, RefuseTool, Quit
<1>7. CASE ComesBack
  BY <1>4, <1>6, <1>7 DEF ComesBack
<1>8. CASE Spawn \/ BeginTurn \/ Think \/ ExecuteTool \/ SkipTool \/ EndTurn \/ Pause
  BY <1>5, <1>8 DEF Spawn, BeginTurn, Think, ExecuteTool, SkipTool, EndTurn, Pause
<1>9. CASE Complete \/ LeaveLoop \/ CloseAwaited \/ ToolsGoOn \/ Probe
  BY <1>5, <1>9 DEF Complete, LeaveLoop, CloseAwaited, ToolsGoOn, Probe
<1>10. QED
  BY <1>1, <1>3, <1>7, <1>8, <1>9
     DEF BootstrapFullEcosystem, BootstrapSWE, BootstrapResearcher, BootstrapSwarm

LEMMA HostKeepsHInv ==
  ASSUME HInv, [HostNext]_hostVars
  PROVE  HInv'
<1>1. DInv /\ config \in Configs
  BY DEF HInv
<1>2. CASE Next
  <2>1. config' = config
    BY <1>2 DEF Next, Vote
  <2>2. QED
    BY <1>1, <1>2, <2>1, SwarmKeepsDInv DEF HInv
<1>3. CASE DashboardStep /\ UNCHANGED config
  BY <1>1, <1>3, DashboardKeepsDInv DEF HInv
<1>4. CASE UNCHANGED <<swarmVars, config>>
  BY <1>1, <1>4, UnchangedKeepsDInv DEF swarmVars, HInv
<1>5. CASE /\ BootstrapFullEcosystem \/ BootstrapSWE \/ BootstrapResearcher \/ BootstrapSwarm
           /\ UNCHANGED config
  BY <1>1, <1>5, ProgramsKeepDInv DEF HInv
<1>6. QED
  BY <1>2, <1>3, <1>4, <1>5 DEF HostNext, hostVars

LEMMA HInvHolds == HostSpec => []HInv
<1>1. HostInit => HInv
  BY InitDInv DEF HostInit, Init, HInv
<1>2. HInv /\ [HostNext]_hostVars => HInv'
  BY HostKeepsHInv
<1>3. QED
  BY <1>1, <1>2, PTL DEF HostSpec, hostVars

-----------------------------------------------------------------------------
\* However handlers send, subscribe and throw while they run, each message is
\* heard in the order of subscription, and a later message before the rest of an
\* earlier one.
THEOREM DeliveryOrdered == HostSpec => []DeliveryIsOrdered
<1>1. HInv => DeliveryIsOrdered
  BY DEF HInv, DInv, Sound, HeardOK, Ordered, DeliveryIsOrdered
<1>2. QED
  BY HInvHolds, <1>1, PTL

\* Once emit or send returned, all who were there have heard, and nobody twice.
THEOREM ReturnedReached == HostSpec => []ReturnedReachedAll
<1>1. HInv => ReturnedReachedAll
  <2> SUFFICES ASSUME HInv, NEW m \in DOMAIN messages, NEW a \in Arrays, NEW p \in 1..MaxListeners
               PROVE  LET H == {i \in DOMAIN heard : heard[i] = [msg |-> m, array |-> a, place |-> p]}
                      IN /\ \A i, j \in H : i = j
                         /\ m \in returned /\ p <= messages[m].known[a]
                              /\ (a = messages[m].topic \/ (a = "*" /\ messages[m].topic \in EventKinds))
                            => H # {}
    BY DEF ReturnedReachedAll
  <2> DEFINE H == {i \in DOMAIN heard : heard[i] = [msg |-> m, array |-> a, place |-> p]}
  <2>1. /\ heard \in Seq(Hearing) /\ Ordered(messages, heard)
        /\ LogOK(listeners, messages, heard) /\ ReturnedOK(messages, heard, returned)
    BY DEF HInv, DInv, Sound, HeardOK
  <2>2. ASSUME NEW i \in H, NEW j \in H, i < j
        PROVE  FALSE
    BY <2>1, <2>2 DEF Ordered
  <2>3. \A i, j \in H : i = j
    <3>1. \A i, j \in H : i \in Nat /\ j \in Nat
      BY <2>1
    <3>2. QED
      BY <2>2, <3>1
  <2>4. ASSUME m \in returned, p <= messages[m].known[a],
               a = messages[m].topic \/ (a = "*" /\ messages[m].topic \in EventKinds)
        PROVE  H # {}
    <3>1. PICK q \in DOMAIN Walked(messages[m].topic) : Walked(messages[m].topic)[q] = a
      BY <2>1, <2>4, WalkedArrays DEF LogOK
    <3>2. HeardBy(heard, m, a, p)
      BY <2>1, <2>4, <3>1 DEF ReturnedOK
    <3>3. QED
      BY <3>2 DEF HeardBy
  <2>5. QED
    BY <2>3, <2>4
<1>2. QED
  BY HInvHolds, <1>1, PTL

-----------------------------------------------------------------------------
(* Votes.                                                                  *)

\* A poll is the ballot of some list of voters.
PollInv ==
  poll # nobody =>
    \E voters \in VoterLists, decisions \in [Voters -> BOOLEAN \cup {nobody}] :
      poll = Ballot(voters, decisions)

LEMMA HalfOrMore ==
  ASSUME NEW n \in Nat, NEW c \in 0..n
  PROVE  c >= (n + 1) \div 2 <=> n - c <= c
  OBVIOUS

\* Who consents and who does not are all the voters.
LEMMA VotersSplit ==
  ASSUME NEW voters \in VoterLists, NEW C \in SUBSET (DOMAIN voters)
  PROVE  /\ Len(voters) \in Nat
         /\ Cardinality(C) \in 0..Len(voters)
         /\ Cardinality(DOMAIN voters \ C) = Len(voters) - Cardinality(C)
         /\ C = DOMAIN voters => Cardinality(C) = Len(voters)
<1> DEFINE D == DOMAIN voters
           n == Len(voters)
<1>1. voters \in Seq(Voters)
  BY SwarmAssumption
<1>2. n \in Nat /\ D = 1..n
  BY <1>1
<1> HIDE DEF D, n
<1>3. IsFiniteSet(D) /\ Cardinality(D) = n
  <2>1. 1 \in Int /\ n \in Int
    BY <1>2
  <2>2. IsFiniteSet(1..n) /\ Cardinality(1..n) = IF 1 > n THEN 0 ELSE n - 1 + 1
    BY <2>1, FS_Interval
  <2>3. QED
    BY <1>2, <2>2
<1>4. C \subseteq D
  BY DEF D
<1>5. IsFiniteSet(C) /\ Cardinality(C) \in Nat /\ Cardinality(C) <= n
  BY <1>3, <1>4, FS_Subset, FS_CardinalityType
<1>6. Cardinality(D \ C) = Cardinality(D) - Cardinality(D \cap C)
  BY <1>3, <1>4, FS_Difference
<1>7. D \cap C = C
  BY <1>4
<1>8. Cardinality(C) \in 0..n
  BY <1>2, <1>5
<1>9. Cardinality(D \ C) = n - Cardinality(C)
  BY <1>3, <1>6, <1>7
<1>10. C = D => Cardinality(C) = n
  BY <1>3
<1>11. n \in Nat
  BY <1>2
<1>12. QED
  BY <1>8, <1>9, <1>10, <1>11 DEF D, n

LEMMA BallotIsSound ==
  ASSUME NEW voters \in VoterLists, NEW decisions, poll = Ballot(voters, decisions)
  PROVE  VotesAreSound
<1> DEFINE C == {i \in DOMAIN voters : decisions[voters[i]] = TRUE}
<1>1. /\ poll.voters = voters /\ poll.decisions = decisions
      /\ poll.accepted = Accepted(voters, decisions)
      /\ poll.unanimous = AllAgree(voters, decisions)
  BY DEF Ballot
<1>2. /\ Len(voters) \in Nat
      /\ Cardinality(C) \in 0..Len(voters)
      /\ Cardinality(DOMAIN voters \ C) = Len(voters) - Cardinality(C)
      /\ C = DOMAIN voters => Cardinality(C) = Len(voters)
  BY VotersSplit
<1>3. Accepted(voters, decisions) <=> Cardinality(DOMAIN voters \ C) <= Cardinality(C)
  <2>1. Accepted(voters, decisions) <=> Cardinality(C) >= (Len(voters) + 1) \div 2
    BY DEF Accepted, Approvals, Quorum
  <2>2. QED
    BY <1>2, <2>1, HalfOrMore
<1>4. AllAgree(voters, decisions) => C = DOMAIN voters
  BY DEF AllAgree
<1>5. C = DOMAIN voters => Accepted(voters, decisions)
  BY <1>2, <1>3
<1> HIDE DEF C
<1>6. /\ poll.unanimous => poll.accepted /\ C = DOMAIN poll.voters
      /\ poll.accepted <=> Cardinality(DOMAIN poll.voters \ C) <= Cardinality(C)
  BY <1>1, <1>3, <1>4, <1>5, Zenon
<1>7. QED
  BY <1>1, <1>6 DEF VotesAreSound, C

\* A unanimous vote is accepted, and a vote is accepted exactly when those who do
\* not consent are no more than those who do.
THEOREM VotesSound == HostSpec => []VotesAreSound
<1>1. HostInit => PollInv
  BY DEF HostInit, Init, PollInv
<1>2. PollInv /\ [HostNext]_hostVars => PollInv'
  <2> SUFFICES ASSUME PollInv, [HostNext]_hostVars PROVE PollInv'
    OBVIOUS
  <2>1. CASE UNCHANGED poll
    BY <2>1 DEF PollInv
  <2>2. CASE Vote
    BY <2>2 DEF Vote, PollInv
  <2>3. QED
    BY <2>1, <2>2 DEF HostNext, Next, hostVars, swarmVars
<1>3. PollInv => VotesAreSound
  BY BallotIsSound DEF PollInv, VotesAreSound
<1>4. QED
  BY <1>1, <1>2, <1>3, PTL DEF HostSpec, hostVars
-----------------------------------------------------------------------------
(* execute: after each turn the work done so far is in the results or, in  *)
(* a pipeline, on its way, and as many messages are sent as turns are over.*)

RunPlaces == {"rest", "split", "assign", "work", "report", "finish", "done", "threw"}

RunRecords == [at : RunPlaces, i : Nat, subtasks : 0..MaxSubtasks, input : Works, start : Nat,
          results : [Agents -> Works \cup {nobody}]]

\* The turns that are over, and those whose worker has returned.
Over(c, r) == IF r.at \in {"finish", "done"} THEN Len(c.agentIds) ELSE r.i - 1
Worked(c, r) == IF r.at = "report" THEN r.i ELSE Over(c, r)

\* The subtask that agent i is given.
Dealt(r, i) == IF r.subtasks = 0 THEN nobody ELSE 1 + ((i - 1) % r.subtasks)

\* Work that has been through the first j agents.
Through(c, j) == Goal \o SubSeq(c.agentIds, 1, j)

RunOK(c, r, ms) ==
  /\ r \in RunRecords /\ r.i \in DOMAIN c.agentIds
  /\ r.start <= Len(ms) /\ (r.at \notin {"rest", "threw"} => r.start < Len(ms))
  /\ r.at \in {"rest", "split"} => r.i = 1
  /\ r.at = "assign" => c.strategy = "MAP_REDUCE"
  /\ c.strategy = "PIPELINE" => r.subtasks = 0

\* Agents that are not repeated keep their results.
ResultsOK(c, r) ==
  c.strategy # "PIPELINE" /\ IsInjective(c.agentIds) /\ r.at # "threw" =>
    \A j \in 1..Worked(c, r) : r.results[c.agentIds[j]] = <<Dealt(r, j), c.agentIds[j]>>

ChainOK(c, r) ==
  c.strategy = "PIPELINE" /\ r.at # "threw" =>
    /\ r.input = Through(c, Over(c, r))
    /\ r.at = "report" => r.results[c.agentIds[r.i]] = Through(c, r.i)

OwnOf(r, ms) == {m \in DOMAIN ms : m > r.start + 1 /\ ms[m].body # nobody}

\* Message body b is the j-th of a pipeline.
Stage(c, b, j) ==
  /\ b.work = Through(c, j)
  /\ IsInjective(c.agentIds) =>
       b.to = IF j = Len(c.agentIds) THEN c.agentIds[1] ELSE c.agentIds[j + 1]

SentOK(c, r, ms) ==
  c.strategy = "PIPELINE" =>
    /\ r.at # "threw" => Cardinality(OwnOf(r, ms)) = Over(c, r)
    /\ \A m \in OwnOf(r, ms) :
         Stage(c, ms[m].body, Cardinality({k \in OwnOf(r, ms) : k <= m}))

ExecuteOK(c, r, ms) ==
  RunOK(c, r, ms) /\ ResultsOK(c, r) /\ ChainOK(c, r) /\ SentOK(c, r, ms)

LEMMA ConfigAgents ==
  ASSUME NEW c \in Configs
  PROVE  /\ c.agentIds \in Seq(Agents) /\ c.agentIds # << >>
         /\ Len(c.agentIds) \in Nat /\ Len(c.agentIds) >= 1
         /\ DOMAIN c.agentIds = 1..Len(c.agentIds)
         /\ 1 \in DOMAIN c.agentIds
         /\ \A j \in DOMAIN c.agentIds : c.agentIds[j] \in Agents
<1>1. c.agentIds \in Seq(ToSet(c.agentIds)) /\ c.agentIds # << >>
  BY SwarmAssumption
<1>2. ToSet(c.agentIds) \subseteq Agents
  BY DEF Agents
<1>3. c.agentIds \in Seq(Agents)
  BY <1>1, <1>2
<1> HIDE DEF Agents
<1>4. QED
  BY <1>1, <1>3

LEMMA ThroughAgents ==
  ASSUME NEW c \in Configs
  PROVE  /\ Through(c, 0) = Goal
         /\ Through(c, Len(c.agentIds)) = Goal \o c.agentIds
         /\ \A j \in DOMAIN c.agentIds : /\ Append(Through(c, j - 1), c.agentIds[j]) = Through(c, j)
                                         /\ Through(c, j) \in Works
         /\ Goal \in Works
<1> DEFINE ids == c.agentIds
<1>1. ids \in Seq(Agents) /\ Len(ids) \in Nat /\ DOMAIN ids = 1..Len(ids)
  BY ConfigAgents
<1> HIDE DEF ids
<1>2. Goal \in Works /\ Goal \in Seq(Nat \cup Agents \cup {nobody})
  BY DEF Goal, Works
<1>3. SubSeq(ids, 1, 0) = << >> /\ SubSeq(ids, 1, Len(ids)) = ids
  BY <1>1
<1>4. Goal \o << >> = Goal
  BY <1>2
<1>5. ASSUME NEW j \in DOMAIN ids
      PROVE  /\ Append(Goal \o SubSeq(ids, 1, j - 1), ids[j]) = Goal \o SubSeq(ids, 1, j)
             /\ Goal \o SubSeq(ids, 1, j) \in Works
  <2>1. SubSeq(ids, 1, j) \in Seq(Nat \cup Agents \cup {nobody})
    BY <1>1
  <2>2. Goal \o SubSeq(ids, 1, j) \in Works
    BY <1>2, <2>1 DEF Works
  <2>3. Append(Goal \o SubSeq(ids, 1, j - 1), ids[j]) = Goal \o SubSeq(ids, 1, j)
    BY <1>1 DEF Goal
  <2>4. QED
    BY <2>2, <2>3
<1>6. QED
  BY <1>2, <1>3, <1>4, <1>5 DEF Through, ids

\* The messages of execute are not those of the hosts around it.
LEMMA OwnOnOwn ==
  ASSUME NEW r, r.start \in Nat, NEW ms, IsSequence(ms), NEW e
  PROVE  /\ IsFiniteSet(OwnOf(r, ms)) /\ OwnOf(r, ms) \subseteq 1..Len(ms)
         /\ Cardinality(OwnOf(r, ms)) \in Nat
         /\ OwnOf(r, Append(ms, e)) =
              IF Len(ms) > r.start /\ e.body # nobody THEN OwnOf(r, ms) \cup {Len(ms) + 1}
              ELSE OwnOf(r, ms)
<1> DEFINE n == Len(ms)
           ms2 == Append(ms, e)
<1>1. /\ n \in Nat /\ DOMAIN ms = 1..n /\ DOMAIN ms2 = 1..(n + 1)
      /\ ms2[n + 1] = e /\ \A m \in 1..n : ms2[m] = ms[m]
  BY AppendAnything
<1> HIDE DEF n, ms2
<1>2. OwnOf(r, ms) \subseteq 1..n
  BY <1>1 DEF OwnOf
<1>3. IsFiniteSet(1..n)
  <2>1. 1 \in Int /\ n \in Int
    BY <1>1
  <2>2. QED
    BY <2>1, FS_Interval
<1>4. IsFiniteSet(OwnOf(r, ms)) /\ Cardinality(OwnOf(r, ms)) \in Nat
  BY <1>2, <1>3, FS_Subset, FS_CardinalityType
<1>5. \A m : m \in OwnOf(r, ms2) <=>
        m \in OwnOf(r, ms) \/ (m = n + 1 /\ n > r.start /\ e.body # nobody)
  BY <1>1 DEF OwnOf
<1>6. OwnOf(r, ms2) = IF n > r.start /\ e.body # nobody THEN OwnOf(r, ms) \cup {n + 1}
                      ELSE OwnOf(r, ms)
  BY <1>5
<1>7. QED
  BY <1>2, <1>4, <1>6 DEF n, ms2

\* A message of the host around a pipeline, or of any other strategy.
LEMMA OthersSay ==
  ASSUME NEW c \in Configs, NEW ms, IsSequence(ms), NEW e, NEW r, ExecuteOK(c, r, ms),
         e.body = nobody \/ c.strategy # "PIPELINE"
  PROVE  ExecuteOK(c, r, Append(ms, e))
<1>1. RunOK(c, r, ms) /\ ResultsOK(c, r) /\ ChainOK(c, r) /\ SentOK(c, r, ms)
  BY DEF ExecuteOK
<1>2. r.start \in Nat
  BY <1>1 DEF RunOK, RunRecords
<1>3. RunOK(c, r, Append(ms, e))
  <2>1. Len(Append(ms, e)) = Len(ms) + 1 /\ Len(ms) \in Nat
    BY AppendAnything
  <2>2. QED
    BY <1>1, <1>2, <2>1 DEF RunOK
<1>4. SentOK(c, r, Append(ms, e))
  <2> SUFFICES ASSUME c.strategy = "PIPELINE"
               PROVE  SentOK(c, r, Append(ms, e))
    BY DEF SentOK
  <2>1. OwnOf(r, Append(ms, e)) = OwnOf(r, ms) /\ OwnOf(r, ms) \subseteq 1..Len(ms)
    BY <1>2, OwnOnOwn
  <2>2. \A m \in 1..Len(ms) : Append(ms, e)[m] = ms[m]
    BY AppendAnything
  <2>3. QED
    BY <1>1, <2>1, <2>2 DEF SentOK
<1>5. QED
  BY <1>1, <1>3, <1>4 DEF ExecuteOK

\* What has been sent by an execute that threw was sent well.
LEMMA ThrowsOK ==
  ASSUME NEW c \in Configs, NEW ms, NEW r, ExecuteOK(c, r, ms)
  PROVE  ExecuteOK(c, [r EXCEPT !.at = "threw"], ms)
<1> DEFINE r2 == [r EXCEPT !.at = "threw"]
<1>1. RunOK(c, r, ms) /\ SentOK(c, r, ms) /\ r \in RunRecords
  BY DEF ExecuteOK, RunOK
<1>2. /\ r2 \in RunRecords /\ r2.at = "threw" /\ r2.i = r.i /\ r2.start = r.start
      /\ r2.subtasks = r.subtasks
  BY <1>1 DEF RunRecords, RunPlaces
<1> HIDE DEF r2
<1>3. RunOK(c, r2, ms) /\ ResultsOK(c, r2) /\ ChainOK(c, r2)
  BY <1>1, <1>2 DEF RunOK, ResultsOK, ChainOK
<1>4. OwnOf(r2, ms) = OwnOf(r, ms)
  BY <1>2 DEF OwnOf
<1>5. SentOK(c, r2, ms)
  BY <1>1, <1>2, <1>4 DEF SentOK
<1>6. ExecuteOK(c, r2, ms)
  BY <1>3, <1>5 DEF ExecuteOK
<1>7. QED
  BY <1>6 DEF r2

\* execute begins: of its own messages there are none yet.
LEMMA ElectsOK ==
  ASSUME NEW c \in Configs, NEW ms, IsSequence(ms), NEW e, NEW r \in RunRecords,
         r.at = "split", r.i = 1, r.input = Goal, r.start = Len(ms), r.subtasks = 0
  PROVE  ExecuteOK(c, r, Append(ms, e))
<1>1. Len(ms) \in Nat /\ Len(Append(ms, e)) = Len(ms) + 1 /\ DOMAIN Append(ms, e) = 1..(Len(ms) + 1)
  BY AppendAnything
<1>2. RunOK(c, r, Append(ms, e))
  BY <1>1, ConfigAgents DEF RunOK
<1>3. Over(c, r) = 0 /\ Worked(c, r) = 0
  BY DEF Over, Worked
<1>4. ResultsOK(c, r) /\ ChainOK(c, r)
  BY <1>3, ThroughAgents DEF ResultsOK, ChainOK
<1>5. OwnOf(r, Append(ms, e)) = {}
  BY <1>1 DEF OwnOf
<1>6. SentOK(c, r, Append(ms, e))
  BY <1>3, <1>5, FS_EmptySet DEF SentOK
<1>7. QED
  BY <1>2, <1>4, <1>6 DEF ExecuteOK

\* As many turns are over as before, and nothing was sent.
LEMMA SentStays ==
  ASSUME NEW c, NEW ms, NEW r, SentOK(c, r, ms), NEW r2,
         r2.start = r.start, r2.at # "threw" => r.at # "threw" /\ Over(c, r2) = Over(c, r)
  PROVE  SentOK(c, r2, ms)
<1>1. OwnOf(r2, ms) = OwnOf(r, ms)
  BY DEF OwnOf
<1>2. QED
  BY <1>1 DEF SentOK

\* An agent of a pipeline passes on what it has worked out.
LEMMA PassesOn ==
  ASSUME NEW c \in Configs, NEW ms, IsSequence(ms), NEW r \in RunRecords, SentOK(c, r, ms),
         c.strategy = "PIPELINE", r.at = "report", r.i \in DOMAIN c.agentIds, r.start < Len(ms),
         NEW e, e.body # nobody, Stage(c, e.body, r.i),
         NEW r2, r2.start = r.start, Over(c, r2) = r.i
  PROVE  SentOK(c, r2, Append(ms, e))
<1> DEFINE own == OwnOf(r, ms)
           n == Len(ms) + 1
           ms2 == Append(ms, e)
           own2 == OwnOf(r2, ms2)
<1>1. r.start \in Nat /\ r.i \in Nat /\ Over(c, r) = r.i - 1
  BY DEF RunRecords, Over
<1>2. /\ Len(ms) \in Nat /\ n \in Nat
      /\ ms2[n] = e /\ \A m \in 1..Len(ms) : ms2[m] = ms[m]
  BY AppendAnything
<1>3. IsFiniteSet(own) /\ own \subseteq 1..Len(ms) /\ Cardinality(own) \in Nat
  BY <1>1, OwnOnOwn
<1>4. own2 = own \cup {n}
  <2>1. OwnOf(r, ms2) = own \cup {n}
    BY <1>1, <1>2, OwnOnOwn
  <2>2. OwnOf(r2, ms2) = OwnOf(r, ms2)
    BY DEF OwnOf
  <2>3. QED
    BY <2>1, <2>2
<1>5. Cardinality(own) = r.i - 1
  BY <1>1 DEF SentOK
<1>6. \A m \in own : Stage(c, ms[m].body, Cardinality({k \in own : k <= m}))
  BY DEF SentOK
<1> HIDE DEF own, n, ms2, own2
<1>7. n \notin own /\ \A m \in own : m < n
  BY <1>2, <1>3 DEF n
<1>8. Cardinality(own2) = r.i
  <2>1. Cardinality(own2) = Cardinality(own) + 1
    BY <1>3, <1>4, <1>7, FS_AddElement
  <2>2. QED
    BY <1>1, <1>5, <2>1
<1>9. ASSUME NEW m \in own2
      PROVE  Stage(c, ms2[m].body, Cardinality({k \in own2 : k <= m}))
  <2>1. CASE m = n
    <3>1. \A k \in own2 : k <= n
      <4>1. n <= n
        BY <1>2
      <4>2. \A k \in own : k <= n
        BY <1>2, <1>3, <1>7
      <4>3. QED
        BY <1>4, <4>1, <4>2
    <3>2. {k \in own2 : k <= n} = own2
      BY <3>1
    <3>3. QED
      BY <1>2, <1>8, <2>1, <3>2
  <2>2. CASE m \in own
    <3>1. {k \in own2 : k <= m} = {k \in own : k <= m}
      BY <1>2, <1>3, <1>4, <1>7, <2>2
    <3>2. ms2[m] = ms[m]
      BY <1>2, <1>3, <2>2
    <3>3. QED
      BY <1>6, <2>2, <3>1, <3>2
  <2>3. QED
    BY <1>4, <2>1, <2>2
<1>10. QED
  BY <1>8, <1>9 DEF SentOK, own2, ms2

\* The first place of an agent's name; the only one if no name is repeated.
LEMMA SuccessorFollows ==
  ASSUME config \in Configs, NEW i \in DOMAIN agentIds
  PROVE  /\ Successor(i) \in Agents
         /\ IsInjective(agentIds) =>
              Successor(i) = IF i = Len(agentIds) THEN leader ELSE agentIds[i + 1]
<1> DEFINE Same == {j \in DOMAIN agentIds : agentIds[j] = agentIds[i]}
           First(j) == agentIds[j] = agentIds[i] /\ \A h \in 1..(j - 1) : agentIds[h] # agentIds[i]
           first == CHOOSE j \in DOMAIN agentIds : First(j)
<1>1. /\ Len(agentIds) \in Nat /\ Len(agentIds) >= 1 /\ DOMAIN agentIds = 1..Len(agentIds)
      /\ \A j \in DOMAIN agentIds : agentIds[j] \in Agents
  BY ConfigAgents DEF agentIds
<1>2. \E j \in DOMAIN agentIds : First(j)
  <2>1. Same \subseteq Nat /\ Same # {}
    BY <1>1
  <2>2. PICK m \in Same : \A y \in Same : ~(<<y, m>> \in OpToRel(<, Nat))
    BY <2>1, WFMin, NatLessThanWellFounded
  <2>3. \A y \in Same : ~(y < m)
    BY <2>1, <2>2 DEF OpToRel
  <2>4. First(m)
    BY <1>1, <2>3
  <2>5. QED
    BY <2>4
<1>3. first \in DOMAIN agentIds /\ agentIds[first] = agentIds[i]
  BY <1>2
<1>4. Successor(i) = IF first = Len(agentIds) THEN leader ELSE agentIds[first + 1]
  BY DEF Successor
<1> HIDE DEF first
<1>5. leader = agentIds[1] /\ leader \in Agents
  BY <1>1 DEF leader
<1>6. Successor(i) \in Agents
  BY <1>1, <1>3, <1>4, <1>5
<1>7. IsInjective(agentIds) => first = i
  BY <1>3 DEF IsInjective
<1>8. QED
  BY <1>4, <1>6, <1>7

SwarmInv == config \in Configs /\ IsSequence(messages) /\ ExecuteOK(config, run, messages)

LEMMA RestIsARun ==
  ASSUME config \in Configs
  PROVE  AtRest \in RunRecords /\ AtRest.subtasks = 0
<1>1. [a \in Agents |-> nobody] \in [Agents -> Works \cup {nobody}]
  OBVIOUS
<1>2. Goal \in Works /\ 0 \in 0..MaxSubtasks
  BY ConfigAgents, ThroughAgents, SwarmAssumption
<1>3. QED
  BY <1>1, <1>2 DEF AtRest, RunRecords, RunPlaces

LEMMA InitSwarmInv == Init => SwarmInv
<1> SUFFICES ASSUME Init PROVE SwarmInv
  OBVIOUS
<1>1. config \in Configs /\ messages = << >> /\ run = AtRest
  BY DEF Init, DeliveryInit
<1>2. /\ run \in RunRecords /\ run.at = "rest" /\ run.i = 1 /\ run.input = Goal /\ run.start = 0
      /\ run.subtasks = 0
  BY <1>1, RestIsARun DEF AtRest
<1>3. RunOK(config, run, messages)
  BY <1>1, <1>2, ConfigAgents DEF RunOK
<1>4. Over(config, run) = 0 /\ Worked(config, run) = 0
  BY <1>2 DEF Over, Worked
<1>5. ResultsOK(config, run) /\ ChainOK(config, run)
  BY <1>1, <1>2, <1>4, ThroughAgents DEF ResultsOK, ChainOK
<1>6. OwnOf(run, messages) = {}
  BY <1>1 DEF OwnOf
<1>7. SentOK(config, run, messages)
  BY <1>4, <1>6, FS_EmptySet DEF SentOK
<1>8. QED
  BY <1>1, <1>3, <1>5, <1>7 DEF ExecuteOK, SwarmInv, IsSequence

\* What is known of the run in a step that may append to the messages.
RunKnown ==
  /\ config \in Configs /\ IsSequence(messages)
  /\ run \in RunRecords /\ run.i \in DOMAIN agentIds
  /\ RunOK(config, run, messages) /\ ResultsOK(config, run)
  /\ ChainOK(config, run) /\ SentOK(config, run, messages)

LEMMA SwarmInvKnows == SwarmInv => RunKnown
  BY DEF SwarmInv, ExecuteOK, RunOK, RunKnown, agentIds

LEMMA ExecuteKeepsRun ==
  ASSUME SwarmInv, Execute, UNCHANGED config
  PROVE  SwarmInv'
<1>1. config \in Configs /\ IsSequence(messages)
  BY DEF SwarmInv
<1>2. PICK e : messages' = Append(messages, e)
  BY DEF Execute, Broadcast, Say, Send, Log
<1>3. Len(messages) \in Nat /\ IsSequence(messages')
  BY <1>1, <1>2, AppendAnything
<1>4. /\ run' \in RunRecords /\ run'.at = "split" /\ run'.i = 1
      /\ run'.input = Goal /\ run'.start = Len(messages) /\ run'.subtasks = 0
  <2>1. AtRest \in RunRecords /\ AtRest.subtasks = 0 /\ AtRest.i = 1 /\ AtRest.input = Goal
    BY <1>1, RestIsARun DEF AtRest
  <2>2. run' = [AtRest EXCEPT !.at = "split", !.start = Len(messages)]
    BY DEF Execute
  <2>3. QED
    BY <1>3, <2>1, <2>2 DEF RunRecords, RunPlaces
<1>5. ExecuteOK(config, run', Append(messages, e))
  BY <1>1, <1>4, ElectsOK
<1>6. QED
  BY <1>1, <1>2, <1>3, <1>5 DEF SwarmInv

LEMMA SplitKeepsRun ==
  ASSUME SwarmInv, Split, UNCHANGED config
  PROVE  SwarmInv'
<1>1. RunKnown /\ run.at = "split" /\ run.i = 1 /\ run.start < Len(messages)
  BY SwarmInvKnows DEF Split, On, RunKnown, RunOK
<1>2. messages' = messages
  BY DEF Split, deliveryVars
<1>3. /\ run' \in RunRecords /\ run'.i = 1 /\ run'.input = run.input /\ run'.start = run.start
      /\ run'.at = IF config.strategy = "MAP_REDUCE" THEN "assign" ELSE "work"
      /\ config.strategy = "PIPELINE" => run'.subtasks = 0
  <2>1. PICK n \in 0..MaxSubtasks :
          /\ config.strategy = "PIPELINE" => n = 0
          /\ run' = [run EXCEPT !.subtasks = n,
                                !.at = IF config.strategy = "MAP_REDUCE" THEN "assign" ELSE "work"]
    <3>1. PICK n \in IF config.strategy = "PIPELINE" THEN {0} ELSE 0..MaxSubtasks :
            run' = [run EXCEPT !.subtasks = n,
                               !.at = IF config.strategy = "MAP_REDUCE" THEN "assign" ELSE "work"]
      BY DEF Split
    <3>2. n \in 0..MaxSubtasks /\ (config.strategy = "PIPELINE" => n = 0)
      BY <3>1, SwarmAssumption
    <3>3. QED
      BY <3>1, <3>2
  <2>2. run \in RunRecords
    BY <1>1 DEF RunKnown
  <2>3. QED
    BY <1>1, <2>1, <2>2 DEF RunRecords, RunPlaces
<1>4. RunOK(config, run', messages)
  BY <1>1, <1>3 DEF RunKnown, RunOK
<1>5. Over(config, run) = 0 /\ Over(config, run') = 0 /\ Worked(config, run') = 0
  BY <1>1, <1>3 DEF Over, Worked
<1>6. ResultsOK(config, run') /\ ChainOK(config, run')
  BY <1>1, <1>3, <1>5 DEF RunKnown, ResultsOK, ChainOK
<1>7. SentOK(config, run', messages)
  BY <1>1, <1>3, <1>5, SentStays DEF RunKnown
<1>8. QED
  BY <1>1, <1>2, <1>4, <1>6, <1>7 DEF RunKnown, ExecuteOK, SwarmInv

LEMMA AssignKeepsRun ==
  ASSUME SwarmInv, Assign, UNCHANGED config
  PROVE  SwarmInv'
<1>1. RunKnown /\ run.at = "assign" /\ config.strategy = "MAP_REDUCE" /\ run.start < Len(messages)
  BY SwarmInvKnows DEF Assign, On, RunKnown, RunOK
<1>2. PICK e : messages' = Append(messages, e)
  BY DEF Assign, Say, Send, Log
<1>3. /\ IsSequence(messages') /\ Len(messages) \in Nat
      /\ Len(messages') = Len(messages) + 1
  BY <1>1, <1>2, AppendAnything DEF RunKnown
<1>4. /\ run' \in RunRecords /\ run'.i = run.i /\ run'.at = "work" /\ run'.start = run.start
      /\ run'.results = run.results /\ run'.subtasks = run.subtasks
  BY <1>1 DEF Assign, RunKnown, RunRecords, RunPlaces
<1>5. run.start \in Nat
  BY <1>1 DEF RunKnown, RunRecords
<1>6. RunOK(config, run', messages')
  BY <1>1, <1>3, <1>4, <1>5 DEF RunKnown, RunOK
<1>7. Worked(config, run') = Worked(config, run)
  BY <1>1, <1>4 DEF Worked, Over
<1>8. \A j : Dealt(run', j) = Dealt(run, j)
  BY <1>4 DEF Dealt
<1>9. ResultsOK(config, run')
  BY <1>1, <1>4, <1>7, <1>8 DEF RunKnown, ResultsOK
<1>10. ChainOK(config, run') /\ SentOK(config, run', messages')
  BY <1>1 DEF ChainOK, SentOK
<1>11. QED
  BY <1>1, <1>3, <1>6, <1>9, <1>10 DEF RunKnown, ExecuteOK, SwarmInv

\* The loop turns or ends: in either case turn i is over.
LEMMA OnwardOver ==
  ASSUME config \in Configs, NEW r \in RunRecords, r.i \in DOMAIN agentIds,
         r.at \in {"work", "report"}
  PROVE  /\ Onward(r) \in RunRecords /\ Onward(r).i \in DOMAIN agentIds
         /\ Onward(r).at \in {"assign", "work", "finish"}
         /\ Onward(r).at = "assign" => config.strategy = "MAP_REDUCE"
         /\ Onward(r).results = r.results /\ Onward(r).subtasks = r.subtasks
         /\ Onward(r).input = r.input /\ Onward(r).start = r.start
         /\ Over(config, Onward(r)) = r.i /\ Worked(config, Onward(r)) = r.i
<1>1. Len(agentIds) \in Nat /\ DOMAIN agentIds = 1..Len(agentIds) /\ r.i \in 1..Len(agentIds)
  BY ConfigAgents DEF agentIds
<1>2. CASE r.i = Len(agentIds)
  <2>1. Onward(r) = [r EXCEPT !.at = "finish"]
    BY <1>2 DEF Onward
  <2>2. /\ [r EXCEPT !.at = "finish"] \in RunRecords
        /\ [r EXCEPT !.at = "finish"].at = "finish"
        /\ [r EXCEPT !.at = "finish"].i = r.i
        /\ [r EXCEPT !.at = "finish"].results = r.results
        /\ [r EXCEPT !.at = "finish"].subtasks = r.subtasks
        /\ [r EXCEPT !.at = "finish"].input = r.input
        /\ [r EXCEPT !.at = "finish"].start = r.start
    BY DEF RunRecords, RunPlaces
  <2>3. QED
    BY <1>1, <1>2, <2>1, <2>2 DEF Over, Worked, agentIds
<1>3. CASE r.i # Len(agentIds)
  <2> DEFINE place == IF config.strategy = "MAP_REDUCE" THEN "assign" ELSE "work"
             r2 == [r EXCEPT !.i = @ + 1, !.at = place]
  <2>1. Onward(r) = r2
    BY <1>3 DEF Onward, Turn
  <2>2. place \in {"assign", "work"} /\ (place = "assign" => config.strategy = "MAP_REDUCE")
    OBVIOUS
  <2> HIDE DEF place
  <2>3. /\ r2 \in RunRecords /\ r2.at = place /\ r2.i = r.i + 1
        /\ r2.results = r.results /\ r2.subtasks = r.subtasks
        /\ r2.input = r.input /\ r2.start = r.start
    <3>1. r.i + 1 \in Nat /\ place \in RunPlaces
      BY <1>1, <2>2 DEF RunPlaces
    <3>2. QED
      BY <3>1 DEF RunRecords
  <2>4. r2.i \in DOMAIN agentIds /\ r2.i - 1 = r.i
    BY <1>1, <1>3, <2>3
  <2> HIDE DEF r2
  <2>5. Over(config, r2) = r.i /\ Worked(config, r2) = r.i
    BY <2>2, <2>3, <2>4 DEF Over, Worked
  <2>6. QED
    BY <2>1, <2>2, <2>3, <2>4, <2>5
<1>4. QED
  BY <1>2, <1>3

LEMMA ThroughOne ==
  ASSUME NEW x, NEW y
  PROVE  Append(<<x>>, y) = <<x, y>>
<1>1. <<x>> \in Seq({x, y}) /\ <<x, y>> \in Seq({x, y}) /\ Append(<<x>>, y) \in Seq({x, y})
  OBVIOUS
<1>2. /\ Len(Append(<<x>>, y)) = 2 /\ Len(<<x, y>>) = 2
      /\ Append(<<x>>, y)[1] = x /\ Append(<<x>>, y)[2] = y
  OBVIOUS
<1>3. \A i \in 1..Len(Append(<<x>>, y)) : Append(<<x>>, y)[i] = <<x, y>>[i]
  BY <1>2
<1>4. QED
  BY <1>1, <1>2, <1>3, SeqEqual

\* The results and the work passed on after agent i has worked.
LEMMA WorkIsDone ==
  ASSUME RunKnown, run.at = "work",
         NEW r \in RunRecords,
         r.results = [run.results EXCEPT ![agentIds[run.i]] = Append(Given(run.i), agentIds[run.i])],
         r.subtasks = run.subtasks, r.at # "threw", Worked(config, r) = run.i
  PROVE  ResultsOK(config, r)
<1> SUFFICES ASSUME config.strategy # "PIPELINE", IsInjective(agentIds), NEW j \in 1..run.i
             PROVE  r.results[agentIds[j]] = <<Dealt(r, j), agentIds[j]>>
  BY DEF ResultsOK, agentIds
<1>1. /\ DOMAIN agentIds = 1..Len(agentIds) /\ Len(agentIds) \in Nat
      /\ \A k \in DOMAIN agentIds : agentIds[k] \in Agents
      /\ run.i \in 1..Len(agentIds)
  BY ConfigAgents DEF RunKnown, agentIds
<1>2. DOMAIN run.results = Agents
  BY DEF RunKnown, RunRecords
<1>3. \A k : Dealt(r, k) = Dealt(run, k)
  BY DEF Dealt
<1>4. CASE j = run.i
  <2>1. Given(run.i) = <<Dealt(run, run.i)>>
    BY DEF Given, Subtask, Dealt
  <2>2. Append(<<Dealt(run, run.i)>>, agentIds[run.i]) = <<Dealt(run, run.i), agentIds[run.i]>>
    BY ThroughOne
  <2>3. QED
    BY <1>1, <1>2, <1>3, <1>4, <2>1, <2>2
<1>5. CASE j # run.i
  <2>1. Worked(config, run) = run.i - 1
    BY DEF Worked, Over
  <2>2. run.results[agentIds[j]] = <<Dealt(run, j), agentIds[j]>>
    <3>1. j \in 1..Worked(config, run)
      BY <1>1, <1>5, <2>1
    <3>2. ResultsOK(config, run)
      BY DEF RunKnown
    <3>3. QED
      BY <3>1, <3>2 DEF ResultsOK, agentIds
  <2>3. j \in DOMAIN agentIds /\ agentIds[j] # agentIds[run.i]
    BY <1>1, <1>5 DEF IsInjective
  <2>4. QED
    BY <1>1, <1>2, <1>3, <2>2, <2>3
<1>6. QED
  BY <1>4, <1>5

LEMMA GivenIsWork ==
  ASSUME RunKnown
  PROVE  Append(Given(run.i), agentIds[run.i]) \in Works
<1>1. agentIds[run.i] \in Agents /\ run.i \in Nat
  BY ConfigAgents DEF RunKnown, RunRecords, agentIds
<1>2. run.input \in Works /\ run.subtasks \in Nat
  BY SwarmAssumption DEF RunKnown, RunRecords
<1>3. Subtask(run.i) \in Nat \cup {nobody}
  BY <1>1, <1>2 DEF Subtask
<1>4. Given(run.i) \in Works
  <2>1. <<Subtask(run.i)>> \in Works
    BY <1>3 DEF Works
  <2>2. QED
    BY <1>2, <2>1 DEF Given
<1>5. QED
  BY <1>1, <1>4 DEF Works

LEMMA WorkKeepsRun ==
  ASSUME SwarmInv, Work, UNCHANGED config
  PROVE  SwarmInv'
<1> DEFINE a == agentIds[run.i]
           w == Append(Given(run.i), a)
           done == [run EXCEPT !.results[a] = w]
<1>1. RunKnown /\ run.at = "work" /\ run.start < Len(messages)
  BY SwarmInvKnows DEF Work, On, RunKnown, RunOK
<1>2. messages' = messages
  BY DEF Work, deliveryVars
<1>3. w \in Works /\ a \in Agents
  BY <1>1, GivenIsWork, ConfigAgents DEF RunKnown, agentIds
<1>4. run' = IF config.strategy = "CONSENSUS" THEN Onward(done) ELSE [done EXCEPT !.at = "report"]
  BY DEF Work
<1> HIDE DEF w
<1>5. /\ done \in RunRecords /\ done.at = "work" /\ done.i = run.i /\ done.start = run.start
      /\ done.input = run.input /\ done.subtasks = run.subtasks
      /\ done.results = [run.results EXCEPT ![a] = w]
  BY <1>1, <1>3 DEF RunKnown, RunRecords
<1> HIDE DEF done
<1>6. /\ run' \in RunRecords /\ run'.i \in DOMAIN agentIds
      /\ run'.start = run.start /\ run'.input = run.input /\ run'.subtasks = run.subtasks
      /\ run'.results = done.results /\ Worked(config, run') = run.i
      /\ run'.at \in {"assign", "work", "finish", "report"}
      /\ run'.at = "assign" => config.strategy = "MAP_REDUCE"
      /\ config.strategy # "CONSENSUS" => run'.at = "report" /\ run'.i = run.i
  <2>1. CASE config.strategy = "CONSENSUS"
    BY <1>1, <1>4, <1>5, <2>1, OnwardOver DEF RunKnown
  <2>2. CASE config.strategy # "CONSENSUS"
    <3>1. run' = [done EXCEPT !.at = "report"]
      BY <1>4, <2>2
    <3>2. /\ run' \in RunRecords /\ run'.at = "report" /\ run'.i = done.i /\ run'.start = done.start
          /\ run'.input = done.input /\ run'.subtasks = done.subtasks
          /\ run'.results = done.results
      BY <1>5, <3>1 DEF RunRecords, RunPlaces
    <3>3. QED
      BY <1>1, <1>5, <2>2, <3>2 DEF Worked, RunKnown
  <2>3. QED
    BY <2>1, <2>2
<1>7. RunOK(config, run', messages)
  BY <1>1, <1>6 DEF RunKnown, RunOK, agentIds
<1>8. ResultsOK(config, run')
  BY <1>1, <1>5, <1>6, WorkIsDone DEF w
<1>9. CASE config.strategy # "PIPELINE"
  BY <1>1, <1>2, <1>7, <1>8, <1>9 DEF ChainOK, SentOK, ExecuteOK, SwarmInv, RunKnown
<1>10. CASE config.strategy = "PIPELINE"
  <2>1. run'.at = "report" /\ run'.i = run.i
    BY <1>6, <1>10
  <2>2. Over(config, run) = run.i - 1 /\ Over(config, run') = run.i - 1
    BY <1>1, <2>1 DEF Over
  <2>3. run.input = Through(config, run.i - 1)
    BY <1>1, <1>10, <2>2 DEF RunKnown, ChainOK
  <2>4. run'.results[a] = w
    BY <1>1, <1>3, <1>5, <1>6 DEF RunKnown, RunRecords
  <2>5. w = Through(config, run.i)
    BY <1>1, <1>10, <2>3, ThroughAgents DEF w, Given, RunKnown, agentIds
  <2>6. ChainOK(config, run')
    BY <1>6, <2>1, <2>2, <2>3, <2>4, <2>5 DEF ChainOK, agentIds
  <2>7. SentOK(config, run', messages)
    BY <1>1, <1>6, <2>2, SentStays DEF RunKnown
  <2>8. QED
    BY <1>1, <1>2, <1>7, <1>8, <2>6, <2>7 DEF ExecuteOK, SwarmInv, RunKnown
<1>11. QED
  BY <1>9, <1>10

LEMMA ReportKeepsRun ==
  ASSUME SwarmInv, Report, UNCHANGED config
  PROVE  SwarmInv'
<1> DEFINE a == agentIds[run.i]
           to == IF config.strategy = "PIPELINE" THEN Successor(run.i) ELSE leader
           body == [from |-> a, to |-> to, work |-> run.results[a]]
           said == IF config.strategy = "PIPELINE" THEN [run EXCEPT !.input = run.results[a]] ELSE run
<1>1. RunKnown /\ run.at = "report" /\ run.start < Len(messages)
  BY SwarmInvKnows DEF Report, On, RunKnown, RunOK
<1>2. PICK e : messages' = Append(messages, e) /\ e.body = body
  BY DEF Report, Say, Send, Log
<1>3. run' = Onward(said)
  BY DEF Report
<1>4. /\ IsSequence(messages') /\ Len(messages) \in Nat
      /\ Len(messages') = Len(messages) + 1
  BY <1>1, <1>2, AppendAnything DEF RunKnown
<1>5. a \in Agents /\ run.results[a] \in Works \cup {nobody} /\ run.i \in Nat /\ run.start \in Nat
  BY <1>1, ConfigAgents DEF RunKnown, RunRecords, agentIds
<1>6. config.strategy = "PIPELINE" =>
        /\ run.results[a] = Through(config, run.i)
        /\ run.results[a] \in Works
  BY <1>1, ThroughAgents DEF RunKnown, ChainOK, agentIds
<1>7. /\ said \in RunRecords /\ said.at = "report" /\ said.i = run.i /\ said.start = run.start
      /\ said.results = run.results /\ said.subtasks = run.subtasks
      /\ said.input = IF config.strategy = "PIPELINE" THEN run.results[a] ELSE run.input
  <2>1. CASE config.strategy = "PIPELINE"
    BY <1>1, <1>6, <2>1 DEF RunKnown, RunRecords
  <2>2. CASE config.strategy # "PIPELINE"
    BY <1>1, <2>2 DEF RunKnown
  <2>3. QED
    BY <2>1, <2>2
<1> HIDE DEF said
<1>8. /\ run' \in RunRecords /\ run'.i \in DOMAIN agentIds
      /\ run'.at \in {"assign", "work", "finish"}
      /\ run'.at = "assign" => config.strategy = "MAP_REDUCE"
      /\ run'.results = run.results /\ run'.subtasks = run.subtasks
      /\ run'.input = said.input /\ run'.start = run.start
      /\ Over(config, run') = run.i /\ Worked(config, run') = run.i
  BY <1>1, <1>3, <1>7, OnwardOver DEF RunKnown
<1>9. RunOK(config, run', messages')
  BY <1>1, <1>4, <1>5, <1>8 DEF RunOK, RunKnown, agentIds
<1>10. ResultsOK(config, run')
  <2>1. Worked(config, run) = run.i
    BY <1>1 DEF Worked
  <2>2. \A j : Dealt(run', j) = Dealt(run, j)
    BY <1>8 DEF Dealt
  <2>3. ResultsOK(config, run)
    BY <1>1 DEF RunKnown
  <2>4. QED
    BY <1>1, <1>8, <2>1, <2>2, <2>3 DEF ResultsOK
<1>11. CASE config.strategy # "PIPELINE"
  BY <1>1, <1>4, <1>9, <1>10, <1>11 DEF ChainOK, SentOK, ExecuteOK, SwarmInv, RunKnown
<1>12. CASE config.strategy = "PIPELINE"
  <2>1. ChainOK(config, run')
    BY <1>6, <1>7, <1>8, <1>12 DEF ChainOK
  <2>2. to = Successor(run.i)
    BY <1>12
  <2>3. body \in Bodies
    <3>1. to \in Agents
      BY <1>1, <2>2, SuccessorFollows DEF RunKnown
    <3> HIDE DEF to
    <3>2. QED
      BY <1>5, <1>6, <1>12, <3>1 DEF Bodies
  <2>4. body # nobody
    BY <2>3, SwarmAssumption
  <2>5. body.work = Through(config, run.i) /\ body.to = to
    BY <1>6, <1>12
  <2>6. IsInjective(agentIds) => to = IF run.i = Len(agentIds) THEN leader ELSE agentIds[run.i + 1]
    BY <1>1, <2>2, SuccessorFollows DEF RunKnown
  <2> HIDE DEF body, to
  <2>7. Stage(config, body, run.i)
    BY <2>5, <2>6 DEF Stage, agentIds, leader
  <2>8. /\ IsSequence(messages) /\ run \in RunRecords /\ SentOK(config, run, messages)
        /\ run.i \in DOMAIN config.agentIds /\ config \in Configs
    BY <1>1 DEF RunKnown, agentIds
  <2>9. e.body # nobody /\ Stage(config, e.body, run.i)
    BY <1>2, <2>4, <2>7
  <2>10. SentOK(config, run', Append(messages, e))
    BY <1>1, <1>8, <1>12, <2>8, <2>9, PassesOn
  <2>11. QED
    BY <1>1, <1>2, <1>4, <1>9, <1>10, <2>1, <2>10 DEF ExecuteOK, SwarmInv, RunKnown
<1>13. QED
  BY <1>11, <1>12

LEMMA FinishKeepsRun ==
  ASSUME SwarmInv, Finish, UNCHANGED config
  PROVE  SwarmInv'
<1>1. RunKnown /\ run.at = "finish"
  BY SwarmInvKnows DEF Finish, On
<1>2. messages' = messages
  BY DEF Finish, deliveryVars
<1>3. /\ run' \in RunRecords /\ run'.at = "done" /\ run'.i = run.i /\ run'.start = run.start
      /\ run'.input = run.input /\ run'.results = run.results /\ run'.subtasks = run.subtasks
  BY <1>1 DEF Finish, RunKnown, RunRecords, RunPlaces
<1>4. RunOK(config, run', messages)
  BY <1>1, <1>3 DEF RunKnown, RunOK
<1>5. Over(config, run') = Over(config, run) /\ Worked(config, run') = Worked(config, run)
  BY <1>1, <1>3 DEF Over, Worked
<1>6. \A j : Dealt(run', j) = Dealt(run, j)
  BY <1>3 DEF Dealt
<1>7. ResultsOK(config, run') /\ ChainOK(config, run')
  BY <1>1, <1>3, <1>5, <1>6 DEF RunKnown, ResultsOK, ChainOK
<1>8. SentOK(config, run', messages)
  BY <1>1, <1>3, <1>5, SentStays DEF RunKnown
<1>9. QED
  BY <1>1, <1>2, <1>4, <1>7, <1>8 DEF RunKnown, ExecuteOK, SwarmInv

\* A message from outside of execute.
LEMMA HostSendKeepsRun ==
  ASSUME SwarmInv, NEW topic, NEW body, Send(topic, body), UNCHANGED <<config, run>>,
         body = nobody \/ config.strategy # "PIPELINE"
  PROVE  SwarmInv'
<1>1. PICK e : messages' = Append(messages, e) /\ e.body = body
  BY DEF Send, Log
<1>2. config \in Configs /\ IsSequence(messages) /\ ExecuteOK(config, run, messages)
  BY DEF SwarmInv
<1>3. IsSequence(messages') /\ ExecuteOK(config, run, Append(messages, e))
  BY <1>1, <1>2, AppendAnything, OthersSay
<1>4. QED
  BY <1>1, <1>2, <1>3 DEF SwarmInv

LEMMA SameKeepsRun ==
  ASSUME SwarmInv, UNCHANGED <<config, run, messages>>
  PROVE  SwarmInv'
  BY DEF SwarmInv

LEMMA ThrowsKeepRun ==
  ASSUME SwarmInv, UNCHANGED <<config, messages>>,
         run' = [run EXCEPT !.at = "threw"]
  PROVE  SwarmInv'
<1>1. config \in Configs /\ IsSequence(messages) /\ ExecuteOK(config, run, messages)
  BY DEF SwarmInv
<1>2. ExecuteOK(config, run', messages)
  BY <1>1, ThrowsOK
<1>3. QED
  BY <1>1, <1>2 DEF SwarmInv

LEMMA SwarmKeepsRun ==
  ASSUME SwarmInv, Next
  PROVE  SwarmInv'
<1>1. CASE Vote
  BY <1>1, SameKeepsRun DEF Vote, deliveryVars
<1>2. CASE UNCHANGED config
  <2>1. CASE Execute \/ Split \/ Assign \/ Work \/ Report \/ Finish
    BY <1>2, <2>1, ExecuteKeepsRun, SplitKeepsRun, AssignKeepsRun, WorkKeepsRun, ReportKeepsRun,
       FinishKeepsRun
  <2>2. CASE CallbackThrows
    BY <1>2, <2>2, ThrowsKeepRun DEF CallbackThrows, deliveryVars
  <2>3. CASE HostStep
    <3>1. ASSUME NEW topic, Send(topic, nobody)
          PROVE  SwarmInv'
      BY <1>2, <2>3, <3>1, HostSendKeepsRun DEF HostStep
    <3>2. ASSUME NEW a, Subscribe(a)
          PROVE  SwarmInv'
      BY <1>2, <2>3, <3>2, SameKeepsRun DEF HostStep, Subscribe
    <3>3. QED
      BY <2>3, <3>1, <3>2 DEF HostStep
  <2>4. CASE HandlerReturns /\ UNCHANGED run
    BY <1>2, <2>4, SameKeepsRun DEF HandlerReturns
  <2>5. ASSUME NEW n \in 0..MaxMessages, Throw(n)
        PROVE  SwarmInv'
    <3>1. messages' = messages /\ run' \in {run, [run EXCEPT !.at = "threw"]}
      BY <2>5 DEF Throw, HandlerThrows
    <3>2. QED
      BY <1>2, <3>1, SameKeepsRun, ThrowsKeepRun
  <2>6. QED
    BY <1>1, <2>1, <2>2, <2>3, <2>4, <2>5 DEF Next
<1>3. QED
  BY <1>1, <1>2 DEF Next

\* The programs have no coordinator.
LEMMA ProgramsKeepRun ==
  ASSUME SwarmInv, config.strategy = "NONE", UNCHANGED <<config, run>>,
         BootstrapFullEcosystem \/ BootstrapSWE \/ BootstrapResearcher \/ BootstrapSwarm
  PROVE  SwarmInv'
<1>1. CASE UNCHANGED messages
  BY <1>1, SameKeepsRun
<1>2. ASSUME NEW kind, NEW tool, Emit(kind, tool)
      PROVE  SwarmInv'
  BY <1>2, HostSendKeepsRun DEF Emit
<1>3. CASE Announce \/ ReportTick \/ RequestTool
  BY <1>2, <1>3 DEF Announce, ReportTick, RequestTool
<1>4. CASE Silent \/ UNCHANGED deliveryVars
  BY <1>1, <1>4 DEF Silent, deliveryVars
<1>5. CASE BootHost
  BY <1>1, <1>5 DEF BootHost, Subscribe
<1>6. CASE ComesBack
  BY <1>1, <1>4, <1>6 DEF ComesBack, SettleTool, RefuseTool, Quit, TerminalReturns, HandlerReturns
<1>7. CASE Spawn \/ BeginTurn \/ Think \/ ExecuteTool \/ SkipTool \/ EndTurn \/ Pause
  BY <1>4, <1>7 DEF Spawn, BeginTurn, Think, ExecuteTool, SkipTool, EndTurn, Pause
<1>8. CASE Complete \/ LeaveLoop \/ CloseAwaited \/ ToolsGoOn \/ Probe
  BY <1>4, <1>8 DEF Complete, LeaveLoop, CloseAwaited, ToolsGoOn, Probe
<1>9. QED
  BY <1>3, <1>5, <1>6, <1>7, <1>8
     DEF BootstrapFullEcosystem, BootstrapSWE, BootstrapResearcher, BootstrapSwarm

\* Which programs run is the work of the host.
LEMMA WorkOfPrograms ==
  ASSUME config \in Configs,
         BootstrapFullEcosystem \/ BootstrapSWE \/ BootstrapResearcher \/ BootstrapSwarm
  PROVE  config.strategy = "NONE"
<1>1. config.work # "coordinator"
  BY DEF BootstrapFullEcosystem, BootstrapSWE, BootstrapResearcher, BootstrapSwarm, script
<1>2. QED
  BY <1>1, HostAssumption

LEMMA HostKeepsSwarmInv ==
  ASSUME SwarmInv, [HostNext]_hostVars
  PROVE  SwarmInv'
<1>1. CASE Next
  BY <1>1, SwarmKeepsRun
<1>2. CASE DashboardStep /\ UNCHANGED config
  <2>1. UNCHANGED <<config, run, messages>>
    BY <1>2 DEF DashboardStep, Start, Stop, Connect, Receive, Disconnect, Subscribe, deliveryVars
  <2>2. QED
    BY <2>1, SameKeepsRun
<1>3. CASE UNCHANGED <<swarmVars, config>>
  BY <1>3, SameKeepsRun DEF swarmVars, deliveryVars
<1>4. CASE /\ BootstrapFullEcosystem \/ BootstrapSWE \/ BootstrapResearcher \/ BootstrapSwarm
           /\ UNCHANGED <<config, run>>
  BY <1>4, ProgramsKeepRun, WorkOfPrograms DEF SwarmInv
<1>5. QED
  BY <1>1, <1>2, <1>3, <1>4 DEF HostNext, hostVars

LEMMA SwarmInvHolds == HostSpec => []SwarmInv
<1>1. HostInit => SwarmInv
  BY InitSwarmInv DEF HostInit
<1>2. SwarmInv /\ [HostNext]_hostVars => SwarmInv'
  BY HostKeepsSwarmInv
<1>3. QED
  BY <1>1, <1>2, PTL DEF HostSpec, hostVars

\* As many agents as subtasks or more, none of them twice: no subtask is lost,
\* whatever handlers and callbacks send, subscribe and throw meanwhile.
THEOREM SubtasksWorked == HostSpec => []SubtasksAreWorked
<1>1. SwarmInv => SubtasksAreWorked
  <2> SUFFICES ASSUME SwarmInv, run.at = "done", IsInjective(agentIds), run.subtasks <= Len(agentIds),
                      NEW s \in 1..run.subtasks
               PROVE  \E a \in Agents : run.results[a] = <<s, a>>
    BY DEF SubtasksAreWorked, DistinctAgents
  <2>1. RunKnown /\ run.subtasks \in Nat /\ (config.strategy = "PIPELINE" => run.subtasks = 0)
    BY SwarmInvKnows, SwarmAssumption DEF RunKnown, RunRecords, RunOK
  <2>2. config.strategy # "PIPELINE"
    BY <2>1
  <2>3. /\ Len(agentIds) \in Nat /\ DOMAIN agentIds = 1..Len(agentIds)
        /\ \A j \in DOMAIN agentIds : agentIds[j] \in Agents
    BY <2>1, ConfigAgents DEF RunKnown, agentIds
  <2>4. s \in 1..Len(agentIds)
    BY <2>1, <2>3
  <2>5. Worked(config, run) = Len(agentIds)
    BY DEF Worked, Over, agentIds
  <2>6. run.results[agentIds[s]] = <<Dealt(run, s), agentIds[s]>>
    BY <2>1, <2>2, <2>4, <2>5 DEF RunKnown, ResultsOK, agentIds
  <2>7. Dealt(run, s) = s
    BY <2>1 DEF Dealt
  <2>8. QED
    BY <2>3, <2>4, <2>6, <2>7
<1>2. QED
  BY SwarmInvHolds, <1>1, PTL

\* Whatever else is sent meanwhile, the messages of a pipeline hand the goal from
\* each agent to the next, and it comes out having been through all of them.
THEOREM PipelineHandsOn == HostSpec => []PipelineChains
<1>1. SwarmInv => PipelineChains
  <2> SUFFICES ASSUME SwarmInv, config.strategy = "PIPELINE"
               PROVE  PipelineChains
    BY DEF PipelineChains
  <2>1. RunKnown
    BY SwarmInvKnows
  <2>2. Own = OwnOf(run, messages)
    BY DEF Own, OwnOf, OfCoordinator
  <2>3. ASSUME NEW m \in Own
        PROVE  LET j == Cardinality({k \in Own : k <= m})
               IN /\ messages[m].body.work = Goal \o SubSeq(agentIds, 1, j)
                  /\ DistinctAgents =>
                       messages[m].body.to = IF j = Len(agentIds) THEN leader ELSE agentIds[j + 1]
    <3> DEFINE j == Cardinality({k \in Own : k <= m})
    <3>1. Stage(config, messages[m].body, j)
      BY <2>1, <2>2, <2>3 DEF RunKnown, SentOK
    <3> HIDE DEF j
    <3>2. /\ messages[m].body.work = Goal \o SubSeq(agentIds, 1, j)
          /\ DistinctAgents =>
               messages[m].body.to = IF j = Len(agentIds) THEN leader ELSE agentIds[j + 1]
      BY <3>1 DEF Stage, Through, DistinctAgents, agentIds, leader
    <3>3. QED
      BY <3>2 DEF j
  <2>4. run.at = "done" => run.input = Goal \o agentIds
    BY <2>1, ThroughAgents DEF RunKnown, ChainOK, Over, agentIds
  <2>5. QED
    BY <2>3, <2>4 DEF PipelineChains
<1>2. QED
  BY SwarmInvHolds, <1>1, PTL

-----------------------------------------------------------------------------
(* The dashboard: whatever a page shows and has on its wire ends in the    *)
(* latest events that the server was told of.                              *)

EndsIn(s, t) ==
  /\ Len(t) <= Len(s)
  /\ \A i \in 1..Len(t) : s[Len(s) - Len(t) + i] = t[i]

LEMMA TailOf ==
  ASSUME NEW s \in Seq(Nat), NEW m \in 1..(Len(s) + 1)
  PROVE  /\ SubSeq(s, m, Len(s)) \in Seq(Nat)
         /\ Len(SubSeq(s, m, Len(s))) = Len(s) - m + 1
         /\ \A i \in 1..(Len(s) - m + 1) : SubSeq(s, m, Len(s))[i] = s[m + i - 1]
<1>1. Len(s) \in Nat /\ m \in Int /\ Len(s) \in Int /\ \A i \in m..Len(s) : s[i] \in Nat
  OBVIOUS
<1>2. /\ SubSeq(s, m, Len(s)) \in Seq(Nat)
      /\ Len(SubSeq(s, m, Len(s))) = IF m <= Len(s) THEN Len(s) - m + 1 ELSE 0
      /\ \A i \in 1..(Len(s) - m + 1) : SubSeq(s, m, Len(s))[i] = s[m + i - 1]
  BY <1>1, SubSeqProperties
<1>3. (IF m <= Len(s) THEN Len(s) - m + 1 ELSE 0) = Len(s) - m + 1
  BY <1>1
<1> QED BY <1>2, <1>3

LEMMA LatestEnds ==
  ASSUME NEW s \in Seq(Nat)
  PROVE  /\ Latest(s) \in Seq(Nat) /\ Len(Latest(s)) \in Nat
         /\ Len(Latest(s)) = IF Len(s) > MaxBuffered THEN MaxBuffered ELSE Len(s)
         /\ EndsIn(s, Latest(s))
<1> DEFINE m == IF Len(s) > MaxBuffered THEN Len(s) - MaxBuffered + 1 ELSE 1
<1>1. Len(s) \in Nat /\ MaxBuffered \in Nat /\ MaxBuffered >= 1
  BY DashboardAssumption
<1>2. m \in 1..(Len(s) + 1)
  BY <1>1
<1>3. Latest(s) = SubSeq(s, m, Len(s))
  BY DEF Latest
<1>4. Len(s) - m + 1 = IF Len(s) > MaxBuffered THEN MaxBuffered ELSE Len(s)
  BY <1>1
<1> HIDE DEF m
<1>5. /\ SubSeq(s, m, Len(s)) \in Seq(Nat)
      /\ Len(SubSeq(s, m, Len(s))) = Len(s) - m + 1
      /\ \A i \in 1..(Len(s) - m + 1) : SubSeq(s, m, Len(s))[i] = s[m + i - 1]
  BY <1>2, TailOf
<1>6. EndsIn(s, SubSeq(s, m, Len(s)))
  <2>1. \A i \in 1..(Len(s) - m + 1) : m + i - 1 = Len(s) - (Len(s) - m + 1) + i
    BY <1>1, <1>2
  <2>2. Len(s) - m + 1 <= Len(s)
    BY <1>1, <1>2
  <2>3. QED
    BY <1>5, <2>1, <2>2 DEF EndsIn
<1>7. QED
  BY <1>1, <1>2, <1>3, <1>4, <1>5, <1>6

\* One more event, on the page and in the stream.
LEMMA HearEnds ==
  ASSUME NEW s \in Seq(Nat), NEW st \in Seq(Nat), NEW m \in Nat, EndsIn(s, Latest(st))
  PROVE  EndsIn(Append(s, m), Latest(Append(st, m)))
<1> DEFINE t == Latest(st)
           st2 == Append(st, m)
           s2 == Append(s, m)
           t2 == Latest(st2)
<1>1. /\ Len(s) \in Nat /\ Len(st) \in Nat /\ MaxBuffered \in Nat /\ MaxBuffered >= 1
      /\ s2 \in Seq(Nat) /\ Len(s2) = Len(s) + 1 /\ s2[Len(s) + 1] = m
      /\ \A i \in 1..Len(s) : s2[i] = s[i]
      /\ st2 \in Seq(Nat) /\ Len(st2) = Len(st) + 1 /\ st2[Len(st) + 1] = m
      /\ \A i \in 1..Len(st) : st2[i] = st[i]
  BY DashboardAssumption
<1>2. /\ t \in Seq(Nat) /\ Len(t) = IF Len(st) > MaxBuffered THEN MaxBuffered ELSE Len(st)
      /\ EndsIn(st, t) /\ EndsIn(s, t)
  BY LatestEnds
<1> HIDE DEF s2, st2
<1>3. /\ t2 \in Seq(Nat) /\ Len(t2) = IF Len(st2) > MaxBuffered THEN MaxBuffered ELSE Len(st2)
      /\ EndsIn(st2, t2)
  BY <1>1, LatestEnds
<1> HIDE DEF t, t2
<1>4. /\ Len(t) \in Nat /\ Len(t2) \in Nat /\ Len(t2) <= Len(t) + 1 /\ Len(t) <= Len(s)
      /\ Len(t2) >= 1 /\ Len(t) <= Len(st)
  <2>1. Len(t) <= Len(s) /\ Len(t) <= Len(st)
    BY <1>2 DEF EndsIn
  <2>2. Len(t) \in Nat /\ Len(t2) \in Nat
    BY <1>2, <1>3
  <2>3. /\ Len(t) = IF Len(st) > MaxBuffered THEN MaxBuffered ELSE Len(st)
        /\ Len(t2) = IF Len(st) + 1 > MaxBuffered THEN MaxBuffered ELSE Len(st) + 1
    BY <1>1, <1>2, <1>3
  <2>4. Len(st) \in Nat /\ MaxBuffered \in Nat /\ MaxBuffered >= 1
    BY <1>1
  <2>5. Len(t2) <= Len(t) + 1 /\ Len(t2) >= 1
    BY <2>2, <2>3, <2>4
  <2>6. QED
    BY <2>1, <2>2, <2>5
<1>5. ASSUME NEW i \in 1..Len(t2)
      PROVE  s2[Len(s2) - Len(t2) + i] = t2[i]
  <2>1. t2[i] = st2[Len(st2) - Len(t2) + i]
    BY <1>3 DEF EndsIn
  <2>2. CASE i = Len(t2)
    <3>1. Len(st2) - Len(t2) + i = Len(st) + 1 /\ Len(s2) - Len(t2) + i = Len(s) + 1
      BY <1>1, <1>4, <2>2
    <3>2. QED
      BY <1>1, <2>1, <3>1
  <2>3. CASE i < Len(t2)
    <3> DEFINE h == Len(t) + 1 - Len(t2) + i
    <3>1. h \in 1..Len(t)
      BY <1>4, <2>3
    <3>2. /\ Len(st2) - Len(t2) + i = Len(st) - Len(t) + h
          /\ Len(s2) - Len(t2) + i = Len(s) - Len(t) + h
      BY <1>1, <1>4
    <3> HIDE DEF h
    <3>3. Len(st) - Len(t) + h \in 1..Len(st) /\ Len(s) - Len(t) + h \in 1..Len(s)
      <4>1. Len(t) \in Nat /\ Len(t) <= Len(s) /\ Len(t) <= Len(st) /\ Len(s) \in Nat /\ Len(st) \in Nat
        BY <1>1, <1>4
      <4>2. QED
        BY <3>1, <4>1
    <3>4. st[Len(st) - Len(t) + h] = t[h] /\ s[Len(s) - Len(t) + h] = t[h]
      BY <1>2, <3>1 DEF EndsIn
    <3>5. QED
      BY <1>1, <2>1, <3>2, <3>3, <3>4
  <2>4. QED
    BY <1>4, <2>2, <2>3
<1>6. Len(t2) <= Len(s2)
  BY <1>1, <1>4
<1>7. QED
  BY <1>5, <1>6 DEF EndsIn, s2, st2, t2

\* Two ends of the same length are the same.
LEMMA EndsOnce ==
  ASSUME NEW s \in Seq(Nat), NEW t \in Seq(Nat), NEW u \in Seq(Nat),
         EndsIn(s, t), EndsIn(s, u), Len(t) = Len(u)
  PROVE  t = u
<1>1. \A i \in 1..Len(t) : t[i] = u[i]
  BY DEF EndsIn
<1>2. QED
  BY <1>1, SeqEqual

\* The shorter of two ends is an end of the longer.
LEMMA EndsShorter ==
  ASSUME NEW s \in Seq(Nat), NEW t \in Seq(Nat), NEW u \in Seq(Nat),
         EndsIn(s, t), EndsIn(s, u), Len(u) <= Len(t)
  PROVE  EndsIn(t, u)
<1>1. /\ Len(s) \in Nat /\ Len(t) \in Nat /\ Len(u) \in Nat
      /\ Len(u) <= Len(t) /\ Len(t) <= Len(s)
  BY DEF EndsIn
<1>2. ASSUME NEW i \in 1..Len(u)
      PROVE  t[Len(t) - Len(u) + i] = u[i]
  <2> DEFINE h == Len(t) - Len(u) + i
  <2>1. h \in 1..Len(t) /\ Len(s) - Len(u) + i = Len(s) - Len(t) + h
    BY <1>1
  <2>2. s[Len(s) - Len(u) + i] = u[i]
    BY DEF EndsIn
  <2> HIDE DEF h
  <2>3. s[Len(s) - Len(t) + h] = t[h]
    BY <2>1 DEF EndsIn
  <2>4. QED
    BY <2>1, <2>2, <2>3 DEF h
<1>3. QED
  BY <1>1, <1>2 DEF EndsIn

\* What the buffer keeps is enough for what it keeps next.
LEMMA BufferStaysLatest ==
  ASSUME NEW st \in Seq(Nat), NEW m \in Nat, NEW l, l = Latest(st)
  PROVE  Latest(Append(l, m)) = Latest(Append(st, m))
<1> DEFINE b == Append(l, m)
           st2 == Append(st, m)
<1>1. /\ l \in Seq(Nat) /\ EndsIn(st, l)
      /\ Len(l) = IF Len(st) > MaxBuffered THEN MaxBuffered ELSE Len(st)
  BY LatestEnds
<1>2. Len(st) \in Nat /\ MaxBuffered \in Nat /\ MaxBuffered >= 1
  BY DashboardAssumption
<1>3. b \in Seq(Nat) /\ Len(b) = Len(l) + 1
  BY <1>1
<1>4. st2 \in Seq(Nat) /\ Len(st2) = Len(st) + 1
  OBVIOUS
<1>5. EndsIn(l, l)
  <2>1. Len(l) \in Nat /\ Len(l) <= Len(l)
    BY <1>1
  <2>2. QED
    BY <1>1, <2>1, EndsShorter
<1>6. EndsIn(b, Latest(st2))
  BY <1>1, <1>5, HearEnds
<1> HIDE DEF b, st2
<1>7. EndsIn(b, Latest(b)) /\ Latest(b) \in Seq(Nat)
  BY <1>3, LatestEnds
<1>8. Latest(st2) \in Seq(Nat)
  BY <1>4, LatestEnds
<1>9. Len(Latest(b)) = Len(Latest(st2))
  <2>1. Len(Latest(b)) = IF Len(b) > MaxBuffered THEN MaxBuffered ELSE Len(b)
    BY <1>3, LatestEnds
  <2>2. Len(Latest(st2)) = IF Len(st2) > MaxBuffered THEN MaxBuffered ELSE Len(st2)
    BY <1>4, LatestEnds
  <2>3. CASE Len(st) > MaxBuffered
    BY <1>1, <1>2, <1>3, <1>4, <2>1, <2>2, <2>3
  <2>4. CASE ~(Len(st) > MaxBuffered)
    BY <1>1, <1>2, <1>3, <1>4, <2>1, <2>2, <2>4
  <2>5. QED
    BY <2>3, <2>4
<1>10. Latest(b) = Latest(st2)
  BY <1>3, <1>6, <1>7, <1>8, <1>9, EndsOnce
<1>11. QED
  BY <1>10 DEF b, st2

\* What comes after both.
LEMMA EndsBefore ==
  ASSUME NEW x \in Seq(Nat), NEW y \in Seq(Nat), NEW r \in Seq(Nat), EndsIn(x, y)
  PROVE  EndsIn(x \o r, y \o r)
<1>1. /\ Len(x) \in Nat /\ Len(y) \in Nat /\ Len(r) \in Nat /\ Len(y) <= Len(x)
      /\ \A i \in 1..Len(y) : x[Len(x) - Len(y) + i] = y[i]
  BY DEF EndsIn
<1>2. /\ Len(x \o r) = Len(x) + Len(r) /\ Len(y \o r) = Len(y) + Len(r)
      /\ \A i \in 1..Len(x) : (x \o r)[i] = x[i]
      /\ \A i \in 1..Len(y) : (y \o r)[i] = y[i]
      /\ \A i \in (Len(x) + 1)..(Len(x) + Len(r)) : (x \o r)[i] = r[i - Len(x)]
      /\ \A i \in (Len(y) + 1)..(Len(y) + Len(r)) : (y \o r)[i] = r[i - Len(y)]
  BY ConcatProperties
<1> DEFINE k == Len(x) - Len(y)
<1>3. k \in Nat /\ Len(x \o r) - Len(y \o r) = k /\ k + Len(y) = Len(x)
  BY <1>1, <1>2
<1> HIDE DEF k
<1>4. ASSUME NEW i \in 1..(Len(y) + Len(r))
      PROVE  (x \o r)[k + i] = (y \o r)[i]
  <2>1. CASE i \in 1..Len(y)
    <3>1. k + i \in 1..Len(x)
      BY <1>1, <1>3, <2>1
    <3>2. x[k + i] = y[i]
      BY <1>1, <2>1 DEF k
    <3>3. QED
      BY <1>2, <2>1, <3>1, <3>2
  <2>2. CASE i \in (Len(y) + 1)..(Len(y) + Len(r))
    <3>1. k + i \in (Len(x) + 1)..(Len(x) + Len(r)) /\ (k + i) - Len(x) = i - Len(y)
      <4>1. Len(y) \in Nat /\ Len(r) \in Nat /\ k \in Nat /\ Len(x) = k + Len(y)
        BY <1>1, <1>3
      <4>2. i \in Int /\ i >= Len(y) + 1 /\ i <= Len(y) + Len(r)
        BY <2>2, <4>1
      <4>3. QED
        BY <4>1, <4>2
    <3>2. QED
      BY <1>2, <2>2, <3>1
  <2>3. Len(y) \in Nat /\ Len(r) \in Nat
    BY <1>1
  <2>4. i \in 1..Len(y) \/ i \in (Len(y) + 1)..(Len(y) + Len(r))
    BY <2>3
  <2>5. QED
    BY <2>1, <2>2, <2>4
<1>5. Len(y \o r) <= Len(x \o r)
  BY <1>1, <1>2
<1>6. QED
  BY <1>2, <1>3, <1>4, <1>5 DEF EndsIn

\* Events at the end of the wire.
LEMMA WireGrows ==
  ASSUME NEW rows \in Seq(Nat), NEW wire \in Seq(Nat), NEW one \in Seq(Nat)
  PROVE  (rows \o wire) \o one = rows \o (wire \o one)
  BY ConcatAssociative, SMTT(60)

\* A page takes some of its wire, and drops its oldest rows.
LEMMA ReceiveEnds ==
  ASSUME NEW rows \in Seq(Nat), NEW come \in Seq(Nat), NEW rest \in Seq(Nat),
         NEW t \in Seq(Nat), Len(t) <= MaxBuffered, EndsIn(rows \o (come \o rest), t)
  PROVE  EndsIn(Latest(rows \o come) \o rest, t)
<1> DEFINE taken == rows \o come
           kept == Latest(taken)
<1>1. taken \in Seq(Nat)
  OBVIOUS
<1>0. rows \o (come \o rest) = taken \o rest
  BY WireGrows
<1> HIDE DEF taken
<1>2. /\ kept \in Seq(Nat) /\ EndsIn(taken, kept)
      /\ Len(kept) = IF Len(taken) > MaxBuffered THEN MaxBuffered ELSE Len(taken)
  BY <1>1, LatestEnds
<1> HIDE DEF kept
<1>3. EndsIn(taken \o rest, kept \o rest) /\ EndsIn(taken \o rest, t)
  BY <1>0, <1>1, <1>2, EndsBefore
<1>4. /\ taken \o rest \in Seq(Nat) /\ kept \o rest \in Seq(Nat)
      /\ Len(taken \o rest) = Len(taken) + Len(rest)
      /\ Len(kept \o rest) = Len(kept) + Len(rest)
  BY <1>1, <1>2, ConcatProperties
<1>5. Len(t) <= Len(taken \o rest)
  BY <1>3 DEF EndsIn
<1>6. Len(t) <= Len(kept \o rest)
  <2>1. Len(t) \in Nat /\ Len(taken) \in Nat /\ Len(rest) \in Nat /\ MaxBuffered \in Nat
    BY <1>1, DashboardAssumption
  <2>2. CASE Len(taken) > MaxBuffered
    BY <1>2, <1>4, <2>1, <2>2
  <2>3. CASE ~(Len(taken) > MaxBuffered)
    BY <1>2, <1>4, <1>5, <2>1, <2>3
  <2>4. QED
    BY <2>2, <2>3
<1>7. EndsIn(kept \o rest, t)
  BY <1>3, <1>4, <1>6, EndsShorter
<1>8. QED
  BY <1>7 DEF kept, taken

PageRecords ==
  [at : {"away", "client", "left"}, init : Nat, wire : Seq(Nat), rows : Seq(Nat)]

PageOK(page, told) ==
  /\ page \in PageRecords
  /\ page.init <= Len(page.wire)
  /\ page.at = "client" => EndsIn(page.rows \o page.wire, Latest(told))

BoardInv ==
  /\ stream \in Seq(Nat) /\ eventBuffer = Latest(stream)
  /\ DOMAIN pages = Pages /\ pages = [p \in Pages |-> pages[p]]
  /\ \A p \in Pages : PageOK(pages[p], stream)

\* The buffer and each wire get the same event.
LEMMA HearKeepsBoard ==
  ASSUME BoardInv, NEW m \in Nat, Hear(m)
  PROVE  BoardInv'
<1>1. /\ stream \in Seq(Nat) /\ stream' = Append(stream, m) /\ stream' \in Seq(Nat)
      /\ eventBuffer = Latest(stream)
  BY DEF BoardInv, Hear
<1>2. eventBuffer' = Latest(stream')
  BY <1>1, BufferStaysLatest DEF Hear, Buffered
<1>3. ASSUME NEW p \in Pages
      PROVE  PageOK(pages'[p], stream')
  <2> DEFINE page == pages[p]
             page2 == [page EXCEPT !.wire = Append(@, m)]
  <2>1. PageOK(page, stream) /\ page \in PageRecords
    BY DEF BoardInv, PageOK
  <2>2. pages'[p] = IF page.at = "client" THEN page2 ELSE page
    BY DEF Hear, Clients
  <2>3. CASE page.at # "client"
    BY <2>1, <2>2, <2>3 DEF PageOK
  <2>4. CASE page.at = "client"
    <3> HIDE DEF page
    <3>1. /\ page.rows \in Seq(Nat) /\ page.wire \in Seq(Nat)
          /\ Len(page.wire) \in Nat /\ Len(Append(page.wire, m)) = Len(page.wire) + 1
          /\ Append(page.wire, m) \in Seq(Nat) /\ page.init \in Nat
      BY <2>1 DEF PageRecords
    <3>2. /\ page2 \in PageRecords /\ page2.rows = page.rows /\ page2.init = page.init
          /\ page2.wire = Append(page.wire, m)
      BY <2>1, <3>1 DEF PageRecords
    <3>3. page.rows \o page.wire \in Seq(Nat)
      BY <3>1
    <3>4. page.rows \o Append(page.wire, m) = Append(page.rows \o page.wire, m)
      <4>1. <<m>> \in Seq(Nat) /\ Append(page.wire, m) = page.wire \o <<m>>
        BY <3>1, AppendIsConcat
      <4>2. Append(page.rows \o page.wire, m) = (page.rows \o page.wire) \o <<m>>
        BY <3>3, AppendIsConcat
      <4>3. (page.rows \o page.wire) \o <<m>> = page.rows \o (page.wire \o <<m>>)
        BY <3>1, <4>1, WireGrows
      <4>4. QED
        BY <4>1, <4>2, <4>3
    <3>5. EndsIn(page.rows \o page.wire, Latest(stream))
      BY <2>1, <2>4 DEF PageOK
    <3>6. EndsIn(Append(page.rows \o page.wire, m), Latest(stream'))
      BY <1>1, <3>3, <3>5, HearEnds
    <3>7. page2.init <= Len(page2.wire)
      <4>1. page.init <= Len(page.wire)
        BY <2>1 DEF PageOK
      <4>2. QED
        BY <3>1, <3>2, <4>1
    <3> HIDE DEF page2
    <3>8. EndsIn(page2.rows \o page2.wire, Latest(stream'))
      BY <3>2, <3>4, <3>6
    <3>9. PageOK(page2, stream')
      BY <3>2, <3>7, <3>8 DEF PageOK
    <3>10. QED
      BY <2>2, <2>4, <3>9
  <2>5. QED
    BY <2>3, <2>4
<1>4. DOMAIN pages' = Pages /\ pages' = [p \in Pages |-> pages'[p]]
  BY DEF Hear
<1>5. QED
  BY <1>1, <1>2, <1>3, <1>4 DEF BoardInv

\* One page changes, or the server leaves its pages.
LEMMA PageKeepsBoard ==
  ASSUME BoardInv, UNCHANGED <<stream, eventBuffer>>, NEW q \in Pages, NEW page,
         pages' = [pages EXCEPT ![q] = page], PageOK(page, stream)
  PROVE  BoardInv'
  BY DEF BoardInv

LEMMA ReceiveKeepsBoard ==
  ASSUME BoardInv, NEW q \in Pages, Receive(q)
  PROVE  BoardInv'
<1> DEFINE page == pages[q]
           taken == IF page.init = 0 THEN 1 ELSE page.init
           come == SubSeq(page.wire, 1, taken)
           rest == SubSeq(page.wire, taken + 1, Len(page.wire))
           page2 == [page EXCEPT !.init = 0, !.wire = rest, !.rows = Latest(@ \o come)]
<1>1. PageOK(page, stream) /\ page \in PageRecords /\ page.wire # << >> /\ stream \in Seq(Nat)
  BY DEF BoardInv, PageOK, Receive
<1>2. pages' = [pages EXCEPT ![q] = page2] /\ UNCHANGED <<stream, eventBuffer>>
  BY DEF Receive, BoardInv
<1> HIDE DEF page
<1>3. /\ page.rows \in Seq(Nat) /\ page.wire \in Seq(Nat) /\ page.init \in Nat
      /\ Len(page.wire) \in Nat /\ Len(page.wire) >= 1 /\ page.init <= Len(page.wire)
  BY <1>1 DEF PageRecords, PageOK
<1>4. taken \in 1..Len(page.wire)
  BY <1>3
<1> HIDE DEF taken
<1>5. come \in Seq(Nat) /\ rest \in Seq(Nat) /\ page.wire = come \o rest
  BY <1>3, <1>4
<1> HIDE DEF come, rest
<1>6. Latest(page.rows \o come) \in Seq(Nat)
  <2> DEFINE shown == page.rows \o come
  <2>1. shown \in Seq(Nat)
    BY <1>3, <1>5
  <2> HIDE DEF shown
  <2>2. Latest(shown) \in Seq(Nat)
    BY <2>1, LatestEnds
  <2>3. QED
    BY <2>2 DEF shown
<1>7. /\ page2 \in PageRecords /\ page2.init = 0 /\ page2.wire = rest /\ page2.at = page.at
      /\ page2.rows = Latest(page.rows \o come)
  BY <1>1, <1>5, <1>6 DEF PageRecords
<1>8. page.at = "client" => EndsIn(Latest(page.rows \o come) \o rest, Latest(stream))
  <2>1. Latest(stream) \in Seq(Nat) /\ Len(Latest(stream)) <= MaxBuffered
    <3>1. /\ Latest(stream) \in Seq(Nat)
          /\ Len(Latest(stream)) = IF Len(stream) > MaxBuffered THEN MaxBuffered ELSE Len(stream)
      BY <1>1, LatestEnds
    <3>2. Len(stream) \in Nat /\ MaxBuffered \in Nat
      BY <1>1, DashboardAssumption
    <3>3. QED
      BY <3>1, <3>2
  <2>2. page.at = "client" => EndsIn(page.rows \o (come \o rest), Latest(stream))
    BY <1>1, <1>5 DEF PageOK
  <2>3. QED
    BY <1>3, <1>5, <2>1, <2>2, ReceiveEnds
<1> HIDE DEF page2
<1>9. 0 <= Len(page2.wire)
  BY <1>5, <1>7
<1>10. PageOK(page2, stream)
  BY <1>7, <1>8, <1>9 DEF PageOK
<1>11. QED
  BY <1>2, <1>10, PageKeepsBoard

LEMMA DashboardKeepsBoard ==
  ASSUME BoardInv, DashboardStep
  PROVE  BoardInv'
<1>1. CASE Start
  BY <1>1 DEF Start, BoardInv
<1>2. CASE Stop
  <2>1. UNCHANGED <<stream, eventBuffer>>
    BY <1>2 DEF Stop
  <2>2. ASSUME NEW p \in Pages
        PROVE  PageOK(pages'[p], stream)
    <3>1. PageOK(pages[p], stream)
      BY DEF BoardInv
    <3>2. \/ pages'[p] = pages[p]
          \/ pages'[p] = [pages[p] EXCEPT !.at = "left"]
      BY <1>2 DEF Stop
    <3>3. PageOK([pages[p] EXCEPT !.at = "left"], stream)
      BY <3>1 DEF PageOK, PageRecords
    <3>4. QED
      BY <3>1, <3>2, <3>3
  <2>3. DOMAIN pages' = Pages /\ pages' = [p \in Pages |-> pages'[p]]
    BY <1>2 DEF Stop
  <2>4. QED
    BY <2>1, <2>2, <2>3 DEF BoardInv
<1>3. ASSUME NEW q \in Pages, Connect(q)
      PROVE  BoardInv'
  <2> DEFINE page2 == [pages[q] EXCEPT !.at = "client", !.wire = eventBuffer, !.init = Len(eventBuffer)]
             latest == Latest(stream)
  <2>1. pages' = [pages EXCEPT ![q] = page2] /\ UNCHANGED <<stream, eventBuffer>>
    BY <1>3 DEF Connect, BoardInv
  <2>2. PageOK(pages[q], stream) /\ pages[q] \in PageRecords /\ eventBuffer = latest
    BY DEF BoardInv, PageOK
  <2>3. latest \in Seq(Nat) /\ Len(latest) \in Nat /\ EndsIn(stream, latest) /\ stream \in Seq(Nat)
    BY LatestEnds DEF BoardInv
  <2> HIDE DEF latest
  <2>4. /\ page2 \in PageRecords /\ page2.wire = latest /\ page2.init = Len(latest)
        /\ page2.rows = pages[q].rows /\ pages[q].rows \in Seq(Nat)
    BY <2>2, <2>3 DEF PageRecords
  <2> HIDE DEF page2
  <2>5. EndsIn(pages[q].rows \o latest, latest)
    <3>1. /\ Len(pages[q].rows) \in Nat
          /\ Len(pages[q].rows \o latest) = Len(pages[q].rows) + Len(latest)
          /\ \A i \in 1..Len(latest) :
               (pages[q].rows \o latest)[Len(pages[q].rows) + i] = latest[i]
      BY <2>3, <2>4
    <3>2. Len(pages[q].rows \o latest) - Len(latest) = Len(pages[q].rows)
      BY <2>3, <3>1
    <3>3. Len(latest) <= Len(pages[q].rows \o latest)
      BY <2>3, <3>1
    <3>4. QED
      BY <3>1, <3>2, <3>3 DEF EndsIn
  <2>6. PageOK(page2, stream)
    BY <2>3, <2>4, <2>5 DEF PageOK, latest
  <2>7. QED
    BY <2>1, <2>6, PageKeepsBoard
<1>4. ASSUME NEW q \in Pages, Disconnect(q)
      PROVE  BoardInv'
  <2> DEFINE page2 == [pages[q] EXCEPT !.at = "away", !.init = 0, !.wire = << >>]
  <2>1. pages' = [pages EXCEPT ![q] = page2] /\ UNCHANGED <<stream, eventBuffer>>
    BY <1>4 DEF Disconnect, BoardInv
  <2>2. pages[q] \in PageRecords
    BY DEF BoardInv, PageOK
  <2>3. page2 \in PageRecords /\ page2.at = "away" /\ page2.init = 0 /\ page2.wire = << >>
    <3>1. << >> \in Seq(Nat) /\ 0 \in Nat
      OBVIOUS
    <3>2. /\ page2.at = "away" /\ page2.init = 0 /\ page2.wire = << >>
          /\ page2.rows = pages[q].rows
      BY <2>2 DEF PageRecords
    <3>3. QED
      BY <2>2, <3>1, <3>2 DEF PageRecords
  <2> HIDE DEF page2
  <2>4. page2.init <= Len(page2.wire)
    <3>1. Len(<< >>) = 0
      OBVIOUS
    <3>2. QED
      BY <2>3, <3>1
  <2>5. PageOK(page2, stream)
    BY <2>3, <2>4 DEF PageOK
  <2>6. QED
    BY <2>1, <2>5, PageKeepsBoard
<1>5. QED
  BY <1>1, <1>2, <1>3, <1>4, ReceiveKeepsBoard DEF DashboardStep

LEMMA HostKeepsBoard ==
  ASSUME HInv, HInv', BoardInv, [HostNext]_hostVars
  PROVE  BoardInv'
<1>1. CASE UNCHANGED dashboardVars
  BY <1>1 DEF dashboardVars, BoardInv, PageOK
<1>2. CASE Notice
  <2>1. CASE UNCHANGED <<stream, eventBuffer, pages>>
    BY <2>1 DEF BoardInv
  <2>2. CASE Len(heard') > Len(heard) /\ Hear(Last(heard').msg)
    <3>1. heard \in Seq(Hearing) /\ heard' \in Seq(Hearing)
      BY DEF HInv, DInv, Sound, HeardOK
    <3>2. Last(heard') \in Hearing
      BY <2>2, <3>1 DEF Last
    <3>3. Last(heard').msg \in Nat
      BY <3>2 DEF Hearing
    <3>4. QED
      BY <2>2, <3>3, HearKeepsBoard
  <2>3. QED
    BY <1>2, <2>1, <2>2 DEF Notice
<1>3. CASE DashboardStep
  BY <1>3, DashboardKeepsBoard
<1>4. QED
  BY <1>1, <1>2, <1>3 DEF HostNext, hostVars

LEMMA BoardHolds == HostSpec => []BoardInv
<1>1. HostInit => BoardInv
  <2> SUFFICES ASSUME HostInit PROVE BoardInv
    OBVIOUS
  <2>1. stream = << >> /\ eventBuffer = << >>
        /\ pages = [p \in Pages |-> [at |-> "away", init |-> 0, wire |-> << >>, rows |-> << >>]]
    BY DEF HostInit, DashboardInit
  <2>2. Latest(<< >>) = << >>
    <3>1. << >> \in Seq(Nat) /\ Len(<< >>) = 0 /\ ~(0 > MaxBuffered)
      BY DashboardAssumption
    <3>2. Latest(<< >>) \in Seq(Nat) /\ Len(Latest(<< >>)) = 0
      BY <3>1, LatestEnds
    <3>3. QED
      BY <3>2
  <2>3. \A p \in Pages : PageOK(pages[p], << >>)
    BY <2>1 DEF PageOK, PageRecords
  <2>4. QED
    BY <2>1, <2>2, <2>3 DEF BoardInv
<1>2. HInv /\ HInv' /\ BoardInv /\ [HostNext]_hostVars => BoardInv'
  BY HostKeepsBoard
<1>3. QED
  BY <1>1, <1>2, HInvHolds, PTL DEF HostSpec, hostVars

\* DashboardServer and its page: buffer, INIT and broadcast leave no gap, however
\* often pages and server come and go.
THEOREM PagesShowLatest == HostSpec => []PageShowsLatest
<1>1. BoardInv => PageShowsLatest
  <2> SUFFICES ASSUME BoardInv, NEW p \in Clients
               PROVE  LET shown == pages[p].rows \o pages[p].wire
                          latest == Latest(stream)
                      IN /\ Len(shown) >= Len(latest)
                         /\ SubSeq(shown, Len(shown) - Len(latest) + 1, Len(shown)) = latest
    BY DEF PageShowsLatest
  <2> DEFINE s == pages[p].rows \o pages[p].wire
             t == Latest(stream)
             cut == SubSeq(s, Len(s) - Len(t) + 1, Len(s))
  <2>1. PageOK(pages[p], stream) /\ pages[p].at = "client" /\ stream \in Seq(Nat)
    BY DEF BoardInv, Clients
  <2>2. s \in Seq(Nat) /\ t \in Seq(Nat) /\ EndsIn(s, t)
    BY <2>1, LatestEnds DEF PageOK, PageRecords
  <2> HIDE DEF s, t
  <2>3. /\ Len(s) \in Nat /\ Len(t) \in Nat /\ Len(t) <= Len(s)
        /\ \A i \in 1..Len(t) : s[Len(s) - Len(t) + i] = t[i]
    BY <2>2 DEF EndsIn
  <2> DEFINE m == Len(s) - Len(t) + 1
  <2>4. m \in 1..(Len(s) + 1) /\ Len(s) - m + 1 = Len(t)
    BY <2>3
  <2>5. \A i \in 1..Len(t) : m + i - 1 = Len(s) - Len(t) + i
    BY <2>3
  <2> HIDE DEF m
  <2>6. /\ SubSeq(s, m, Len(s)) \in Seq(Nat)
        /\ Len(SubSeq(s, m, Len(s))) = Len(s) - m + 1
        /\ \A i \in 1..(Len(s) - m + 1) : SubSeq(s, m, Len(s))[i] = s[m + i - 1]
    BY <2>2, <2>4, TailOf
  <2>7. SubSeq(s, m, Len(s)) = t
    <3>1. \A i \in 1..Len(t) : SubSeq(s, m, Len(s))[i] = t[i]
      BY <2>3, <2>4, <2>5, <2>6
    <3>2. QED
      BY <2>2, <2>4, <2>6, <3>1, SeqEqual
  <2>8. QED
    BY <2>3, <2>7 DEF s, t, m
<1>2. QED
  BY BoardHolds, <1>1, PTL

-----------------------------------------------------------------------------
(* Plugins: what is loaded comes from a manifest that was valid, and stays *)
(* until a later directory takes its name.                                 *)

\* What the loader may keep.
Plugin(m) == LoadedPlugin(m, loadToolHandlers(m))
LoadedPlugins == {Plugin(m) : m \in {n \in Manifests : validate(n) = {}}}

\* No later one found has its name.
NotReplaced(found, n, i) ==
  \A j \in (i + 1)..n :
    found[j].stored => found[j].manifest.name # found[i].manifest.name

Kept(plugins, found, n) ==
  \A i \in 1..n :
    found[i].stored /\ NotReplaced(found, n, i) => \E k \in DOMAIN plugins : plugins[k] = found[i]

FoundOK(found) == found \in Seq(LoadedPlugins \cup {Rejected})

\* Whose handler a registered tool is.
EntryOK(t, handler) ==
  \/ handler = nothing \/ handler.from = nothing
  \/ \E p \in LoadedPlugins : \E d \in p.tools :
       p.valid /\ d.name = t /\ handler = HandlerOf(p, d)

\* What was reported: registered, or among those rejected.
Reported(found, n, handlers, rejected) ==
  \A i \in 1..n :
    found[i].valid /\ NotReplaced(found, n, i) =>
      \A d \in found[i].tools : handlers[d.name] = HandlerOf(found[i], d) \/ d.name \in rejected

PluginInv ==
  /\ registry = [t \in ToolNames |-> registry[t]]
  /\ \A t \in ToolNames : EntryOK(t, registry[t])
  /\ disk = << >> \/ disk \in Disks
  /\ FoundOK(results) /\ loaded \in Seq(LoadedPlugins)
  /\ Kept(loaded, results, Len(results))
  /\ report # nothing => Reported(results, Len(results), registry, report.rejected)

LEMMA PluginFacts ==
  ASSUME NEW p \in LoadedPlugins
  PROVE  /\ p.stored /\ p.valid \in BOOLEAN
         /\ p.manifest \in Manifests /\ p.manifest.faults = {} /\ ~Foreign(p.manifest)
         /\ p.tools \subseteq ToSet(p.manifest.tools)
         /\ p.valid => \A i \in DOMAIN p.manifest.tools : Loads(p.manifest.tools[i])
         /\ \A d, e \in p.tools : d.name = e.name => d = e
         /\ \A d \in p.tools : d.name \in ToolNames /\ HandlerOf(p, d) # nothing
<1>1. PICK m \in Manifests : validate(m) = {} /\ p = Plugin(m)
  BY DEF LoadedPlugins
<1>2. m.faults = {} /\ ~Foreign(m)
  <2>1. "field" \notin m.faults
    BY <1>1 DEF validate
  <2>2. m.faults = {} /\ {f \in {"namespace"} : "tools" \notin m.faults /\ Foreign(m)} = {}
    BY <1>1, <2>1 DEF validate
  <2>3. QED
    BY <2>2
<1>3. /\ p.stored = TRUE /\ p.manifest = m
      /\ p.valid = (loadToolHandlers(m).errors = {}) /\ p.tools = loadToolHandlers(m).tools
  BY <1>1 DEF Plugin, LoadedPlugin
<1>4. p.tools \subseteq ToSet(m.tools)
  BY <1>3 DEF loadToolHandlers
<1>5. p.valid => \A i \in DOMAIN m.tools : Loads(m.tools[i])
  BY <1>3 DEF loadToolHandlers, ToSet
<1>6. ASSUME NEW d \in p.tools, NEW e \in p.tools, d.name = e.name
      PROVE  d = e
  <2>1. PICK i \in DOMAIN m.tools :
          /\ m.tools[i] = d /\ Loads(d)
          /\ \A j \in (i + 1)..Len(m.tools) : ~(Loads(m.tools[j]) /\ m.tools[j].name = d.name)
    BY <1>3 DEF loadToolHandlers
  <2>2. PICK j \in DOMAIN m.tools :
          /\ m.tools[j] = e /\ Loads(e)
          /\ \A k \in (j + 1)..Len(m.tools) : ~(Loads(m.tools[k]) /\ m.tools[k].name = e.name)
    BY <1>3 DEF loadToolHandlers
  <2>3. DOMAIN m.tools = 1..Len(m.tools) /\ Len(m.tools) \in Nat
    BY PluginAssumption
  <2>4. ~(i < j) /\ ~(j < i)
    BY <1>6, <2>1, <2>2, <2>3
  <2>5. QED
    BY <2>1, <2>2, <2>3, <2>4
<1>7. \A d \in p.tools : d.name \in ToolNames /\ HandlerOf(p, d) # nothing
  BY <1>1, <1>4, PluginAssumption DEF Plugin
<1>8. QED
  BY <1>2, <1>3, <1>4, <1>5, <1>6, <1>7

\* One directory gives a plugin from a valid manifest, or nothing to keep.
LEMMA LoadsPlugin ==
  ASSUME NEW d \in Disks, NEW i \in DOMAIN d
  PROVE  LoadFrom(d[i]) \in LoadedPlugins \cup {Rejected}
<1>1. d[i] \in {noManifest, notJson} \/ d[i] \in Manifests
  <2>1. d[i] \in ToSet(d)
    BY DEF ToSet
  <2>2. d[i] \in UNION {ToSet(e) : e \in Disks}
    BY <2>1
  <2>3. QED
    BY <2>2 DEF Manifests
<1>2. CASE d[i] \in {noManifest, notJson}
  BY <1>2 DEF LoadFrom
<1>3. CASE d[i] \in Manifests /\ d[i] \notin {noManifest, notJson}
  BY <1>3 DEF LoadFrom, LoadedPlugins, Plugin
<1>4. QED
  BY <1>1, <1>2, <1>3

LEMMA SetOne ==
  ASSUME NEW plugins \in Seq(LoadedPlugins), NEW found, FoundOK(found),
         NEW n \in 0..(Len(found) - 1), Kept(plugins, found, n)
  PROVE  /\ SetLoaded(plugins, found[n + 1]) \in Seq(LoadedPlugins)
         /\ Kept(SetLoaded(plugins, found[n + 1]), found, n + 1)
<1> DEFINE p == found[n + 1]
           after == SetLoaded(plugins, p)
<1>1. Len(found) \in Nat /\ n \in Nat /\ n + 1 \in 1..Len(found)
  BY DEF FoundOK
<1>2. p \in LoadedPlugins \cup {Rejected}
  BY <1>1 DEF FoundOK
<1>3. \A i \in 1..n : found[i].stored /\ NotReplaced(found, n + 1, i) =>
        /\ \E k \in DOMAIN plugins : plugins[k] = found[i]
        /\ p.stored => p.manifest.name # found[i].manifest.name
  BY <1>1 DEF Kept, NotReplaced
<1> HIDE DEF p
<1>4. CASE ~p.stored
  <2>1. after = plugins
    BY <1>4 DEF SetLoaded
  <2>2. Kept(after, found, n + 1)
    BY <1>1, <1>3, <1>4, <2>1 DEF Kept, p
  <2>3. QED
    BY <2>1, <2>2 DEF p
<1>5. CASE p.stored /\ Named(plugins, p.manifest.name) = {}
  <2>1. p \in LoadedPlugins
    BY <1>2, <1>5 DEF Rejected
  <2>2. after = Append(plugins, p)
    BY <1>5 DEF SetLoaded
  <2>3. /\ after \in Seq(LoadedPlugins) /\ Len(plugins) \in Nat
        /\ DOMAIN plugins = 1..Len(plugins) /\ DOMAIN after = 1..(Len(plugins) + 1)
        /\ \A k \in 1..Len(plugins) : after[k] = plugins[k]
        /\ after[Len(plugins) + 1] = p
    BY <2>1, <2>2
  <2>4. \A k \in DOMAIN plugins : k \in DOMAIN after /\ after[k] = plugins[k]
    BY <2>3
  <2>5. \E k \in DOMAIN after : after[k] = p
    BY <2>3
  <2> HIDE DEF after
  <2>6. \A i \in 1..(n + 1) : i \in 1..n \/ i = n + 1
    BY <1>1
  <2>7. Kept(after, found, n + 1)
    BY <1>3, <2>4, <2>5, <2>6 DEF Kept, p
  <2>8. QED
    BY <2>3, <2>7 DEF p, after
<1>6. CASE p.stored /\ Named(plugins, p.manifest.name) # {}
  <2>1. p \in LoadedPlugins
    BY <1>2, <1>6 DEF Rejected
  <2>2. after = [i \in DOMAIN plugins |-> IF i \in Named(plugins, p.manifest.name) THEN p ELSE plugins[i]]
    BY <1>6 DEF SetLoaded
  <2>3. after \in Seq(LoadedPlugins)
    <3>1. Len(plugins) \in Nat /\ DOMAIN plugins = 1..Len(plugins)
      BY DEF FoundOK
    <3>2. \A i \in 1..Len(plugins) :
            (IF i \in Named(plugins, p.manifest.name) THEN p ELSE plugins[i]) \in LoadedPlugins
      BY <2>1, <3>1
    <3>3. QED
      BY <2>2, <3>1, <3>2
  <2>4. \A k \in DOMAIN plugins :
          /\ k \in DOMAIN after
          /\ plugins[k].manifest.name # p.manifest.name => after[k] = plugins[k]
    BY <2>2 DEF Named
  <2>5. \E k \in DOMAIN after : after[k] = p
    BY <1>6, <2>2 DEF Named
  <2> HIDE DEF after
  <2>6. \A i \in 1..(n + 1) : i \in 1..n \/ i = n + 1
    BY <1>1
  <2>7. ASSUME NEW i \in 1..(n + 1), found[i].stored, NotReplaced(found, n + 1, i)
        PROVE  \E k \in DOMAIN after : after[k] = found[i]
    <3>1. CASE i = n + 1
      BY <2>5, <3>1 DEF p
    <3>2. CASE i \in 1..n
      <4>1. PICK k \in DOMAIN plugins : plugins[k] = found[i]
        BY <1>3, <2>7, <3>2
      <4>2. p.manifest.name # found[i].manifest.name
        BY <1>3, <1>6, <2>7, <3>2
      <4>3. QED
        BY <2>4, <4>1, <4>2
    <3>3. QED
      BY <2>6, <3>1, <3>2
  <2>8. QED
    BY <2>3, <2>7 DEF Kept, p, after
<1>7. QED
  BY <1>4, <1>5, <1>6

\* f is the loaded plugins after each of the first n directories.
Steps(f, plugins, found, n) ==
  f = [i \in 0..n |-> IF i = 0 THEN plugins ELSE SetLoaded(f[i - 1], found[i])]

LEMMA StepsExist ==
  ASSUME NEW plugins, NEW found, NEW m \in Nat
  PROVE  \E f : Steps(f, plugins, found, m)
<1> DEFINE Missing == {n \in Nat : ~ \E f : Steps(f, plugins, found, n)}
<1>1. CASE Missing = {}
  BY <1>1
<1>2. CASE Missing # {}
  <2>1. PICK n \in Missing : \A y \in Missing : ~(<<y, n>> \in OpToRel(<, Nat))
    BY <1>2, WFMin, NatLessThanWellFounded
  <2>2. n \in Nat /\ \A y \in Missing : ~(y < n)
    BY <2>1 DEF OpToRel
  <2>3. CASE n = 0
    <3> DEFINE g == [i \in 0..0 |-> plugins]
    <3>1. g = [i \in 0..0 |-> IF i = 0 THEN plugins ELSE SetLoaded(g[i - 1], found[i])]
      OBVIOUS
    <3>2. Steps(g, plugins, found, n)
      BY <2>3, <3>1 DEF Steps
    <3>3. QED
      BY <2>1, <3>2
  <2>4. CASE n # 0
    <3>1. n - 1 \in Nat /\ n - 1 < n
      BY <2>2, <2>4
    <3>2. PICK f : Steps(f, plugins, found, n - 1)
      BY <2>2, <3>1
    <3> DEFINE g == [i \in 0..n |-> IF i = n THEN SetLoaded(f[n - 1], found[n]) ELSE f[i]]
               h == [i \in 0..n |-> IF i = 0 THEN plugins ELSE SetLoaded(g[i - 1], found[i])]
    <3>3. \A i \in 0..n : g[i] = IF i = 0 THEN plugins ELSE SetLoaded(g[i - 1], found[i])
      <4> SUFFICES ASSUME NEW i \in 0..n
                   PROVE  g[i] = IF i = 0 THEN plugins ELSE SetLoaded(g[i - 1], found[i])
        OBVIOUS
      <4>1. \A j \in 0..(n - 1) :
              f[j] = IF j = 0 THEN plugins ELSE SetLoaded(f[j - 1], found[j])
        BY <3>2 DEF Steps
      <4>2. \A j \in 0..(n - 1) : j \in 0..n /\ j # n /\ g[j] = f[j]
        BY <3>1
      <4>3. CASE i = n
        <5>1. g[i] = SetLoaded(f[n - 1], found[n]) /\ i # 0 /\ n - 1 \in 0..(n - 1)
          BY <2>4, <3>1, <4>3
        <5>2. g[n - 1] = f[n - 1]
          BY <4>2, <5>1
        <5>3. QED
          BY <4>3, <5>1, <5>2
      <4>4. CASE i # n
        <5>1. i \in 0..(n - 1) /\ (i # 0 => i - 1 \in 0..(n - 1))
          BY <2>2, <4>4
        <5>2. g[i] = f[i] /\ (i # 0 => g[i - 1] = f[i - 1])
          BY <4>2, <5>1
        <5>3. QED
          BY <4>1, <5>1, <5>2
      <4>5. QED
        BY <4>3, <4>4
    <3>4. g = h
      <4> HIDE DEF g
      <4>1. DOMAIN g = 0..n /\ g = [i \in 0..n |-> g[i]]
        BY DEF g
      <4>2. QED
        BY <3>3, <4>1
    <3>5. Steps(g, plugins, found, n)
      BY <3>4 DEF Steps
    <3>6. QED
      BY <2>1, <3>5
  <2>5. QED
    BY <2>3, <2>4
<1>3. QED
  BY <1>1, <1>2

LEMMA StepsKeep ==
  ASSUME NEW plugins \in Seq(LoadedPlugins), NEW found, FoundOK(found),
         NEW f, Steps(f, plugins, found, Len(found))
  PROVE  \A n \in 0..Len(found) : f[n] \in Seq(LoadedPlugins) /\ Kept(f[n], found, n)
<1> DEFINE Wrong == {n \in 0..Len(found) : ~(f[n] \in Seq(LoadedPlugins) /\ Kept(f[n], found, n))}
<1>1. CASE Wrong = {}
  BY <1>1
<1>2. CASE Wrong # {}
  <2>1. Len(found) \in Nat /\ Wrong \subseteq Nat
    BY DEF FoundOK
  <2>2. PICK n \in Wrong : \A y \in Wrong : ~(<<y, n>> \in OpToRel(<, Nat))
    BY <1>2, <2>1, WFMin, NatLessThanWellFounded
  <2>3. n \in 0..Len(found) /\ \A y \in Wrong : ~(y < n)
    BY <2>1, <2>2 DEF OpToRel
  <2>4. \A i \in 0..Len(found) : f[i] = IF i = 0 THEN plugins ELSE SetLoaded(f[i - 1], found[i])
    BY DEF Steps
  <2>5. CASE n = 0
    <3>1. f[n] = plugins /\ 1..n = {}
      BY <2>3, <2>4, <2>5
    <3>2. f[n] \in Seq(LoadedPlugins) /\ Kept(f[n], found, n)
      BY <3>1 DEF Kept
    <3>3. QED
      BY <2>2, <3>2
  <2>6. CASE n # 0
    <3>1. n - 1 \in 0..(Len(found) - 1) /\ n - 1 \in 0..Len(found) /\ n - 1 < n /\ (n - 1) + 1 = n
      BY <2>1, <2>3, <2>6
    <3>2. f[n - 1] \in Seq(LoadedPlugins) /\ Kept(f[n - 1], found, n - 1)
      BY <2>3, <3>1
    <3>3. f[n] = SetLoaded(f[n - 1], found[n])
      BY <2>3, <2>4, <2>6
    <3> DEFINE k == n - 1
    <3>4. k \in 0..(Len(found) - 1) /\ f[k] \in Seq(LoadedPlugins) /\ Kept(f[k], found, k) /\ k + 1 = n
      BY <3>1, <3>2
    <3> HIDE DEF k
    <3>5. /\ SetLoaded(f[k], found[k + 1]) \in Seq(LoadedPlugins)
          /\ Kept(SetLoaded(f[k], found[k + 1]), found, k + 1)
      BY <3>4, SetOne
    <3>6. f[n] \in Seq(LoadedPlugins) /\ Kept(f[n], found, n)
      BY <3>3, <3>4, <3>5 DEF k
    <3>7. QED
      BY <2>2, <3>6
  <2>7. QED
    BY <2>5, <2>6
<1>3. QED
  BY <1>1, <1>2

LEMMA SetAllKeeps ==
  ASSUME NEW plugins \in Seq(LoadedPlugins), NEW found, FoundOK(found)
  PROVE  /\ SetAll(plugins, found) \in Seq(LoadedPlugins)
         /\ Kept(SetAll(plugins, found), found, Len(found))
<1> DEFINE after == CHOOSE f : Steps(f, plugins, found, Len(found))
<1>1. Len(found) \in Nat
  BY DEF FoundOK
<1>2. Steps(after, plugins, found, Len(found))
  BY <1>1, StepsExist
<1>3. SetAll(plugins, found) = after[Len(found)]
  BY DEF SetAll, Steps
<1>4. Len(found) \in 0..Len(found)
  BY <1>1
<1> HIDE DEF after
<1>5. after[Len(found)] \in Seq(LoadedPlugins) /\ Kept(after[Len(found)], found, Len(found))
  BY <1>2, <1>4, StepsKeep
<1>6. QED
  BY <1>3, <1>5

LEMMA LoadKeeps ==
  ASSUME PluginInv, discoverAndLoad
  PROVE  PluginInv'
<1>1. /\ results' = [i \in DOMAIN disk |-> LoadFrom(disk[i])] /\ loaded' = SetAll(loaded, results')
      /\ report' = nothing /\ UNCHANGED <<registry, disk>>
  BY DEF discoverAndLoad
<1>2. FoundOK(results')
  <2>1. CASE disk = << >>
    <3>1. results' = << >>
      BY <1>1, <2>1
    <3>2. QED
      BY <3>1 DEF FoundOK
  <2>2. CASE disk \in Disks
    <3>1. Len(disk) \in Nat /\ DOMAIN disk = 1..Len(disk)
      BY <2>2, PluginAssumption
    <3>2. \A i \in 1..Len(disk) : LoadFrom(disk[i]) \in LoadedPlugins \cup {Rejected}
      BY <2>2, <3>1, LoadsPlugin
    <3>3. QED
      BY <1>1, <3>1, <3>2 DEF FoundOK
  <2>3. QED
    BY <2>1, <2>2 DEF PluginInv
<1> DEFINE found == results'
<1> HIDE DEF found
<1>3. loaded \in Seq(LoadedPlugins) /\ FoundOK(found)
  BY <1>2 DEF PluginInv, found
<1>4. SetAll(loaded, found) \in Seq(LoadedPlugins) /\ Kept(SetAll(loaded, found), found, Len(found))
  BY <1>3, SetAllKeeps
<1>5. loaded' \in Seq(LoadedPlugins) /\ Kept(loaded', results', Len(results'))
  BY <1>1, <1>4 DEF found
<1>6. QED
  BY <1>1, <1>2, <1>5 DEF PluginInv

\* What was registered stays, so a report stays true.
LEMMA StillReported ==
  ASSUME NEW found, FoundOK(found), NEW rejected, NEW before, NEW after,
         Reported(found, Len(found), before, rejected),
         \A t \in ToolNames : before[t] # nothing => after[t] = before[t]
  PROVE  Reported(found, Len(found), after, rejected)
<1> SUFFICES ASSUME NEW i \in 1..Len(found), found[i].valid, NotReplaced(found, Len(found), i),
                    NEW d \in found[i].tools
             PROVE  after[d.name] = HandlerOf(found[i], d) \/ d.name \in rejected
  BY DEF Reported
<1>1. found[i] \in LoadedPlugins
  <2>1. found[i] \in LoadedPlugins \cup {Rejected}
    BY DEF FoundOK
  <2>2. QED
    BY <2>1 DEF Rejected
<1>2. d.name \in ToolNames /\ HandlerOf(found[i], d) # nothing
  BY <1>1, PluginFacts
<1>3. before[d.name] = HandlerOf(found[i], d) \/ d.name \in rejected
  BY DEF Reported
<1>4. QED
  BY <1>2, <1>3

\* Of plugins that offer a name, the first gets it.
LEMMA InjectKeeps ==
  ASSUME PluginInv, injectIntoRegistry
  PROVE  PluginInv'
<1> DEFINE chosen == {i \in DOMAIN loaded : loaded[i].valid}
           Offering(t) == {i \in chosen : Offers(loaded[i], t)}
           New == {t \in ToolNames : ~Registered(t) /\ Offering(t) # {}}
           First(t) == CHOOSE i \in Offering(t) : \A j \in Offering(t) : i <= j
           Losers == {t \in ToolNames : \E i \in Offering(t) : t \notin New \/ i # First(t)}
                       \cup {loaded[i].manifest.name : i \in DOMAIN loaded \ chosen}
<1>1. /\ registry' = [t \in ToolNames |-> IF t \in New THEN OfferOf(loaded[First(t)], t) ELSE registry[t]]
      /\ report' = [injected |-> New, rejected |-> Losers]
      /\ UNCHANGED <<disk, results, loaded>>
  BY DEF injectIntoRegistry, InjectFrom
<1>2. loaded \in Seq(LoadedPlugins) /\ FoundOK(results) /\ Kept(loaded, results, Len(results))
  BY DEF PluginInv
<1>3. \A i \in DOMAIN loaded : loaded[i] \in LoadedPlugins
  BY <1>2
<1>4. ASSUME NEW t \in New
      PROVE  First(t) \in Offering(t)
  <2>1. Offering(t) \subseteq Nat /\ Offering(t) # {}
    BY <1>2
  <2> HIDE DEF Offering
  <2>2. PICK i \in Offering(t) : \A y \in Offering(t) : ~(<<y, i>> \in OpToRel(<, Nat))
    BY <2>1, WFMin, NatLessThanWellFounded
  <2>3. ASSUME NEW j \in Offering(t)
        PROVE  i <= j
    <3>1. i \in Nat /\ j \in Nat /\ ~(j < i)
      BY <2>1, <2>2 DEF OpToRel
    <3>2. QED
      BY <3>1
  <2>4. QED
    BY <2>3
<1> HIDE DEF First
<1>5. ASSUME NEW i \in chosen, NEW d \in loaded[i].tools
      PROVE  /\ d.name \in ToolNames /\ i \in Offering(d.name)
             /\ OfferOf(loaded[i], d.name) = HandlerOf(loaded[i], d)
  <2>1. /\ d.name \in ToolNames
        /\ \A e \in loaded[i].tools : e.name = d.name => e = d
    BY <1>3, PluginFacts
  <2>2. (CHOOSE e \in loaded[i].tools : e.name = d.name) = d
    BY <2>1
  <2>3. QED
    BY <2>1, <2>2 DEF Offers, OfferOf
<1>6. ASSUME NEW t \in ToolNames
      PROVE  EntryOK(t, registry'[t])
  <2>1. CASE t \notin New
    <3>1. registry'[t] = registry[t]
      BY <1>1, <2>1
    <3>2. QED
      BY <3>1 DEF PluginInv
  <2>2. CASE t \in New
    <3>1. /\ First(t) \in chosen /\ loaded[First(t)] \in LoadedPlugins /\ loaded[First(t)].valid
          /\ Offers(loaded[First(t)], t)
      BY <1>3, <1>4, <2>2
    <3>2. PICK d \in loaded[First(t)].tools : d.name = t
      BY <3>1 DEF Offers
    <3>3. OfferOf(loaded[First(t)], t) = HandlerOf(loaded[First(t)], d)
      BY <1>5, <3>1, <3>2
    <3>4. registry'[t] = HandlerOf(loaded[First(t)], d)
      BY <1>1, <2>2, <3>3
    <3>5. QED
      BY <3>1, <3>2, <3>4 DEF EntryOK
  <2>3. QED
    BY <2>1, <2>2
<1>7. ASSUME NEW i \in 1..Len(results), results[i].valid, NotReplaced(results, Len(results), i),
             NEW d \in results[i].tools
      PROVE  registry'[d.name] = HandlerOf(results[i], d) \/ d.name \in Losers
  <2>1. results[i] \in LoadedPlugins /\ results[i].stored
    <3>1. results[i] \in LoadedPlugins \cup {Rejected}
      BY <1>2 DEF FoundOK
    <3>2. results[i] \in LoadedPlugins
      BY <1>7, <3>1 DEF Rejected
    <3>3. QED
      BY <3>2, PluginFacts
  <2>2. PICK k \in DOMAIN loaded : loaded[k] = results[i]
    BY <1>2, <1>7, <2>1 DEF Kept
  <2>3. k \in chosen /\ d \in loaded[k].tools
    BY <1>7, <2>2
  <2>4. /\ d.name \in ToolNames /\ k \in Offering(d.name)
        /\ OfferOf(loaded[k], d.name) = HandlerOf(loaded[k], d)
    BY <1>5, <2>3
  <2>5. CASE d.name \notin New \/ k # First(d.name)
    BY <2>4, <2>5
  <2>6. CASE d.name \in New /\ k = First(d.name)
    BY <1>1, <2>2, <2>4, <2>6
  <2>7. QED
    BY <2>5, <2>6
<1>8. Reported(results', Len(results'), registry', report'.rejected)
  <2>1. report'.rejected = Losers
    BY <1>1
  <2>2. QED
    BY <1>1, <1>7, <2>1 DEF Reported
<1>9. registry' = [t \in ToolNames |-> registry'[t]]
  BY <1>1
<1> HIDE DEF New, Losers
<1>10. QED
  BY <1>1, <1>6, <1>8, <1>9 DEF PluginInv

LEMMA HostRegistersKeeps ==
  ASSUME PluginInv, HostRegisters
  PROVE  PluginInv'
<1>1. UNCHANGED <<disk, results, loaded, report>>
  BY DEF HostRegisters
<1>2. /\ registry' = [t \in ToolNames |-> registry'[t]]
      /\ \A t \in ToolNames : registry[t] # nothing => registry'[t] = registry[t]
      /\ \A t \in ToolNames : registry'[t] = registry[t] \/ registry'[t].from = nothing
  <2>1. CASE bootstrapCoreTools
    BY <2>1, RegistryAssumption DEF bootstrapCoreTools, Registered, ByHost
  <2>2. ASSUME NEW u \in ToolNames, register(u, ByHost("promise"))
        PROVE  /\ registry' = [t \in ToolNames |-> registry'[t]]
               /\ \A t \in ToolNames : registry[t] # nothing => registry'[t] = registry[t]
               /\ \A t \in ToolNames : registry'[t] = registry[t] \/ registry'[t].from = nothing
    <3>1. /\ registry = [t \in ToolNames |-> registry[t]] /\ registry[u] = nothing
          /\ registry' = [registry EXCEPT ![u] = ByHost("promise")]
      BY <2>2 DEF register, Registered, PluginInv
    <3>2. QED
      BY <3>1 DEF ByHost
  <2>3. QED
    BY <2>1, <2>2 DEF HostRegisters
<1>3. \A t \in ToolNames : EntryOK(t, registry'[t])
  BY <1>2 DEF PluginInv, EntryOK
<1>4. report # nothing => Reported(results, Len(results), registry', report.rejected)
  BY <1>2, StillReported DEF PluginInv
<1>5. QED
  BY <1>1, <1>2, <1>3, <1>4 DEF PluginInv

LEMMA PluginsKeep ==
  ASSUME PluginInv, [HostNext]_hostVars
  PROVE  PluginInv'
<1>1. CASE UNCHANGED pluginVars
  BY <1>1 DEF pluginVars, PluginInv, Registered
<1>2. CASE Install
  BY <1>2 DEF Install, PluginInv
<1>3. QED
  BY <1>1, <1>2, LoadKeeps, InjectKeeps, HostRegistersKeeps
     DEF HostNext, hostVars, PluginsNext, pluginVars

LEMMA PluginInvHolds == HostSpec => []PluginInv
<1>1. HostInit => PluginInv
  <2> SUFFICES ASSUME HostInit PROVE PluginInv
    OBVIOUS
  <2>1. /\ registry = [t \in ToolNames |-> nothing] /\ disk = << >> /\ results = << >>
        /\ loaded = << >> /\ report = nothing
    BY DEF HostInit, PluginsInit, RegistryInit
  <2>2. 1..Len(<< >>) = {} /\ << >> \in Seq(LoadedPlugins) /\ << >> \in Seq(LoadedPlugins \cup {Rejected})
    OBVIOUS
  <2>3. QED
    BY <2>1, <2>2 DEF PluginInv, EntryOK, FoundOK, Kept
<1>2. PluginInv /\ [HostNext]_hostVars => PluginInv'
  BY PluginsKeep
<1>3. QED
  BY <1>1, <1>2, PTL DEF HostSpec, hostVars

\* PluginLoader: what is in the registry is the host's or from a plugin that was
\* valid as a whole, and what was reported as valid is registered or reported as
\* rejected, whatever directories are replaced, found and injected again.
THEOREM RegistryTrusted == HostSpec => []RegistryIsTrusted
<1>1. PluginInv => RegistryIsTrusted
  <2> SUFFICES ASSUME PluginInv PROVE RegistryIsTrusted
    OBVIOUS
  <2>1. ASSUME NEW t \in ToolNames, Registered(t), registry[t].from # nothing
        PROVE  LET m == registry[t].from.manifest
               IN /\ m.faults = {} /\ namespaceOf[t] = m.name
                  /\ \A i \in DOMAIN m.tools :
                       Loads(m.tools[i]) /\ namespaceOf[m.tools[i].name] = m.name
    <3>1. PICK p \in LoadedPlugins : \E d \in p.tools :
            p.valid /\ d.name = t /\ registry[t] = HandlerOf(p, d)
      BY <2>1 DEF PluginInv, EntryOK, Registered
    <3>2. PICK d \in p.tools : p.valid /\ d.name = t /\ registry[t] = HandlerOf(p, d)
      BY <3>1
    <3>3. registry[t].from = p
      BY <3>2 DEF HandlerOf
    <3>4. /\ p.manifest.faults = {} /\ ~Foreign(p.manifest)
          /\ p.tools \subseteq ToSet(p.manifest.tools)
          /\ \A i \in DOMAIN p.manifest.tools : Loads(p.manifest.tools[i])
      BY <3>2, PluginFacts
    <3>5. \A i \in DOMAIN p.manifest.tools : namespaceOf[p.manifest.tools[i].name] = p.manifest.name
      BY <3>4 DEF Foreign
    <3>6. namespaceOf[t] = p.manifest.name
      BY <3>2, <3>4, <3>5 DEF ToSet
    <3>7. QED
      BY <3>3, <3>4, <3>5, <3>6
  <2>2. ASSUME report # nothing, NEW i \in DOMAIN results, results[i].valid,
               \A j \in (i + 1)..Len(results) :
                 results[j].stored => results[j].manifest.name # results[i].manifest.name,
               NEW d \in results[i].tools
        PROVE  registry[d.name] = HandlerOf(results[i], d) \/ d.name \in report.rejected
    <3>1. DOMAIN results = 1..Len(results)
      BY DEF PluginInv, FoundOK
    <3>2. QED
      BY <2>2, <3>1 DEF PluginInv, Reported, NotReplaced
  <2>3. QED
    BY <2>1, <2>2 DEF RegistryIsTrusted
<1>2. QED
  BY PluginInvHolds, <1>1, PTL
=============================================================================
