------------------------ MODULE FailureHandlerProofs ------------------------
(***************************************************************************)
(* Proofs about Delegation, for every set of agents, grants and requests,  *)
(* and about FailureHandler, which works on that tree, for every retry     *)
(* budget and wiring of the lifecycle.                                     *)
(*                                                                         *)
(* The invariant of the tree keeps, besides the forest itself, that only   *)
(* ids handed out by delegate are ever listed as children (so initialising *)
(* a root again never replaces somebody's child), that logged revocations  *)
(* did happen, and where a cascade that was cut shows: at the node it left *)
(* shallow or at a node below a root.                                      *)
(*                                                                         *)
(* The handler is well typed, uses the tree as its protocol allows,        *)
(* retries within its budget, and agrees with its log about what a kernel  *)
(* panic means.                                                            *)
(***************************************************************************)
EXTENDS FailureHandler, FiniteSetTheorems, SequenceTheorems, TLAPS

-----------------------------------------------------------------------------
(* The tree.                                                               *)

ListedAreChildren == \A p, c \in Ids : Lists(p, c) => c \in Children

LoggedAreRevoked == \A a \in revokedLog : Revoked(a)

\* x is revoked and the log does not know.
Unlogged(x) == Revoked(x) /\ x \notin revokedLog

ShallowShows ==
  \A p, c \in Ids : Lists(p, c) /\ Revoked(p) /\ ~Revoked(c) =>
    \E x \in Ids : Unlogged(x) /\ (x = p \/ x \in Children)

IInv ==
  /\ DelegationTypeOK
  /\ TreeIsForest
  /\ ListedAreChildren
  /\ AuthorityShrinks
  /\ LoggedAreRevoked
  /\ ShallowShows

-----------------------------------------------------------------------------
\* What each action does to nodes and lists.

LEMMA InitRootEffect ==
  ASSUME DelegationTypeOK, NEW a \in Roots, NEW g \in RootGrants, InitRoot(a, g)
  PROVE  /\ \A b \in Ids \ {a} : nodes'[b] = nodes[b]
         /\ nodes'[a] = [parent |-> null, children |-> << >>, grants |-> g,
                         maxDepth |-> RootDepth, ttl |-> Forever, revoked |-> FALSE]
         /\ Exists(a)' /\ ~Revoked(a)'
         /\ \A c \in Ids : ~Lists(a, c)'
         /\ \A p \in Ids \ {a}, c \in Ids : Lists(p, c)' <=> Lists(p, c)
         /\ DelegationTypeOK'
  <1> DEFINE n == [parent |-> null, children |-> << >>, grants |-> g,
                   maxDepth |-> RootDepth, ttl |-> Forever, revoked |-> FALSE]
  <1>1. n \in Node
    BY DelegationAssumption DEF Node
  <1>2. nodes' = [nodes EXCEPT ![a] = n] /\ a \in Ids
    BY DEF InitRoot, Ids
  <1>3. nodes'[a] = n /\ \A b \in Ids \ {a} : nodes'[b] = nodes[b]
    BY <1>2 DEF DelegationTypeOK
  <1>4. Exists(a)' /\ ~Revoked(a)' /\ \A c \in Ids : ~Lists(a, c)'
    <2>1. Exists(a)'
      BY <1>1, <1>3, NullIsNoNode DEF Exists
    <2>2. nodes'[a].revoked = FALSE /\ nodes'[a].children = << >>
      BY <1>3
    <2>3. ~Revoked(a)'
      BY <2>2 DEF Revoked
    <2>4. \A c \in Ids : ~Lists(a, c)'
      BY <2>2 DEF Lists
    <2> QED BY <2>1, <2>3, <2>4
  <1>5. \A p \in Ids \ {a}, c \in Ids : Lists(p, c)' <=> Lists(p, c)
    BY <1>3 DEF Lists, Exists
  <1>6. DelegationTypeOK'
    BY <1>1, <1>2 DEF DelegationTypeOK, InitRoot
  <1> QED BY <1>3, <1>4, <1>5, <1>6

LEMMA DelegateEffect ==
  ASSUME DelegationTypeOK,
         NEW p \in Ids, NEW c \in Children, NEW g \in RequestGrants,
         NEW d \in RequestDepths, NEW t \in RequestTtls, Delegate(p, c, g, d, t)
  PROVE  /\ p # c /\ Exists(p) /\ ~Exists(c) /\ ~Revoked(p)
         /\ nodes'[c] = [parent |-> p, children |-> << >>, grants |-> g,
                         maxDepth |-> d, ttl |-> t, revoked |-> FALSE]
         /\ nodes'[p] = [nodes[p] EXCEPT !.children = Append(@, c)]
         /\ \A b \in Ids \ {p, c} : nodes'[b] = nodes[b]
         /\ \A b \in Ids : Exists(b)' <=> (Exists(b) \/ b = c)
         /\ \A b \in Ids : Revoked(b)' <=> Revoked(b)
         /\ \A b \in Ids : Exists(b) =>
              /\ nodes'[b].parent = nodes[b].parent
              /\ nodes'[b].grants = nodes[b].grants
              /\ nodes'[b].maxDepth = nodes[b].maxDepth
              /\ nodes'[b].ttl = nodes[b].ttl
         /\ \A q, e \in Ids : Lists(q, e)' <=> (Lists(q, e) \/ (q = p /\ e = c))
         /\ DelegationTypeOK'
  <1> DEFINE n == [parent |-> p, children |-> << >>, grants |-> g,
                   maxDepth |-> d, ttl |-> t, revoked |-> FALSE]
             m == [nodes[p] EXCEPT !.children = Append(@, c)]
  <1>1. c \in Ids /\ p # c /\ Exists(p) /\ ~Exists(c) /\ ~Revoked(p)
    BY DEF Delegate, MayDelegate, Exists, Revoked, Ids
  <1>2. nodes[p] \in Node
    BY <1>1 DEF DelegationTypeOK, Exists
  <1>3. n \in Node
    BY DelegationAssumption DEF Node
  <1>4. m \in Node
    <2>1. nodes[p].children \in Seq(Ids)
      BY <1>2 DEF Node
    <2>2. Append(nodes[p].children, c) \in Seq(Ids)
      BY <1>1, <2>1
    <2> QED BY <1>2, <2>2 DEF Node
  <1>5. nodes' = [nodes EXCEPT ![p] = m, ![c] = n]
    BY DEF Delegate
  <1>6. nodes'[c] = n /\ nodes'[p] = m /\ \A b \in Ids \ {p, c} : nodes'[b] = nodes[b]
    BY <1>1, <1>5 DEF DelegationTypeOK
  <1>7. DelegationTypeOK'
    BY <1>3, <1>4, <1>5 DEF DelegationTypeOK, Delegate
  <1>8. \A b \in Ids : Exists(b)' <=> (Exists(b) \/ b = c)
    BY <1>1, <1>3, <1>4, <1>6, NullIsNoNode DEF Exists
  <1>9. /\ m.parent = nodes[p].parent /\ m.grants = nodes[p].grants
        /\ m.maxDepth = nodes[p].maxDepth /\ m.ttl = nodes[p].ttl
        /\ m.revoked = nodes[p].revoked /\ m.children = Append(nodes[p].children, c)
    BY <1>2 DEF Node
  <1>10. \A b \in Ids : Revoked(b)' <=> Revoked(b)
    <2>1. ~Revoked(c) /\ ~Revoked(c)'
      BY <1>1, <1>6 DEF Revoked
    <2>2. Revoked(p)' <=> Revoked(p)
      BY <1>1, <1>6, <1>8, <1>9 DEF Revoked
    <2>3. \A b \in Ids \ {p, c} : Revoked(b)' <=> Revoked(b)
      BY <1>6 DEF Revoked, Exists
    <2> QED BY <2>1, <2>2, <2>3
  <1>11. \A b \in Ids : Exists(b) =>
           /\ nodes'[b].parent = nodes[b].parent /\ nodes'[b].grants = nodes[b].grants
           /\ nodes'[b].maxDepth = nodes[b].maxDepth /\ nodes'[b].ttl = nodes[b].ttl
    BY <1>1, <1>6, <1>9
  <1>12. ASSUME NEW q \in Ids, NEW e \in Ids
         PROVE  Lists(q, e)' <=> (Lists(q, e) \/ (q = p /\ e = c))
    <2>1. CASE q = c
      BY <1>1, <1>6, <2>1 DEF Lists, Exists
    <2>2. CASE q = p
      <3> DEFINE s == nodes[p].children
      <3>1. s \in Seq(Ids) /\ nodes'[p].children = Append(s, c)
        BY <1>2, <1>6, <1>9 DEF Node
      <3> HIDE DEF s
      <3>2. DOMAIN Append(s, c) = DOMAIN s \cup {Len(s) + 1}
        BY <3>1
      <3>3. \A i \in DOMAIN s : Append(s, c)[i] = s[i]
        BY <3>1
      <3>4. Append(s, c)[Len(s) + 1] = c
        BY <3>1
      <3>5. (\E i \in DOMAIN Append(s, c) : Append(s, c)[i] = e)
              <=> ((\E i \in DOMAIN s : s[i] = e) \/ e = c)
        BY <3>2, <3>3, <3>4
      <3> QED BY <1>1, <1>8, <2>2, <3>1, <3>5 DEF Lists, s
    <2>3. CASE q \notin {p, c}
      BY <1>6, <2>3 DEF Lists, Exists
    <2> QED BY <2>1, <2>2, <2>3
  <1> QED BY <1>1, <1>6, <1>7, <1>8, <1>10, <1>11, <1>12

LEMMA MarkEffect ==
  ASSUME DelegationTypeOK, NEW S \in SUBSET Ids, \A m \in S : Exists(m), Mark(S)
  PROVE  /\ nodes' \in [Ids -> Node \cup {null}]
         /\ \A b \in Ids : Exists(b)' <=> Exists(b)
         /\ \A b \in Ids : Revoked(b)' <=> (Revoked(b) \/ b \in S)
         /\ \A b \in Ids : Exists(b) =>
              /\ nodes'[b].parent = nodes[b].parent
              /\ nodes'[b].grants = nodes[b].grants
              /\ nodes'[b].maxDepth = nodes[b].maxDepth
              /\ nodes'[b].ttl = nodes[b].ttl
         /\ \A p, c \in Ids : Lists(p, c)' <=> Lists(p, c)
  <1>1. ASSUME NEW b \in Ids
        PROVE  nodes'[b] = IF b \in S THEN [nodes[b] EXCEPT !.revoked = TRUE] ELSE nodes[b]
    BY DEF Mark
  <1>2. ASSUME NEW b \in S
        PROVE  /\ nodes[b] \in Node /\ nodes'[b] \in Node
               /\ nodes'[b].revoked = TRUE
               /\ nodes'[b].children = nodes[b].children
               /\ nodes'[b].parent = nodes[b].parent
               /\ nodes'[b].grants = nodes[b].grants
               /\ nodes'[b].maxDepth = nodes[b].maxDepth
               /\ nodes'[b].ttl = nodes[b].ttl
    <2>1. nodes[b] \in Node
      BY DEF DelegationTypeOK, Exists
    <2>2. nodes'[b] = [nodes[b] EXCEPT !.revoked = TRUE]
      BY <1>1
    <2> QED BY <2>1, <2>2 DEF Node
  <1>3. \A b \in Ids \ S : nodes'[b] = nodes[b]
    BY <1>1
  <1>4. nodes' \in [Ids -> Node \cup {null}]
    BY <1>2, <1>3 DEF Mark, DelegationTypeOK
  <1>5. \A b \in Ids : Exists(b)' <=> Exists(b)
    BY <1>2, <1>3, NullIsNoNode DEF Exists
  <1>6. \A b \in Ids : Revoked(b)' <=> (Revoked(b) \/ b \in S)
    BY <1>2, <1>3, <1>5 DEF Revoked, Exists
  <1>7. \A p, c \in Ids : Lists(p, c)' <=> Lists(p, c)
    BY <1>2, <1>3, <1>5 DEF Lists
  <1>8. \A b \in Ids : Exists(b) =>
          /\ nodes'[b].parent = nodes[b].parent /\ nodes'[b].grants = nodes[b].grants
          /\ nodes'[b].maxDepth = nodes[b].maxDepth /\ nodes'[b].ttl = nodes[b].ttl
    BY <1>2, <1>3
  <1> QED BY <1>4, <1>5, <1>6, <1>7, <1>8

-----------------------------------------------------------------------------
\* Grants and cascades.

LEMMA SubsetAllows ==
  ASSUME NEW g \in SUBSET Grant, NEW G \in SUBSET Grant, DelegationTypeOK, isSubset(g, G),
         NEW t \in 1..MaxTime, NEW action \in Actions, NEW resource \in Resources,
         Allows(g, action, resource, t)
  PROVE  Allows(G, action, resource, t)
  <1>1. PICK sub \in g : /\ sub.action \in {"*", action}
                         /\ sub.resource \in {"*", resource}
                         /\ sub.notAfter = 0 \/ sub.notAfter > t
    BY DEF Allows
  <1>2. PICK sup \in G : Covers(sup, sub)
    BY <1>1 DEF isSubset
  <1>3. sub \in Grant /\ sup \in Grant
    OBVIOUS
  <1>4. sup.action \in {"*", action} /\ sup.resource \in {"*", resource}
    BY <1>1, <1>2 DEF Covers
  <1>5. sup.notAfter = 0 \/ sup.notAfter > t
    BY <1>1, <1>2, <1>3 DEF Covers, Grant
  <1> QED BY <1>4, <1>5 DEF Allows

\* A cascade holds its start and, that aside, only children.
LEMMA CascadeStart ==
  ASSUME DelegationTypeOK, ListedAreChildren, NEW a \in Ids
  PROVE  /\ Cascade(a) \subseteq Ids
         /\ a \in Cascade(a)
         /\ \A m \in Cascade(a) : m = a \/ m \in Children
  <1>1. Cascade(a) \subseteq Ids /\ a \in Cascade(a)
    BY DEF Cascade, Cascades
  <1>2. Cascades({a} \cup Children, a)
    <2> DEFINE S == {a} \cup Children
    <2> SUFFICES ASSUME NEW m \in S \cap Ids, Exists(m),
                        NEW i \in DOMAIN nodes[m].children
                 PROVE  nodes[m].children[i] \in S
      BY DEF Cascades
    <2>1. nodes[m] \in Node
      BY DEF DelegationTypeOK, Exists
    <2>2. nodes[m].children[i] \in Ids
      BY <2>1 DEF Node
    <2>3. Lists(m, nodes[m].children[i])
      BY DEF Lists
    <2> QED BY <2>2, <2>3 DEF ListedAreChildren
  <1>3. {a} \cup Children \in SUBSET Ids
    BY DEF Ids
  <1>4. \A m \in Cascade(a) : m \in {a} \cup Children
    BY <1>2, <1>3 DEF Cascade
  <1> QED BY <1>1, <1>4

\* The cascade of a node that is not revoked holds no revoked node, and with a
\* node all its children that are not revoked.
LEMMA CascadeSpreads ==
  ASSUME DelegationTypeOK, NEW a \in Ids, CanRevoke(a)
  PROVE  /\ \A m \in Cascade(a) : m \in Ids /\ Exists(m) /\ ~Revoked(m)
         /\ \A p \in Cascade(a), c \in Ids :
              Lists(p, c) /\ Exists(c) /\ ~Revoked(c) => c \in Cascade(a)
  <1> DEFINE S == {m \in Ids : Exists(m) /\ ~nodes[m].revoked}
  <1>1. Cascades(S, a)
    <2> SUFFICES ASSUME NEW m \in S, NEW i \in DOMAIN nodes[m].children,
                        Exists(nodes[m].children[i]),
                        ~nodes[nodes[m].children[i]].revoked
                 PROVE  nodes[m].children[i] \in S
      BY DEF Cascades, CanRevoke
    <2>1. nodes[m] \in Node
      BY DEF DelegationTypeOK, Exists
    <2>2. nodes[m].children[i] \in Ids
      BY <2>1 DEF Node
    <2> QED BY <2>2
  <1>2. \A m \in Cascade(a) : m \in S
    BY <1>1 DEF Cascade
  <1>3. ASSUME NEW p \in Cascade(a), NEW c \in Ids, Lists(p, c), Exists(c), ~Revoked(c)
        PROVE  c \in Cascade(a)
    <2> SUFFICES ASSUME NEW T \in SUBSET Ids, Cascades(T, a)
                 PROVE  c \in T
      BY DEF Cascade
    <2>1. p \in T /\ p \in Ids
      BY DEF Cascade
    <2>2. PICK i \in DOMAIN nodes[p].children : nodes[p].children[i] = c
      BY <1>3 DEF Lists
    <2> QED BY <1>3, <2>1, <2>2 DEF Cascades, Lists, Revoked
  <1> QED BY <1>2, <1>3 DEF Revoked
-----------------------------------------------------------------------------
\* Every action keeps the invariant.

LEMMA InitRootKeeps ==
  ASSUME IInv, NEW a \in Roots, NEW g \in RootGrants, InitRoot(a, g)
  PROVE  IInv'
  <1>1. DelegationTypeOK /\ a \in Ids
    BY DEF IInv, Ids
  <1>2. /\ \A b \in Ids \ {a} : nodes'[b] = nodes[b]
        /\ ~Revoked(a)' /\ \A c \in Ids : ~Lists(a, c)'
        /\ \A p \in Ids \ {a}, c \in Ids : Lists(p, c)' <=> Lists(p, c)
        /\ DelegationTypeOK'
    BY <1>1, InitRootEffect
  <1>3. ASSUME NEW p \in Ids, NEW c \in Ids, Lists(p, c)'
        PROVE  /\ p # a /\ c # a /\ c \in Children /\ Lists(p, c)
               /\ nodes'[p] = nodes[p] /\ nodes'[c] = nodes[c]
    <2>1. p # a /\ Lists(p, c)
      BY <1>2, <1>3
    <2>2. c \in Children /\ c # a
      BY <2>1, DelegationAssumption DEF IInv, ListedAreChildren
    <2> QED BY <1>2, <2>1, <2>2
  <1>4. \A b \in Ids \ {a} : Revoked(b)' <=> Revoked(b)
    BY <1>2 DEF Revoked, Exists
  <1>5. TreeIsForest'
    BY <1>3 DEF IInv, TreeIsForest, Exists
  <1>6. ListedAreChildren'
    BY <1>3 DEF ListedAreChildren
  <1>7. AuthorityShrinks'
    BY <1>3 DEF IInv, AuthorityShrinks
  <1>8. LoggedAreRevoked'
    BY <1>1, <1>4 DEF IInv, LoggedAreRevoked, InitRoot, DelegationTypeOK
  <1>9. ShallowShows'
    <2> SUFFICES ASSUME NEW p \in Ids, NEW c \in Ids, Lists(p, c)', Revoked(p)', ~Revoked(c)'
                 PROVE  \E x \in Ids : Unlogged(x)' /\ (x = p \/ x \in Children)
      BY DEF ShallowShows
    <2>1. PICK x \in Ids : Unlogged(x) /\ (x = p \/ x \in Children)
      BY <1>3, <1>4 DEF IInv, ShallowShows
    <2>2. x # a
      BY <1>3, <2>1, DelegationAssumption
    <2>3. Unlogged(x)'
      BY <1>4, <2>1, <2>2 DEF Unlogged, InitRoot
    <2> QED BY <2>1, <2>3
  <1> QED BY <1>2, <1>5, <1>6, <1>7, <1>8, <1>9 DEF IInv

LEMMA DelegateKeeps ==
  ASSUME IInv, NEW p \in Ids, NEW c \in Children, NEW g \in RequestGrants,
         NEW d \in RequestDepths, NEW t \in RequestTtls, Delegate(p, c, g, d, t)
  PROVE  IInv'
  <1>1. DelegationTypeOK /\ c \in Ids
    BY DEF IInv, Ids
  <1>2. /\ p # c /\ Exists(p) /\ ~Exists(c) /\ ~Revoked(p)
        /\ nodes'[c] = [parent |-> p, children |-> << >>, grants |-> g,
                         maxDepth |-> d, ttl |-> t, revoked |-> FALSE]
        /\ \A b \in Ids : Exists(b)' <=> (Exists(b) \/ b = c)
        /\ \A b \in Ids : Revoked(b)' <=> Revoked(b)
        /\ \A b \in Ids : Exists(b) =>
             /\ nodes'[b].parent = nodes[b].parent /\ nodes'[b].grants = nodes[b].grants
             /\ nodes'[b].maxDepth = nodes[b].maxDepth /\ nodes'[b].ttl = nodes[b].ttl
        /\ \A q, e \in Ids : Lists(q, e)' <=> (Lists(q, e) \/ (q = p /\ e = c))
        /\ DelegationTypeOK'
    BY <1>1, DelegateEffect
  <1>3. \A q, e \in Ids : Lists(q, e) => Exists(q) /\ Exists(e)
    BY DEF IInv, TreeIsForest, Lists
  <1>4. TreeIsForest'
    <2>1. d < nodes[p].maxDepth /\ t <= nodes[p].ttl
      BY DEF Delegate, MayDelegate
    <2>2. /\ nodes'[c].parent = p /\ nodes'[c].maxDepth < nodes'[p].maxDepth
          /\ nodes'[c].ttl <= nodes'[p].ttl
      BY <1>2, <2>1
    <2>3. ASSUME NEW q \in Ids, NEW e \in Ids, Lists(q, e)
          PROVE  /\ Exists(e)' /\ nodes'[e].parent = q
                 /\ nodes'[e].maxDepth < nodes'[q].maxDepth
                 /\ nodes'[e].ttl <= nodes'[q].ttl
      BY <1>2, <1>3, <2>3 DEF IInv, TreeIsForest
    <2> QED BY <1>2, <2>2, <2>3 DEF TreeIsForest
  <1>5. ListedAreChildren'
    BY <1>2 DEF IInv, ListedAreChildren
  <1>6. AuthorityShrinks'
    <2> SUFFICES ASSUME NEW q \in Ids, NEW e \in Ids, Lists(q, e)', NEW u \in 1..MaxTime,
                        NEW action \in Actions, NEW resource \in Resources,
                        Allows(nodes'[e].grants, action, resource, u)
                 PROVE  Allows(nodes'[q].grants, action, resource, u)
      BY DEF AuthorityShrinks
    <2>1. CASE Lists(q, e)
      BY <1>2, <1>3, <2>1 DEF IInv, AuthorityShrinks
    <2>2. CASE q = p /\ e = c
      <3>1. nodes[p] \in Node /\ nodes[p].grants \in SUBSET Grant
        BY <1>1, <1>2 DEF DelegationTypeOK, Exists, Node
      <3>2. g \in SUBSET Grant
        BY DelegationAssumption
      <3>3. isSubset(g, nodes[p].grants)
        BY DEF Delegate, MayDelegate
      <3>4. nodes'[e].grants = g /\ nodes'[q].grants = nodes[p].grants
        BY <1>2, <2>2
      <3> QED BY <1>1, <3>1, <3>2, <3>3, <3>4, SubsetAllows
    <2> QED BY <1>2, <2>1, <2>2
  <1>7. LoggedAreRevoked'
    BY <1>1, <1>2 DEF IInv, LoggedAreRevoked, Delegate, DelegationTypeOK
  <1>8. ShallowShows'
    <2> SUFFICES ASSUME NEW q \in Ids, NEW e \in Ids, Lists(q, e)', Revoked(q)', ~Revoked(e)'
                 PROVE  \E x \in Ids : Unlogged(x)' /\ (x = q \/ x \in Children)
      BY DEF ShallowShows
    <2>1. Lists(q, e)
      BY <1>2
    <2>2. PICK x \in Ids : Unlogged(x) /\ (x = q \/ x \in Children)
      BY <1>2, <2>1 DEF IInv, ShallowShows
    <2>3. Unlogged(x)'
      BY <1>2, <2>2 DEF Unlogged, Delegate
    <2> QED BY <2>2, <2>3
  <1> QED BY <1>2, <1>4, <1>5, <1>6, <1>7, <1>8 DEF IInv

\* Marking nodes and logging some of them leaves all but ShallowShows.
LEMMA MarkKeeps ==
  ASSUME IInv, NEW S \in SUBSET Ids, NEW L \in SUBSET S, \A m \in S : Exists(m),
         Mark(S), revokedLog' = revokedLog \cup L, now' = now
  PROVE  /\ DelegationTypeOK' /\ TreeIsForest' /\ ListedAreChildren'
         /\ AuthorityShrinks' /\ LoggedAreRevoked'
         /\ \A b \in Ids : Revoked(b)' <=> (Revoked(b) \/ b \in S)
         /\ \A p, c \in Ids : Lists(p, c)' <=> Lists(p, c)
  <1>1. DelegationTypeOK
    BY DEF IInv
  <1>2. /\ nodes' \in [Ids -> Node \cup {null}]
        /\ \A b \in Ids : Exists(b)' <=> Exists(b)
        /\ \A b \in Ids : Revoked(b)' <=> (Revoked(b) \/ b \in S)
        /\ \A b \in Ids : Exists(b) =>
             /\ nodes'[b].parent = nodes[b].parent /\ nodes'[b].grants = nodes[b].grants
             /\ nodes'[b].maxDepth = nodes[b].maxDepth /\ nodes'[b].ttl = nodes[b].ttl
        /\ \A p, c \in Ids : Lists(p, c)' <=> Lists(p, c)
    BY <1>1, MarkEffect
  <1>3. \A p, c \in Ids : Lists(p, c) => Exists(p) /\ Exists(c)
    BY DEF IInv, TreeIsForest, Lists
  <1>4. DelegationTypeOK'
    BY <1>1, <1>2 DEF DelegationTypeOK
  <1>5. TreeIsForest'
    BY <1>2, <1>3 DEF IInv, TreeIsForest
  <1>6. ListedAreChildren'
    BY <1>2 DEF IInv, ListedAreChildren
  <1>7. AuthorityShrinks'
    BY <1>2, <1>3 DEF IInv, AuthorityShrinks
  <1>8. LoggedAreRevoked'
    BY <1>1, <1>2 DEF IInv, LoggedAreRevoked, DelegationTypeOK
  <1> QED BY <1>2, <1>4, <1>5, <1>6, <1>7, <1>8

LEMMA RevokeKeeps ==
  ASSUME IInv, NEW a \in Ids, Revoke(a)
  PROVE  IInv'
  <1> DEFINE S == Cascade(a)
  <1>1. DelegationTypeOK /\ CanRevoke(a) /\ ListedAreChildren
    BY DEF IInv, Revoke
  <1>2. S \subseteq Ids
    BY <1>1, CascadeStart
  <1>3. /\ \A m \in S : m \in Ids /\ Exists(m) /\ ~Revoked(m)
        /\ \A p \in S, c \in Ids : Lists(p, c) /\ Exists(c) /\ ~Revoked(c) => c \in S
    BY <1>1, CascadeSpreads
  <1>4. Mark(S) /\ revokedLog' = revokedLog \cup S /\ now' = now
    BY DEF Revoke
  <1> HIDE DEF S
  <1>5. /\ DelegationTypeOK' /\ TreeIsForest' /\ ListedAreChildren'
        /\ AuthorityShrinks' /\ LoggedAreRevoked'
        /\ \A b \in Ids : Revoked(b)' <=> (Revoked(b) \/ b \in S)
        /\ \A p, c \in Ids : Lists(p, c)' <=> Lists(p, c)
    BY <1>2, <1>3, <1>4, MarkKeeps
  <1>6. ShallowShows'
    <2> SUFFICES ASSUME NEW p \in Ids, NEW c \in Ids, Lists(p, c)', Revoked(p)', ~Revoked(c)'
                 PROVE  \E x \in Ids : Unlogged(x)' /\ (x = p \/ x \in Children)
      BY DEF ShallowShows
    <2>1. Lists(p, c) /\ Exists(c) /\ ~Revoked(c) /\ c \notin S
      BY <1>5 DEF IInv, TreeIsForest
    <2>2. Revoked(p)
      BY <1>3, <1>5, <2>1
    <2>3. PICK x \in Ids : Unlogged(x) /\ (x = p \/ x \in Children)
      BY <2>1, <2>2 DEF IInv, ShallowShows
    <2>4. Unlogged(x)'
      BY <1>3, <1>4, <1>5, <2>3 DEF Unlogged
    <2> QED BY <2>3, <2>4
  <1> QED BY <1>5, <1>6 DEF IInv

\* Before its own cascade is cut at its start, a root has marked nothing.
LEMMA CutAtRoot ==
  ASSUME IInv, NEW a \in Roots, CanRevoke(a), NEW m \in Cascade(a), Before(a, m, a)
  PROVE  m = a
  <1>1. DelegationTypeOK /\ ListedAreChildren /\ a \in Ids /\ a \notin Children
    BY DelegationAssumption DEF IInv, Ids
  <1>2. m \in Ids /\ \A p \in Cascade(a) : p \in Ids /\ Exists(p)
    BY <1>1, CascadeSpreads
  <1>3. \A e \in Ids : a \in Cascade(e) => a = e
    BY <1>1, CascadeStart
  <1>4. ASSUME NEW p \in Cascade(a), NEW j \in DOMAIN nodes[p].children
        PROVE  a \notin Cascade(nodes[p].children[j])
    <2>1. p \in Ids /\ nodes[p] \in Node
      BY <1>1, <1>2 DEF DelegationTypeOK, Exists
    <2>2. nodes[p].children[j] \in Ids
      BY <2>1 DEF Node
    <2>3. Lists(p, nodes[p].children[j])
      BY <1>2 DEF Lists
    <2>4. nodes[p].children[j] \in Children
      BY <1>1, <2>1, <2>2, <2>3 DEF ListedAreChildren
    <2> QED BY <1>1, <1>3, <2>2, <2>4
  <1>5. ~\E p \in Cascade(a) : \E i, j \in DOMAIN nodes[p].children :
           a \in Cascade(nodes[p].children[j])
    BY <1>4
  <1>6. a \in Cascade(m)
    BY <1>5 DEF Before
  <1> QED BY <1>2, <1>3, <1>6

LEMMA RevokeCutKeeps ==
  ASSUME IInv, NEW a \in Ids, NEW x \in Ids, RevokeCut(a, x)
  PROVE  IInv'
  <1> DEFINE S == {m \in Cascade(a) : Before(a, m, x)}
  <1>1. DelegationTypeOK /\ CanRevoke(a) /\ ListedAreChildren /\ x \in Cascade(a)
    BY DEF IInv, RevokeCut
  <1>2. S \subseteq Ids /\ x \in S /\ (x = a \/ x \in Children)
    BY <1>1, CascadeStart DEF Before
  <1>3. \A m \in S : Exists(m) /\ ~Revoked(m)
    BY <1>1, CascadeSpreads
  <1>4. Mark(S) /\ revokedLog' = revokedLog \cup (S \ {x}) /\ now' = now
    BY DEF RevokeCut
  <1>5. x = a /\ a \notin Children => S \subseteq {a}
    BY <1>1, CutAtRoot DEF Ids
  <1> HIDE DEF S
  <1>6. /\ DelegationTypeOK' /\ TreeIsForest' /\ ListedAreChildren'
        /\ AuthorityShrinks' /\ LoggedAreRevoked'
        /\ \A b \in Ids : Revoked(b)' <=> (Revoked(b) \/ b \in S)
        /\ \A p, c \in Ids : Lists(p, c)' <=> Lists(p, c)
    BY <1>2, <1>3, <1>4, MarkKeeps
  <1>7. ShallowShows'
    <2> SUFFICES ASSUME NEW p \in Ids, NEW c \in Ids, Lists(p, c)', Revoked(p)', ~Revoked(c)'
                 PROVE  \E y \in Ids : Unlogged(y)' /\ (y = p \/ y \in Children)
      BY DEF ShallowShows
    <2>1. CASE Revoked(p)
      <3>1. PICK y \in Ids : Unlogged(y) /\ (y = p \/ y \in Children)
        BY <1>6, <2>1 DEF IInv, ShallowShows
      <3>2. Unlogged(y)'
        BY <1>3, <1>4, <1>6, <3>1 DEF Unlogged
      <3> QED BY <3>1, <3>2
    <2>2. CASE p \in S
      <3>1. x \notin revokedLog
        BY <1>2, <1>3 DEF IInv, LoggedAreRevoked
      <3>2. Unlogged(x)'
        BY <1>2, <1>4, <1>6, <3>1 DEF Unlogged
      <3>3. x = p \/ x \in Children
        BY <1>2, <1>5, <2>2
      <3> QED BY <3>2, <3>3
    <2> QED BY <1>6, <2>1, <2>2
  <1> QED BY <1>6, <1>7 DEF IInv
LEMMA NextKeeps ==
  ASSUME IInv, [DelegationNext]_treeVars
  PROVE  IInv'
  <1>1. CASE \E a \in Roots, g \in RootGrants : InitRoot(a, g)
    BY <1>1, InitRootKeeps
  <1>2. CASE \E p \in Ids, c \in Children :
               \E g \in RequestGrants, d \in RequestDepths, t \in RequestTtls :
                 Delegate(p, c, g, d, t)
    BY <1>2, DelegateKeeps
  <1>3. CASE \E a \in Ids : Revoke(a)
    BY <1>3, RevokeKeeps
  <1>4. CASE \E a, x \in Ids : RevokeCut(a, x)
    BY <1>4, RevokeCutKeeps
  <1>5. CASE UNCHANGED <<nodes, revokedLog>> /\ now' \in 1..MaxTime
    <2>1. \A a \in Ids : Exists(a)' <=> Exists(a)
      BY <1>5 DEF Exists
    <2>2. \A a \in Ids : (Revoked(a)' <=> Revoked(a)) /\ (Unlogged(a)' <=> Unlogged(a))
      BY <1>5 DEF Revoked, Exists, Unlogged
    <2>3. \A p, c \in Ids : Lists(p, c)' <=> Lists(p, c)
      BY <1>5 DEF Lists, Exists
    <2>4. DelegationTypeOK' /\ LoggedAreRevoked'
      BY <1>5, <2>2 DEF IInv, DelegationTypeOK, LoggedAreRevoked
    <2>5. TreeIsForest' /\ ListedAreChildren' /\ AuthorityShrinks'
      BY <1>5, <2>1, <2>3 DEF IInv, TreeIsForest, ListedAreChildren, AuthorityShrinks
    <2>6. ShallowShows'
      BY <2>2, <2>3 DEF IInv, ShallowShows
    <2> QED BY <2>4, <2>5, <2>6 DEF IInv
  <1>6. CASE Advance
    <2>1. UNCHANGED <<nodes, revokedLog>> /\ now' \in 1..MaxTime
      BY <1>6, DelegationAssumption DEF Advance, IInv, DelegationTypeOK
    <2> QED BY <1>5, <2>1
  <1>7. CASE UNCHANGED treeVars
    <2>1. UNCHANGED <<nodes, revokedLog>> /\ now' \in 1..MaxTime
      BY <1>7 DEF treeVars, IInv, DelegationTypeOK
    <2> QED BY <1>5, <2>1
  <1> QED BY <1>1, <1>2, <1>3, <1>4, <1>6, <1>7 DEF DelegationNext

LEMMA InitHolds == DelegationInit => IInv
  <1> SUFFICES ASSUME DelegationInit PROVE IInv
    OBVIOUS
  <1>1. \A a \in Ids : ~Exists(a) /\ ~Revoked(a) /\ \A c \in Ids : ~Lists(a, c)
    BY DEF DelegationInit, Exists, Revoked, Lists
  <1>2. DelegationTypeOK /\ LoggedAreRevoked
    BY DelegationAssumption DEF DelegationInit, DelegationTypeOK, LoggedAreRevoked
  <1> QED BY <1>1, <1>2 DEF IInv, TreeIsForest, ListedAreChildren, AuthorityShrinks, ShallowShows

\* The inductive invariant.
THEOREM Invariance == DelegationSpec => []IInv
  BY InitHolds, NextKeeps, PTL DEF DelegationSpec

\* protocol.ts keeps its tree and tokens well formed.
THEOREM TypeCorrect == DelegationSpec => []DelegationTypeOK
  BY Invariance, PTL DEF IInv

\* delegate and initRoot keep the tree a forest whose depths and lifetimes
\* decrease, for any order of calls and any appends that fail.
THEOREM TreeAlwaysForest == DelegationSpec => []TreeIsForest
  BY Invariance, PTL DEF IInv

\* What isSubset admits at one moment never lets a child do more than its parent
\* at another.
THEOREM AuthorityNeverGrows == DelegationSpec => []AuthorityShrinks
  BY Invariance, PTL DEF IInv

LEMMA ShallowShowsDeep == IInv => RevocationIsDeep
  BY DEF IInv, ShallowShows, RevocationIsDeep, RevocationsAreLogged, Unlogged

\* revoke reaches everything below, or leaves a token revoked and not logged.
THEOREM RevocationGoesDeep == DelegationSpec => []RevocationIsDeep
  BY Invariance, ShallowShowsDeep, PTL

-----------------------------------------------------------------------------
\* With the whole tree revoked below a, all of its subtree is.
LEMMA SubtreeRevoked ==
  ASSUME RevocationIsDeep, RevocationsAreLogged, NEW a \in Ids, Revoked(a),
         NEW p \in Subtree(a)
  PROVE  p \in Ids /\ Revoked(p)
  <1> DEFINE S == {m \in Ids : Revoked(m)}
  <1>1. a \in S /\ \A q \in S, c \in Ids : Lists(q, c) => c \in S
    BY DEF RevocationIsDeep
  <1>2. p \in S
    BY <1>1 DEF Subtree
  <1> QED BY <1>2

\* delegate looks at the parent's token only, and that is enough.
THEOREM SubtreesStayFrozen == DelegationSpec => RevokedSubtreesAreFrozen
  <1> DEFINE A == RevocationsAreLogged =>
                    \A a, p, c \in Ids :
                      Revoked(a) /\ p \in Subtree(a) /\ Lists(p, c)' => Lists(p, c)
  <1>1. ASSUME IInv, [DelegationNext]_treeVars
        PROVE  [A]_treeVars
    <2> SUFFICES ASSUME RevocationsAreLogged, NEW a \in Ids, NEW p \in Ids, NEW c \in Ids,
                        Revoked(a), p \in Subtree(a), Lists(p, c)'
                 PROVE  Lists(p, c)
      OBVIOUS
    <2>1. Revoked(p)
      BY <1>1, ShallowShowsDeep, SubtreeRevoked
    <2>2. DelegationTypeOK /\ ListedAreChildren
      BY <1>1 DEF IInv
    <2>3. CASE \E b \in Roots, g \in RootGrants : InitRoot(b, g)
      BY <2>2, <2>3, InitRootEffect
    <2>4. CASE \E q \in Ids, e \in Children :
                 \E g \in RequestGrants, d \in RequestDepths, t \in RequestTtls :
                   Delegate(q, e, g, d, t)
      <3>1. PICK q \in Ids, e \in Children, g \in RequestGrants,
                 d \in RequestDepths, t \in RequestTtls : Delegate(q, e, g, d, t)
        BY <2>4
      <3>2. ~Revoked(q) /\ (Lists(p, c)' <=> (Lists(p, c) \/ (p = q /\ c = e)))
        BY <2>2, <3>1, DelegateEffect
      <3> QED BY <2>1, <3>2
    <2>5. ASSUME NEW S \in SUBSET Ids, \A m \in S : Exists(m), Mark(S)
          PROVE  Lists(p, c)
      BY <2>2, <2>5, MarkEffect
    <2>6. CASE \E b \in Ids : Revoke(b)
      <3>1. PICK b \in Ids : Revoke(b)
        BY <2>6
      <3>2. Cascade(b) \in SUBSET Ids /\ \A m \in Cascade(b) : Exists(m)
        BY <2>2, <3>1, CascadeSpreads DEF Revoke
      <3> QED BY <2>5, <3>1, <3>2 DEF Revoke
    <2>7. CASE \E b, x \in Ids : RevokeCut(b, x)
      <3>1. PICK b \in Ids, x \in Ids : RevokeCut(b, x)
        BY <2>7
      <3> DEFINE S == {m \in Cascade(b) : Before(b, m, x)}
      <3>2. S \in SUBSET Ids /\ \A m \in S : Exists(m)
        BY <2>2, <3>1, CascadeSpreads DEF RevokeCut
      <3> QED BY <2>5, <3>1, <3>2 DEF RevokeCut
    <2>8. CASE Advance \/ UNCHANGED treeVars
      BY <2>8 DEF Advance, treeVars, Lists, Exists
    <2> QED BY <1>1, <2>3, <2>4, <2>6, <2>7, <2>8 DEF DelegationNext
  <1> QED BY <1>1, Invariance, PTL DEF DelegationSpec, RevokedSubtreesAreFrozen

-----------------------------------------------------------------------------
(* The handler.                                                            *)

\* Retries are bounded by the calls that counted them.
HandlerTyped ==
  /\ lifecycle \in [Ids -> AgentStates]
  /\ calls \in Nat
  /\ retries \in [Ids -> [TickSeqs -> 0..calls]]
  /\ audit \in Seq(AuditEntry)
  /\ calls <= MaxCalls

HInv == IInv /\ HandlerTyped

\* A valid trigger leads to a state of the table.
LEMMA RowIsTyped ==
  ASSUME NEW s, NEW t, IsValid(s, t)
  PROVE  RowFor(s, t).to \in AgentStates /\ t \in TransitionTriggers
  <1>1. RowFor(s, t) \in Rows
    BY DEF IsValid, RowFor
  <1>2. \A r \in Rows : r.to \in AgentStates /\ r.trigger \in TransitionTriggers
    BY DEF Rows, VALID_TRANSITIONS, AgentStates, TransitionTriggers
  <1> QED BY <1>1, <1>2 DEF IsValid

\* Whatever is wired, an accepted order leads to a state of the table, and no
\* wiring accepts TERMINATED without obeying.
LEMMA EnterIsTyped ==
  ASSUME NEW a \in Ids, NEW state \in AgentStates, lifecycle \in [Ids -> AgentStates],
         Accepts(a, state), Enter(a, state)
  PROVE  lifecycle' \in [Ids -> AgentStates] /\ lifecycle'[a] = state
  <1>1. CASE TakesStates
    BY <1>1 DEF Enter
  <1>2. CASE ~TakesStates
    <2>1. state \in TransitionTriggers
      BY <1>2, RowIsTyped DEF Accepts
    <2> QED BY <2>1 DEF AgentStates, TransitionTriggers
  <1> QED BY <1>1, <1>2

\* What an assertion throws names the agent and the tick it was asked about.
LEMMA AssertNames ==
  ASSUME NEW c, NEW a, NEW s, NEW code, NEW e \in assert(c, a, s, code)
  PROVE  e.agentId = a /\ e.tickSeq = s
  <1>1. e = InvariantError(a, s, code)
    BY DEF assert
  <1> QED BY <1>1 DEF InvariantError

LEMMA HaltIsBreach ==
  ASSUME NEW a \in Watched, NEW s \in TickSeqs, Halt(a, s)
  PROVE  Breach(a, s)
  <1>1. PICK e \in Thrown(a, s) : Breach(e.agentId, e.tickSeq)
    BY DEF Halt
  <1>2. \E c, code : e \in assert(c, a, s, code)
    BY <1>1, Zenon
       DEF Thrown, assertAgentNotTerminated, assertSingleTickProcessing,
           assertEphemeralWipedOrCheckpointed, assertStepBound, assertSerializable
  <1>3. e.agentId = a /\ e.tickSeq = s
    <2>1. PICK c, code : e \in assert(c, a, s, code)
      BY <1>2
    <2> QED BY <2>1, AssertNames
  <1> QED BY <1>1, <1>3

\* Every step treats the tree as the protocol's own steps do, or leaves it.
LEMMA TreeSteps ==
  ASSUME [Next]_vars
  PROVE  [DelegationNext]_treeVars
  <1>1. CASE DelegationNext
    BY <1>1
  <1>2. ASSUME NEW a \in Watched, NEW s \in TickSeqs,
               Transient(a, s) \/ Permanent(a, s) \/ PolicyViolation(a, s)
        PROVE  UNCHANGED treeVars
    BY <1>2 DEF Transient, Permanent, PolicyViolation, treeVars
  <1>3. ASSUME NEW a \in Watched, NEW s \in TickSeqs, Breach(a, s)
        PROVE  [DelegationNext]_treeVars
    <2>1. a \in Ids
      BY FailureAssumption
    <2> QED BY <1>3, <2>1 DEF Breach, DelegationNext, treeVars
  <1>4. ASSUME NEW a \in Watched, NEW t \in TransitionTriggers, HostMove(a, t)
        PROVE  UNCHANGED treeVars
    BY <1>4 DEF HostMove, treeVars
  <1>5. CASE UNCHANGED vars
    BY <1>5 DEF vars, treeVars
  <1> QED BY <1>1, <1>2, <1>3, <1>4, <1>5, HaltIsBreach DEF Next

\* The failure handler never does to the tree what delegation does not: what is
\* proved of the protocol holds in this composition too.
THEOREM HandlerKeepsProtocol == Spec => DelegationSpec
  <1>1. Init => DelegationInit
    BY DEF Init
  <1> QED BY <1>1, TreeSteps, PTL DEF Spec, DelegationSpec

-----------------------------------------------------------------------------
LEMMA EntriesAreTyped ==
  ASSUME NEW a \in Ids, NEW s \in TickSeqs
  PROVE  /\ \A class \in FailureClass : Recorded(class, a, s) \in AuditEntry
         /\ \A kind \in {"TRANSIENT_RETRY_SCHEDULED", "TRANSIENT_EXHAUSTED",
                         "POLICY_VIOLATION_HALT", "KERNEL_PANIC"} :
              Note(kind, a, s) \in AuditEntry
         /\ DelegationTypeOK /\ Exists(a) => Escalation(a) \in AuditEntry
  <1>1. \A class \in FailureClass : Recorded(class, a, s) \in AuditEntry
    BY DEF Recorded, AuditEntry
  <1>2. \A kind \in {"TRANSIENT_RETRY_SCHEDULED", "TRANSIENT_EXHAUSTED",
                     "POLICY_VIOLATION_HALT", "KERNEL_PANIC"} :
          Note(kind, a, s) \in AuditEntry
    BY DEF Note, AuditEntry
  <1>3. ASSUME DelegationTypeOK, Exists(a)
        PROVE  Escalation(a) \in AuditEntry
    <2>1. nodes[a] \in Node
      BY <1>3 DEF DelegationTypeOK, Exists
    <2>2. (IF nodes[a].parent = null THEN a ELSE nodes[a].parent) \in Ids
      BY <2>1 DEF Node
    <2> QED BY <2>2 DEF Escalation, AuditEntry
  <1> QED BY <1>1, <1>2, <1>3

\* Logging one, two or three entries: the log stays typed and ends in the last.
LEMMA LogKeeps ==
  ASSUME audit \in Seq(AuditEntry), NEW entries \in Seq(AuditEntry), Log(entries)
  PROVE  /\ audit' \in Seq(AuditEntry)
         /\ Len(entries) > 0 => audit'[Len(audit')] = entries[Len(entries)]
  <1>1. audit' = audit \o entries
    BY DEF Log
  <1> QED BY <1>1

LEMMA PermanentlyKeeps ==
  ASSUME HInv, NEW a \in Ids, NEW entries \in Seq(AuditEntry), entries # << >>,
         Permanently(a, entries)
  PROVE  /\ lifecycle' \in [Ids -> AgentStates]
         /\ audit' \in Seq(AuditEntry)
         /\ \/ audit'[Len(audit')] = entries[Len(entries)]
            \/ audit'[Len(audit')] = Escalation(a)
  <1>1. /\ audit \in Seq(AuditEntry) /\ lifecycle \in [Ids -> AgentStates]
        /\ DelegationTypeOK
    BY DEF HInv, HandlerTyped, IInv
  <1>2. lifecycle' \in [Ids -> AgentStates]
    <2>1. "FAULTED" \in AgentStates
      BY DEF AgentStates
    <2> QED BY <1>1, <2>1, EnterIsTyped DEF Permanently
  <1>3. CASE Log(entries)
    <2>1. Len(entries) > 0
      OBVIOUS
    <2> QED BY <1>1, <1>2, <1>3, <2>1, LogKeeps
  <1>4. CASE Exists(a) /\ Log(Append(entries, Escalation(a)))
    <2> DEFINE e == Escalation(a)
               es == Append(entries, e)
    <2>1. \A s \in TickSeqs : e \in AuditEntry
      BY <1>1, <1>4, EntriesAreTyped
    <2>2. nodes[a] \in Node /\ (IF nodes[a].parent = null THEN a ELSE nodes[a].parent) \in Ids
      BY <1>1, <1>4 DEF DelegationTypeOK, Exists, Node
    <2>3. e \in AuditEntry
      BY <2>2 DEF Escalation, AuditEntry
    <2> HIDE DEF e
    <2>4. es \in Seq(AuditEntry) /\ Len(es) > 0 /\ es[Len(es)] = e
      BY <2>3
    <2>5. Log(es)
      BY <1>4 DEF e
    <2> HIDE DEF es
    <2> QED BY <1>1, <1>2, <2>4, <2>5, LogKeeps DEF e
  <1> QED BY <1>3, <1>4 DEF Permanently
\* The log does not end in a kernel panic.
Quiet(log) == log[Len(log)].kind # "KERNEL_PANIC"

LEMMA KindsOfEntries ==
  ASSUME NEW a, NEW s, NEW label
  PROVE  /\ Recorded(label, a, s).kind = "FAILURE_RECORDED"
         /\ Note(label, a, s).kind = label /\ Note(label, a, s).agent = a
         /\ Escalation(a).kind = "CHILD_FAILURE_ESCALATION"
  BY DEF Recorded, Note, Escalation

LEMMA TransientKeeps ==
  ASSUME HInv, calls' = calls + 1, calls < MaxCalls,
         NEW a \in Watched, NEW s \in TickSeqs, Transient(a, s)
  PROVE  HandlerTyped' /\ Quiet(audit')
  <1> DEFINE n == retries[a][s] + 1
             failed == Recorded("TRANSIENT", a, s)
             retry == Note("TRANSIENT_RETRY_SCHEDULED", a, s)
             spent == Note("TRANSIENT_EXHAUSTED", a, s)
  <1>1. /\ a \in Ids /\ lifecycle \in [Ids -> AgentStates] /\ calls \in Nat
        /\ retries \in [Ids -> [TickSeqs -> 0..calls]]
        /\ audit \in Seq(AuditEntry) /\ MaxCalls \in Nat
    BY FailureAssumption DEF HInv, HandlerTyped
  <1>2. /\ failed \in AuditEntry /\ retry \in AuditEntry /\ spent \in AuditEntry
    BY <1>1, EntriesAreTyped DEF FailureClass
  <1>3. /\ failed.kind # "KERNEL_PANIC" /\ retry.kind # "KERNEL_PANIC"
        /\ spent.kind # "KERNEL_PANIC" /\ Escalation(a).kind # "KERNEL_PANIC"
    BY KindsOfEntries
  <1>4. /\ calls' \in Nat /\ calls' <= MaxCalls
        /\ \/ retries' = [retries EXCEPT ![a][s] = n]
           \/ retries' = [retries EXCEPT ![a][s] = 0]
    BY <1>1 DEF Transient
  <1>5. n \in 0..calls'
    BY <1>1
  <1>6. retries' \in [Ids -> [TickSeqs -> 0..calls']]
    <2>1. ASSUME NEW k \in 0..calls', retries' = [retries EXCEPT ![a][s] = k]
          PROVE  retries' \in [Ids -> [TickSeqs -> 0..calls']]
      <3>1. retries \in [Ids -> [TickSeqs -> 0..calls']]
        BY <1>1
      <3>2. [retries[a] EXCEPT ![s] = k] \in [TickSeqs -> 0..calls']
        BY <1>1, <3>1
      <3> QED BY <2>1, <3>1, <3>2
    <2>2. 0 \in 0..calls'
      BY <1>4
    <2> QED BY <1>4, <1>5, <2>1, <2>2
  <1> HIDE DEF failed, retry, spent
  <1>7. ASSUME NEW entries \in {<<failed>>, <<failed, retry>>}, Log(entries)
        PROVE  audit' \in Seq(AuditEntry) /\ Quiet(audit')
    <2>1. entries \in Seq(AuditEntry) /\ Len(entries) > 0
          /\ entries[Len(entries)] \in {failed, retry}
      <3>1. CASE entries = <<failed>>
        BY <1>2, <3>1
      <3>2. CASE entries = <<failed, retry>>
        BY <1>2, <3>2
      <3> QED BY <3>1, <3>2
    <2>2. audit' \in Seq(AuditEntry) /\ audit'[Len(audit')] \in {failed, retry}
      BY <1>1, <1>7, <2>1, LogKeeps
    <2> QED BY <1>3, <2>2 DEF Quiet
  <1>8. CASE Permanently(a, <<failed, spent>>)
    <2> DEFINE es == <<failed, spent>>
    <2>1. es \in Seq(AuditEntry) /\ es # << >> /\ es[Len(es)] = spent
      BY <1>2
    <2>2. Permanently(a, es)
      BY <1>8
    <2> HIDE DEF es
    <2>3. /\ lifecycle' \in [Ids -> AgentStates] /\ audit' \in Seq(AuditEntry)
          /\ \/ audit'[Len(audit')] = spent
             \/ audit'[Len(audit')] = Escalation(a)
      BY <1>1, <2>1, <2>2, PermanentlyKeeps
    <2> QED BY <1>3, <1>4, <1>6, <2>3 DEF Quiet, HandlerTyped
  <1>9. CASE UNCHANGED lifecycle /\ (Log(<<failed>>) \/ Log(<<failed, retry>>))
    BY <1>1, <1>4, <1>6, <1>7, <1>9 DEF HandlerTyped
  <1> QED BY <1>8, <1>9 DEF Transient, failed, retry, spent

LEMMA PermanentKeeps ==
  ASSUME HInv, calls' = calls + 1, calls < MaxCalls,
         NEW a \in Watched, NEW s \in TickSeqs, Permanent(a, s)
  PROVE  HandlerTyped' /\ Quiet(audit')
  <1> DEFINE failed == Recorded("PERMANENT", a, s)
             es == <<failed>>
  <1>1. a \in Ids /\ calls \in Nat /\ MaxCalls \in Nat
        /\ retries \in [Ids -> [TickSeqs -> 0..calls]]
    BY FailureAssumption DEF HInv, HandlerTyped
  <1>2. failed \in AuditEntry
    BY <1>1, EntriesAreTyped DEF FailureClass
  <1>3. failed.kind # "KERNEL_PANIC" /\ Escalation(a).kind # "KERNEL_PANIC"
    BY KindsOfEntries
  <1>4. Permanently(a, es) /\ retries' = retries
    BY DEF Permanent
  <1> HIDE DEF failed
  <1>5. es \in Seq(AuditEntry) /\ es # << >> /\ es[Len(es)] = failed
    BY <1>2
  <1> HIDE DEF es
  <1>6. /\ lifecycle' \in [Ids -> AgentStates] /\ audit' \in Seq(AuditEntry)
        /\ (audit'[Len(audit')] = failed \/ audit'[Len(audit')] = Escalation(a))
    BY <1>1, <1>4, <1>5, PermanentlyKeeps
  <1>7. calls' \in Nat /\ calls' <= MaxCalls /\ retries' \in [Ids -> [TickSeqs -> 0..calls']]
    BY <1>1, <1>4
  <1> QED BY <1>3, <1>6, <1>7 DEF Quiet, HandlerTyped

LEMMA PolicyViolationKeeps ==
  ASSUME HInv, calls' = calls + 1, calls < MaxCalls,
         NEW a \in Watched, NEW s \in TickSeqs, PolicyViolation(a, s)
  PROVE  HandlerTyped' /\ Quiet(audit')
  <1> DEFINE failed == Recorded("POLICY_VIOLATION", a, s)
             halt == Note("POLICY_VIOLATION_HALT", a, s)
  <1>1. /\ a \in Ids /\ calls \in Nat /\ MaxCalls \in Nat /\ audit \in Seq(AuditEntry)
        /\ retries \in [Ids -> [TickSeqs -> 0..calls]]
        /\ lifecycle' \in [Ids -> AgentStates] /\ retries' = retries
    BY FailureAssumption DEF HInv, HandlerTyped, PolicyViolation
  <1>2. failed \in AuditEntry /\ halt \in AuditEntry
    BY <1>1, EntriesAreTyped DEF FailureClass
  <1>3. failed.kind # "KERNEL_PANIC" /\ halt.kind # "KERNEL_PANIC"
    BY KindsOfEntries
  <1>4. \E entries \in {<<failed>>, <<failed, halt>>} : Log(entries)
    BY DEF PolicyViolation
  <1> HIDE DEF failed, halt
  <1>5. PICK entries \in {<<failed>>, <<failed, halt>>} : Log(entries)
    BY <1>4
  <1>6. entries \in Seq(AuditEntry) /\ Len(entries) > 0
        /\ entries[Len(entries)] \in {failed, halt}
    <2>1. CASE entries = <<failed>>
      BY <1>2, <2>1
    <2>2. CASE entries = <<failed, halt>>
      BY <1>2, <2>2
    <2> QED BY <2>1, <2>2
  <1>7. audit' \in Seq(AuditEntry) /\ audit'[Len(audit')] \in {failed, halt}
    BY <1>1, <1>5, <1>6, LogKeeps
  <1>8. calls' \in Nat /\ calls' <= MaxCalls /\ retries' \in [Ids -> [TickSeqs -> 0..calls']]
    BY <1>1
  <1> QED BY <1>1, <1>3, <1>7, <1>8 DEF Quiet, HandlerTyped

\* A breach is TERMINATED and revoked by the time its panic is logged.
LEMMA BreachKeeps ==
  ASSUME HInv, calls' = calls + 1, calls < MaxCalls,
         NEW a \in Watched, NEW s \in TickSeqs, Breach(a, s)
  PROVE  /\ HandlerTyped'
         /\ \A b \in Ids, u \in TickSeqs :
              audit'[Len(audit')] = Note("KERNEL_PANIC", b, u) =>
                /\ lifecycle'[b] = "TERMINATED"
                /\ Exists(b)' => Revoked(b)'
  <1> DEFINE failed == Recorded("INVARIANT_BREACH", a, s)
             panic == Note("KERNEL_PANIC", a, s)
  <1>1. /\ a \in Ids /\ calls \in Nat /\ MaxCalls \in Nat /\ audit \in Seq(AuditEntry)
        /\ retries \in [Ids -> [TickSeqs -> 0..calls]] /\ retries' = retries
        /\ lifecycle \in [Ids -> AgentStates] /\ DelegationTypeOK
    BY FailureAssumption DEF HInv, IInv, HandlerTyped, Breach
  <1>2. failed \in AuditEntry /\ panic \in AuditEntry
    BY <1>1, EntriesAreTyped DEF FailureClass
  <1>3. /\ failed.kind # "KERNEL_PANIC" /\ panic.agent = a
        /\ \A b, u : Note("KERNEL_PANIC", b, u).kind = "KERNEL_PANIC"
                   /\ Note("KERNEL_PANIC", b, u).agent = b
    BY KindsOfEntries
  <1>4. calls' \in Nat /\ calls' <= MaxCalls /\ retries' \in [Ids -> [TickSeqs -> 0..calls']]
    BY <1>1
  <1>5. CASE Log(<<failed>>) /\ lifecycle' \in [Ids -> AgentStates]
    <2>1. audit' \in Seq(AuditEntry) /\ audit'[Len(audit')] = failed
      <3> HIDE DEF failed
      <3> DEFINE es == <<failed>>
      <3>1. es \in Seq(AuditEntry) /\ Len(es) > 0 /\ es[Len(es)] = failed
        BY <1>2
      <3>2. Log(es)
        BY <1>5
      <3> HIDE DEF es
      <3> QED BY <1>1, <3>1, <3>2, LogKeeps
    <2> QED BY <1>3, <1>4, <1>5, <2>1 DEF HandlerTyped
  <1>6. "TERMINATED" \in AgentStates
    BY DEF AgentStates
  <1>7. Accepts(a, "TERMINATED") /\ Enter(a, "TERMINATED") =>
          lifecycle' \in [Ids -> AgentStates] /\ lifecycle'[a] = "TERMINATED"
    BY <1>1, <1>6, EnterIsTyped
  <1>8. CASE /\ Accepts(a, "TERMINATED") /\ Enter(a, "TERMINATED")
             /\ Log(<<failed, panic>>)
             /\ Revoke(a) \/ (~CanRevoke(a) /\ UNCHANGED treeVars)
    <2>1. audit' \in Seq(AuditEntry) /\ audit'[Len(audit')] = panic
      <3> HIDE DEF failed, panic
      <3> DEFINE es == <<failed, panic>>
      <3>1. es \in Seq(AuditEntry) /\ Len(es) > 0 /\ es[Len(es)] = panic
        BY <1>2
      <3>2. Log(es)
        BY <1>8
      <3> HIDE DEF es
      <3> QED BY <1>1, <3>1, <3>2, LogKeeps
    <2>2. Exists(a)' => Revoked(a)'
      <3>1. CASE Revoke(a)
        <4>1. Cascade(a) \in SUBSET Ids /\ \A m \in Cascade(a) : Exists(m)
          BY <1>1, <3>1, CascadeSpreads DEF Revoke
        <4>2. a \in Cascade(a)
          BY <1>1 DEF Cascade, Cascades
        <4> QED BY <1>1, <3>1, <4>1, <4>2, MarkEffect DEF Revoke
      <3>2. CASE ~CanRevoke(a) /\ UNCHANGED treeVars
        BY <3>2 DEF CanRevoke, treeVars, Revoked, Exists
      <3> QED BY <1>8, <3>1, <3>2
    <2> QED BY <1>3, <1>4, <1>7, <1>8, <2>1, <2>2 DEF HandlerTyped
  <1>9. CASE ~Accepts(a, "TERMINATED") /\ Log(<<failed>>) /\ UNCHANGED lifecycle
    BY <1>1, <1>5, <1>9
  <1>10. CASE Accepts(a, "TERMINATED") /\ Enter(a, "TERMINATED") /\ Log(<<failed>>)
    BY <1>5, <1>7, <1>10
  <1> QED BY <1>8, <1>9, <1>10 DEF Breach

LEMMA HInvKept ==
  ASSUME HInv, [Next]_vars
  PROVE  HInv'
  <1>1. IInv'
    BY TreeSteps, NextKeeps DEF HInv
  <1>2. CASE UNCHANGED vars
    BY <1>1, <1>2 DEF HInv, HandlerTyped, vars
  <1> SUFFICES ASSUME Next PROVE HandlerTyped'
    BY <1>1, <1>2 DEF HInv
  <1>3. calls < MaxCalls /\ calls' = calls + 1
    BY DEF Next
  <1>4. CASE UNCHANGED <<retries, audit>> /\ lifecycle' \in [Ids -> AgentStates]
    BY <1>3, <1>4, FailureAssumption DEF HInv, HandlerTyped
  <1>5. CASE DelegationNext /\ UNCHANGED handlerVars
    BY <1>4, <1>5 DEF handlerVars, HInv, HandlerTyped
  <1>6. ASSUME NEW a \in Watched, NEW t \in TransitionTriggers, HostMove(a, t)
        PROVE  HandlerTyped'
    <2>1. RowFor(lifecycle[a], t).to \in AgentStates
      BY <1>6, RowIsTyped DEF HostMove
    <2> QED BY <1>4, <1>6, <2>1 DEF HostMove, HInv, HandlerTyped
  <1> QED BY <1>3, <1>5, <1>6, TransientKeeps, PermanentKeeps, PolicyViolationKeeps,
            BreachKeeps, HaltIsBreach DEF Next

LEMMA HInitHolds == Init => HInv
  BY InitHolds, FailureAssumption DEF Init, HInv, HandlerTyped, AgentStates

THEOREM HandlerInvariance == Spec => []HInv
  BY HInitHolds, HInvKept, PTL DEF Spec

\* handle() keeps its records and its log well formed: a retry count never
\* exceeds what was asked of it.
THEOREM HandlerTypeCorrect == Spec => []FailureTypeOK
  <1>1. HInv => FailureTypeOK
    BY FailureAssumption DEF HInv, IInv, HandlerTyped, FailureTypeOK
  <1> QED BY <1>1, HandlerInvariance, PTL

\* A logged KERNEL_PANIC (handler.ts) means what it says: the agent is TERMINATED
\* and nothing delegated from it is live, unless an unlogged revocation shows.
THEOREM PanicsFreeze == Spec => PanicFreezes
  <1> DEFINE A == \A a \in Ids, s \in TickSeqs :
                    audit' # audit /\ audit'[Len(audit')] = Note("KERNEL_PANIC", a, s) =>
                      /\ lifecycle'[a] = "TERMINATED"
                      /\ RevocationsAreLogged' =>
                           \A m \in Subtree(a)' : Exists(m)' => Revoked(m)'
  <1>1. ASSUME HInv, HInv', [Next]_vars
        PROVE  [A]_vars
    <2> SUFFICES ASSUME NEW a \in Ids, NEW s \in TickSeqs, Next, audit' # audit,
                        audit'[Len(audit')] = Note("KERNEL_PANIC", a, s)
                 PROVE  /\ lifecycle'[a] = "TERMINATED"
                        /\ RevocationsAreLogged' =>
                             \A m \in Subtree(a)' : Exists(m)' => Revoked(m)'
      BY <1>1
    <2>1. calls < MaxCalls /\ calls' = calls + 1
      BY DEF Next
    <2>2. lifecycle'[a] = "TERMINATED" /\ (Exists(a)' => Revoked(a)')
      <3>1. PICK b \in Watched, u \in TickSeqs :
              Transient(b, u) \/ Permanent(b, u) \/ PolicyViolation(b, u) \/ Breach(b, u)
        BY HaltIsBreach DEF Next, handlerVars, HostMove
      <3>2. ~Quiet(audit')
        BY KindsOfEntries DEF Quiet
      <3>3. Breach(b, u)
        BY <1>1, <2>1, <3>1, <3>2, TransientKeeps, PermanentKeeps, PolicyViolationKeeps
      <3> QED BY <1>1, <2>1, <3>3, BreachKeeps
    <2>3. RevocationIsDeep'
      BY <1>1 DEF HInv, IInv, ShallowShows, RevocationIsDeep, RevocationsAreLogged, Unlogged
    <2>4. ASSUME RevocationsAreLogged', NEW m \in Subtree(a)', Exists(m)'
          PROVE  Revoked(m)'
      <3>1. CASE Exists(a)'
        <4> DEFINE S == {q \in Ids : Revoked(q)'}
        <4>1. a \in S /\ \A q \in S, c \in Ids : Lists(q, c)' => c \in S
          BY <2>2, <2>3, <2>4, <3>1 DEF RevocationIsDeep
        <4>2. m \in S
          BY <4>1 DEF Subtree
        <4> QED BY <4>2
      <3>2. CASE ~Exists(a)'
        <4>1. a \in {a} /\ \A q \in {a}, c \in Ids : Lists(q, c)' => c \in {a}
          BY <3>2 DEF Lists
        <4>2. m \in {a}
          BY <4>1 DEF Subtree
        <4> QED BY <2>4, <3>2, <4>2
      <3> QED BY <3>1, <3>2
    <2> QED BY <2>2, <2>4
  <1> QED BY <1>1, HandlerInvariance, PTL DEF Spec, PanicFreezes

-----------------------------------------------------------------------------
(* Retries.  Logs of any entries are looked at one entry at a time: since  *)
(* a tick was given up last, no more of its retries are in the log than    *)
(* were counted, and no fewer of its failures.                             *)

IsSequence(s) == \E S : s \in Seq(S)

LEMMA AppendAnything ==
  ASSUME NEW s, IsSequence(s), NEW e
  PROVE  /\ IsSequence(Append(s, e))
         /\ Len(s) \in Nat /\ DOMAIN s = 1..Len(s)
         /\ Len(Append(s, e)) = Len(s) + 1
         /\ DOMAIN Append(s, e) = 1..(Len(s) + 1)
         /\ Append(s, e)[Len(s) + 1] = e
         /\ \A i \in 1..Len(s) : Append(s, e)[i] = s[i]
  <1>1. PICK S : s \in Seq(S)
    BY DEF IsSequence
  <1>2. s \in Seq(S \cup {e}) /\ Append(s, e) \in Seq(S \cup {e})
    BY <1>1
  <1> QED BY <1>2 DEF IsSequence

\* What is counted of tick s of a, and what ends the count.
Retry(a, s) == Note("TRANSIENT_RETRY_SCHEDULED", a, s)
Failure(a, s) == Recorded("TRANSIENT", a, s)
Spent(a, s) == Note("TRANSIENT_EXHAUSTED", a, s)

\* RetryBudget, of any log and of one tick.
Some(log, j, i, k) == {n \in (j + 1)..(i - 1) : log[n] = k}
From(log, i, a, s) == i = 0 \/ (i \in DOMAIN log /\ log[i] = Spent(a, s))
Unbroken(log, j, i, a, s) == \A n \in (j + 1)..(i - 1) : log[n] # Spent(a, s)

Budget(log, a, s) ==
  \A j, i \in 0..(Len(log) + 1) :
    /\ j < i /\ From(log, j, a, s) /\ Unbroken(log, j, i, a, s)
    => /\ Cardinality(Some(log, j, i, Retry(a, s))) <= MaxRetries
       /\ From(log, i, a, s) =>
            Cardinality(Some(log, j, i, Failure(a, s))) > MaxRetries

Tally(log, a, s, scheduled, failed) ==
  /\ Budget(log, a, s)
  /\ \A j \in 0..Len(log) :
       From(log, j, a, s) /\ Unbroken(log, j, Len(log) + 1, a, s) =>
         /\ Cardinality(Some(log, j, Len(log) + 1, Retry(a, s))) <= scheduled
         /\ Cardinality(Some(log, j, Len(log) + 1, Failure(a, s))) >= failed

LEMMA SomeOfMore ==
  ASSUME NEW log, IsSequence(log), NEW e, NEW j \in 0..Len(log), NEW k
  PROVE  LET old == Some(log, j, Len(log) + 1, k)
             new == Some(Append(log, e), j, Len(log) + 2, k)
         IN /\ Cardinality(old) \in Nat
            /\ Cardinality(new) = IF e = k THEN Cardinality(old) + 1 ELSE Cardinality(old)
  <1> DEFINE L == Len(log)
             log2 == Append(log, e)
             old == Some(log, j, L + 1, k)
             new == Some(log2, j, L + 2, k)
  <1>1. L \in Nat /\ log2[L + 1] = e /\ \A i \in 1..L : log2[i] = log[i]
    BY AppendAnything
  <1> HIDE DEF L, log2
  <1>2. old \subseteq 1..L /\ L + 1 \notin old
    BY <1>1 DEF Some, L
  <1>3. IsFiniteSet(old) /\ Cardinality(old) \in Nat
    <2>1. 1 \in Int /\ L \in Int
      BY <1>1
    <2>2. IsFiniteSet(1..L)
      BY <2>1, FS_Interval
    <2> QED BY <1>2, <2>2, FS_Subset, FS_CardinalityType
  <1>4. \A n : n \in new <=> n \in old \/ (n = L + 1 /\ e = k)
    BY <1>1 DEF Some, L
  <1> HIDE DEF old, new
  <1>5. CASE e = k
    <2>1. new = old \cup {L + 1}
      BY <1>4, <1>5
    <2>2. Cardinality(new) = Cardinality(old) + 1
      BY <1>2, <1>3, <2>1, FS_AddElement
    <2> QED BY <1>1, <1>3, <1>5, <2>2 DEF old, new, L, log2
  <1>6. CASE e # k
    <2>1. new = old
      BY <1>4, <1>6
    <2> QED BY <1>1, <1>3, <1>6, <2>1 DEF old, new, L, log2
  <1> QED BY <1>5, <1>6

LEMMA SomeStay ==
  ASSUME NEW log, IsSequence(log), NEW e, NEW j \in Nat, NEW i \in 0..(Len(log) + 1), NEW a, NEW s
  PROVE  /\ \A k : Some(Append(log, e), j, i, k) = Some(log, j, i, k)
         /\ Unbroken(Append(log, e), j, i, a, s) <=> Unbroken(log, j, i, a, s)
         /\ i <= Len(log) => (From(Append(log, e), i, a, s) <=> From(log, i, a, s))
  <1>1. /\ Len(log) \in Nat /\ DOMAIN log = 1..Len(log)
        /\ DOMAIN Append(log, e) = 1..(Len(log) + 1)
        /\ \A n \in 1..Len(log) : Append(log, e)[n] = log[n]
    BY AppendAnything
  <1>2. \A n \in (j + 1)..(i - 1) : n \in 1..Len(log)
    BY <1>1
  <1>3. \A k : Some(Append(log, e), j, i, k) = Some(log, j, i, k)
    BY <1>1, <1>2 DEF Some
  <1>4. Unbroken(Append(log, e), j, i, a, s) <=> Unbroken(log, j, i, a, s)
    BY <1>1, <1>2 DEF Unbroken
  <1>5. i <= Len(log) => (From(Append(log, e), i, a, s) <=> From(log, i, a, s))
    BY <1>1 DEF From
  <1> QED BY <1>3, <1>4, <1>5

\* What entry e may do to the tally of tick s of a.
Counts(e, a, s, scheduled, failed, scheduled2, failed2) ==
  \/ e = Spent(a, s) /\ failed > MaxRetries /\ failed2 = 0
  \/ /\ e # Spent(a, s)
     /\ scheduled2 >= IF e = Retry(a, s) THEN scheduled + 1 ELSE scheduled
     /\ failed2 <= IF e = Failure(a, s) THEN failed + 1 ELSE failed

LEMMA OneMore ==
  ASSUME NEW log, IsSequence(log), NEW e, NEW a, NEW s,
         NEW sch \in Nat, NEW flr \in Nat, NEW sch2 \in 0..MaxRetries, NEW flr2 \in Nat,
         Tally(log, a, s, sch, flr), Counts(e, a, s, sch, flr, sch2, flr2)
  PROVE  Tally(Append(log, e), a, s, sch2, flr2)
  <1> DEFINE L == Len(log)
             log2 == Append(log, e)
             Sch(j) == Cardinality(Some(log2, j, L + 2, Retry(a, s)))
             Flr(j) == Cardinality(Some(log2, j, L + 2, Failure(a, s)))
             Open(j) == From(log2, j, a, s) /\ Unbroken(log2, j, L + 2, a, s)
  <1>1. /\ L \in Nat /\ Len(log2) = L + 1 /\ DOMAIN log2 = 1..(L + 1) /\ DOMAIN log = 1..L
        /\ log2[L + 1] = e /\ MaxRetries \in Nat
    BY AppendAnything, FailureAssumption
  <1>2. ASSUME NEW j \in 0..(L + 1), Open(j)
        PROVE  Sch(j) <= sch2 /\ Flr(j) >= flr2
    <2>1. CASE j = L + 1
      <3>1. \A k : Some(log2, j, L + 2, k) = {}
        BY <1>1, <2>1 DEF Some
      <3>2. e = Spent(a, s) /\ flr2 = 0
        BY <1>1, <1>2, <2>1 DEF From, Counts
      <3>3. Sch(j) = 0 /\ Flr(j) = 0
        BY <3>1, FS_EmptySet
      <3> HIDE DEF Sch, Flr
      <3> QED BY <1>1, <3>2, <3>3
    <2>2. CASE j \in 0..L
      <3>1. e # Spent(a, s)
        BY <1>1, <1>2, <2>2 DEF Unbroken
      <3>2. From(log, j, a, s) /\ Unbroken(log, j, L + 1, a, s)
        <4>1. Unbroken(log2, j, L + 1, a, s)
          BY <1>1, <1>2, <2>2 DEF Unbroken
        <4>2. j \in Nat /\ j \in 0..(L + 1) /\ L + 1 \in 0..(L + 1) /\ j <= L
          BY <1>1, <2>2
        <4>3. Unbroken(log2, j, L + 1, a, s) <=> Unbroken(log, j, L + 1, a, s)
          BY <4>2, SomeStay
        <4>4. From(log2, j, a, s) <=> From(log, j, a, s)
          BY <4>2, SomeStay
        <4> QED BY <1>2, <4>1, <4>3, <4>4
      <3>3. /\ Cardinality(Some(log, j, L + 1, Retry(a, s))) <= sch
            /\ Cardinality(Some(log, j, L + 1, Failure(a, s))) >= flr
        BY <2>2, <3>2 DEF Tally
      <3> DEFINE oldSch == Cardinality(Some(log, j, L + 1, Retry(a, s)))
                 oldFlr == Cardinality(Some(log, j, L + 1, Failure(a, s)))
      <3>4. /\ oldSch \in Nat /\ oldFlr \in Nat
            /\ Sch(j) = IF e = Retry(a, s) THEN oldSch + 1 ELSE oldSch
            /\ Flr(j) = IF e = Failure(a, s) THEN oldFlr + 1 ELSE oldFlr
        BY <2>2, SomeOfMore
      <3> HIDE DEF Sch, Flr, oldSch, oldFlr
      <3>5. /\ sch2 >= IF e = Retry(a, s) THEN sch + 1 ELSE sch
            /\ flr2 <= IF e = Failure(a, s) THEN flr + 1 ELSE flr
        BY <3>1 DEF Counts
      <3>6. oldSch <= sch /\ oldFlr >= flr
        BY <3>3 DEF oldSch, oldFlr
      <3>7. Sch(j) <= sch2
        <4>1. CASE e = Retry(a, s)
          BY <1>1, <3>4, <3>5, <3>6, <4>1
        <4>2. CASE e # Retry(a, s)
          BY <1>1, <3>4, <3>5, <3>6, <4>2
        <4> QED BY <4>1, <4>2
      <3>8. Flr(j) >= flr2
        <4>1. CASE e = Failure(a, s)
          BY <3>4, <3>5, <3>6, <4>1
        <4>2. CASE e # Failure(a, s)
          BY <3>4, <3>5, <3>6, <4>2
        <4> QED BY <4>1, <4>2
      <3> QED BY <3>7, <3>8
    <2> QED BY <1>1, <2>1, <2>2
  <1>3. ASSUME NEW j \in 0..(L + 2), NEW i \in 0..(L + 2),
               j < i, From(log2, j, a, s), Unbroken(log2, j, i, a, s)
        PROVE  /\ Cardinality(Some(log2, j, i, Retry(a, s))) <= MaxRetries
               /\ From(log2, i, a, s) =>
                    Cardinality(Some(log2, j, i, Failure(a, s))) > MaxRetries
    <2>1. CASE i = L + 2
      <3>1. j \in 0..(L + 1) /\ Open(j) /\ ~From(log2, i, a, s)
        BY <1>1, <1>3, <2>1 DEF From
      <3>2. Sch(j) <= sch2
        BY <1>2, <3>1
      <3>3. Cardinality(Some(log2, j, L + 2, Retry(a, s))) \in Nat
        <4>1. Some(log2, j, L + 2, Retry(a, s)) \subseteq 1..(L + 1)
          BY <1>1, <3>1 DEF Some
        <4>2. 1 \in Int /\ L + 1 \in Int
          BY <1>1
        <4> QED BY <4>1, <4>2, FS_Interval, FS_Subset, FS_CardinalityType
      <3> QED BY <1>1, <2>1, <3>1, <3>2, <3>3
    <2>2. CASE i \in 0..(L + 1)
      <3>1. j \in Nat /\ j \in 0..(L + 1) /\ j <= L
        BY <1>1, <1>3, <2>2
      <3>2. /\ \A k : Some(log2, j, i, k) = Some(log, j, i, k)
            /\ Unbroken(log, j, i, a, s) /\ From(log, j, a, s)
            /\ i <= L => (From(log2, i, a, s) <=> From(log, i, a, s))
        BY <1>3, <2>2, <3>1, SomeStay
      <3>3. /\ Cardinality(Some(log, j, i, Retry(a, s))) <= MaxRetries
            /\ From(log, i, a, s) =>
                 Cardinality(Some(log, j, i, Failure(a, s))) > MaxRetries
        BY <1>3, <2>2, <3>1, <3>2 DEF Tally, Budget
      <3>4. CASE i <= L
        BY <3>2, <3>3, <3>4
      <3>5. CASE i = L + 1 /\ From(log2, i, a, s)
        <4>1. e = Spent(a, s) /\ flr > MaxRetries
          BY <1>1, <3>5 DEF From, Counts
        <4>2. Cardinality(Some(log, j, i, Failure(a, s))) >= flr
          BY <3>1, <3>2, <3>5, <1>1 DEF Tally
        <4>3. Cardinality(Some(log, j, i, Failure(a, s))) \in Nat
          <5>1. j \in 0..Len(log) /\ i = Len(log) + 1
            BY <1>1, <3>1, <3>5
          <5> QED BY <5>1, SomeOfMore
        <4>4. Cardinality(Some(log, j, i, Failure(a, s))) > MaxRetries
          BY <1>1, <4>1, <4>2, <4>3
        <4> QED BY <3>2, <3>3, <4>4
      <3>6. CASE ~From(log2, i, a, s)
        BY <3>2, <3>3, <3>6
      <3> QED BY <1>1, <2>2, <3>4, <3>5, <3>6
    <2> QED BY <1>1, <2>1, <2>2
  <1>4. Budget(log2, a, s)
    BY <1>1, <1>3 DEF Budget
  <1> QED BY <1>1, <1>2, <1>4 DEF Tally

\* Entries that are logged together are logged one after the other.
LEMMA LogOneByOne ==
  ASSUME NEW log, IsSequence(log), NEW e, NEW f, NEW g
  PROVE  /\ log \o <<e>> = Append(log, e)
         /\ log \o <<e, f>> = Append(Append(log, e), f)
         /\ log \o Append(<<e>>, g) = Append(Append(log, e), g)
         /\ log \o Append(<<e, f>>, g) = Append(Append(Append(log, e), f), g)
  <1>1. PICK S : log \in Seq(S)
    BY DEF IsSequence
  <1> DEFINE T == S \cup {e, f, g}
  <1>2. log \in Seq(T) /\ e \in T /\ f \in T /\ g \in T
    BY <1>1
  <1> HIDE DEF T
  <1>3. /\ <<e>> \in Seq(T) /\ <<f>> \in Seq(T) /\ <<g>> \in Seq(T)
        /\ <<e, f>> \in Seq(T) /\ <<e, g>> \in Seq(T) /\ <<e, f, g>> \in Seq(T)
    BY <1>2
  <1>4. ASSUME NEW x \in T, NEW l \in Seq(T)
        PROVE  l \o <<x>> = Append(l, x)
    BY AppendIsConcat
  <1>5. /\ <<e, f>> = <<e>> \o <<f>> /\ Append(<<e>>, g) = <<e>> \o <<g>>
        /\ Append(<<e, f>>, g) = <<e, f>> \o <<g>>
    <2>1. <<e, f>> \in Seq(T) /\ Append(<<e>>, f) \in Seq(T) /\ Len(Append(<<e>>, f)) = 2
      BY <1>2, <1>3
    <2>2. Append(<<e>>, f)[1] = e /\ Append(<<e>>, f)[2] = f
      BY <1>2, <1>3
    <2>3. \A i \in 1..Len(Append(<<e>>, f)) : Append(<<e>>, f)[i] = <<e, f>>[i]
      BY <2>1, <2>2
    <2>4. Append(<<e>>, f) = <<e, f>>
      BY <2>1, <2>3, SeqEqual
    <2>5. Append(<<e>>, f) = <<e>> \o <<f>> /\ Append(<<e>>, g) = <<e>> \o <<g>>
      BY <1>2, <1>3, <1>4
    <2>6. Append(<<e, f>>, g) = <<e, f>> \o <<g>>
      BY <1>2, <1>3, <1>4
    <2> QED BY <2>4, <2>5, <2>6
  <1>6. log \o <<e, f>> = Append(Append(log, e), f)
    BY <1>2, <1>3, <1>4, <1>5, ConcatAssociative
  <1>7. log \o Append(<<e>>, g) = Append(Append(log, e), g)
    BY <1>2, <1>3, <1>4, <1>5, ConcatAssociative
  <1>8. log \o Append(<<e, f>>, g) = Append(log \o <<e, f>>, g)
    <2>1. log \o <<e, f>> \in Seq(T)
      BY <1>2, <1>3
    <2> QED BY <1>2, <1>3, <1>4, <1>5, <2>1, ConcatAssociative
  <1> QED BY <1>2, <1>4, <1>6, <1>7, <1>8

AtMostRetries(n) == IF n <= MaxRetries THEN n ELSE MaxRetries

\* The inductive invariant: what is in the records is in the log.
Tallied(log, rs) ==
  /\ IsSequence(log)
  /\ \A a \in Ids, s \in TickSeqs : Tally(log, a, s, AtMostRetries(rs[a][s]), rs[a][s])

Counters == [Ids -> [TickSeqs -> Nat]]

LEMMA MostIsTyped ==
  ASSUME NEW n \in Nat
  PROVE  AtMostRetries(n) \in 0..MaxRetries /\ AtMostRetries(n) \in Nat
  BY FailureAssumption DEF AtMostRetries

\* An entry that is no retry and no exhaustion changes no tally, and none changes
\* the tally of another tick.
LEMMA StaysTallied ==
  ASSUME NEW log, IsSequence(log), NEW e, NEW a, NEW s, NEW n \in Nat,
         Tally(log, a, s, AtMostRetries(n), n),
         e # Spent(a, s), e # Retry(a, s)
  PROVE  Tally(Append(log, e), a, s, AtMostRetries(n), n)
  <1>1. AtMostRetries(n) \in 0..MaxRetries /\ AtMostRetries(n) \in Nat
    BY MostIsTyped
  <1>2. Counts(e, a, s, AtMostRetries(n), n, AtMostRetries(n), n)
    BY <1>1 DEF Counts
  <1> QED BY <1>1, <1>2, OneMore

LEMMA NeutralKeeps ==
  ASSUME NEW log, NEW rs \in Counters, Tallied(log, rs), NEW e,
         e.kind \notin {"TRANSIENT_RETRY_SCHEDULED", "TRANSIENT_EXHAUSTED"}
  PROVE  Tallied(Append(log, e), rs)
  <1>1. IsSequence(log) /\ IsSequence(Append(log, e))
    BY AppendAnything DEF Tallied
  <1>2. ASSUME NEW a \in Ids, NEW s \in TickSeqs
        PROVE  Tally(Append(log, e), a, s, AtMostRetries(rs[a][s]), rs[a][s])
    <2>1. rs[a][s] \in Nat
      BY DEF Counters
    <2>2. e # Spent(a, s) /\ e # Retry(a, s)
      BY KindsOfEntries DEF Spent, Retry
    <2>3. Tally(log, a, s, AtMostRetries(rs[a][s]), rs[a][s])
      BY DEF Tallied
    <2> QED BY <1>1, <2>1, <2>2, <2>3, StaysTallied
  <1> QED BY <1>1, <1>2 DEF Tallied

\* A tick is one agent's; its failure, its retry and its exhaustion are no other's.
LEMMA EntriesOfTick ==
  ASSUME NEW b \in Ids, NEW u \in TickSeqs, NEW a \in Ids, NEW s \in TickSeqs,
         a # b \/ s # u,
         NEW e \in {Recorded("TRANSIENT", b, u), Note("TRANSIENT_RETRY_SCHEDULED", b, u), Spent(b, u)}
  PROVE  e # Spent(a, s) /\ e # Retry(a, s)
  BY DEF Recorded, Note, Spent, Retry

LEMMA TransientTallies ==
  ASSUME HInv, Tallied(audit, retries), NEW b \in Watched, NEW u \in TickSeqs, Transient(b, u)
  PROVE  Tallied(audit', retries')
  <1> DEFINE n == retries[b][u] + 1
             failed == Recorded("TRANSIENT", b, u)
             retry == Note("TRANSIENT_RETRY_SCHEDULED", b, u)
             spent == Spent(b, u)
             log1 == Append(audit, failed)
             log2 == Append(log1, retry)
             log3 == Append(log1, spent)
             old == AtMostRetries(retries[b][u])
             Count(k) == [retries EXCEPT ![b][u] = k]
  <1>1. /\ b \in Ids /\ retries \in Counters /\ retries[b][u] \in Nat /\ n \in Nat
        /\ IsSequence(audit) /\ MaxRetries \in Nat
    BY FailureAssumption DEF HInv, HandlerTyped, Counters, Tallied
  <1>2. /\ IsSequence(log1) /\ IsSequence(log2) /\ IsSequence(log3)
    BY <1>1, AppendAnything
  <1>3. ASSUME NEW k \in Nat
        PROVE  /\ Count(k) \in Counters /\ Count(k)[b][u] = k
               /\ \A a \in Ids, s \in TickSeqs : a # b \/ s # u => Count(k)[a][s] = retries[a][s]
    BY <1>1 DEF Counters
  <1>4. /\ old \in 0..MaxRetries /\ old \in Nat /\ old <= retries[b][u]
        /\ AtMostRetries(n) \in 0..MaxRetries /\ AtMostRetries(n) \in Nat
        /\ old <= AtMostRetries(n) /\ AtMostRetries(0) = 0
        /\ n <= MaxRetries => old + 1 <= AtMostRetries(n)
    BY <1>1 DEF AtMostRetries
  <1>5. /\ failed.kind = "FAILURE_RECORDED" /\ failed.agent = b /\ failed.seq = u
        /\ retry.kind = "TRANSIENT_RETRY_SCHEDULED"
        /\ spent.kind = "TRANSIENT_EXHAUSTED"
    BY DEF Recorded, Note, Spent
  <1>6. Tally(audit, b, u, old, retries[b][u])
    BY <1>1 DEF Tallied
  <1> HIDE DEF n, failed, retry, spent, old
  <1>7. Tally(log1, b, u, old, n) /\ Tally(log1, b, u, AtMostRetries(n), n)
    <2>1. failed # Spent(b, u)
      BY <1>5 DEF spent
    <2>2. n <= retries[b][u] + 1
      BY <1>1 DEF n
    <2>3. failed = Failure(b, u) /\ failed # Retry(b, u)
      BY <1>5, KindsOfEntries DEF failed, Failure, Retry
    <2>4. /\ Counts(failed, b, u, old, retries[b][u], old, n)
          /\ Counts(failed, b, u, old, retries[b][u], AtMostRetries(n), n)
      BY <1>4, <2>1, <2>2, <2>3 DEF Counts
    <2>5. Tally(log1, b, u, old, n)
      BY <1>1, <1>4, <1>6, <2>4, OneMore
    <2>6. Tally(log1, b, u, AtMostRetries(n), n)
      BY <1>1, <1>4, <1>6, <2>4, OneMore
    <2> QED BY <2>5, <2>6
  <1>8. ~Exhausted(n) => Tally(log2, b, u, AtMostRetries(n), n)
    <2> SUFFICES ASSUME ~Exhausted(n) PROVE Tally(log2, b, u, AtMostRetries(n), n)
      OBVIOUS
    <2>1. n <= MaxRetries /\ old + 1 <= AtMostRetries(n)
      BY <1>1, <1>4 DEF Exhausted
    <2>2. retry # Spent(b, u)
      BY <1>5 DEF spent
    <2>3. retry # Failure(b, u)
      BY <1>5, KindsOfEntries DEF Failure
    <2>4. Counts(retry, b, u, old, n, AtMostRetries(n), n)
      BY <1>1, <1>4, <2>1, <2>2, <2>3 DEF Counts
    <2> QED BY <1>1, <1>2, <1>4, <1>7, <2>4, OneMore
  <1>9. Exhausted(n) => Tally(log3, b, u, 0, 0)
    <2> SUFFICES ASSUME Exhausted(n) PROVE Tally(log3, b, u, 0, 0)
      OBVIOUS
    <2>1. spent = Spent(b, u) /\ n > MaxRetries
      BY DEF spent, Exhausted
    <2>2. Counts(spent, b, u, AtMostRetries(n), n, 0, 0)
      BY <2>1 DEF Counts
    <2>3. 0 \in 0..MaxRetries /\ 0 \in Nat
      BY <1>1
    <2> QED BY <1>1, <1>2, <1>4, <1>7, <2>2, <2>3, OneMore
  <1>10. ASSUME NEW a \in Ids, NEW s \in TickSeqs, a # b \/ s # u
         PROVE  \A l \in {log1, log2, log3} : Tally(l, a, s, AtMostRetries(retries[a][s]), retries[a][s])
    <2>1. retries[a][s] \in Nat /\ Tally(audit, a, s, AtMostRetries(retries[a][s]), retries[a][s])
      BY <1>1 DEF Tallied, Counters
    <2>2. \A e \in {failed, retry, spent} :
            e # Spent(a, s) /\ e # Retry(a, s)
      BY <1>1, <1>10, EntriesOfTick DEF failed, retry, spent
    <2>3. Tally(log1, a, s, AtMostRetries(retries[a][s]), retries[a][s])
      BY <1>1, <2>1, <2>2, StaysTallied
    <2>4. Tally(log2, a, s, AtMostRetries(retries[a][s]), retries[a][s])
      BY <1>2, <2>1, <2>2, <2>3, StaysTallied
    <2>5. Tally(log3, a, s, AtMostRetries(retries[a][s]), retries[a][s])
      BY <1>2, <2>1, <2>2, <2>3, StaysTallied
    <2> QED BY <2>3, <2>4, <2>5
  <1>11. ASSUME NEW k \in Nat, NEW l \in {log1, log2, log3}, Tally(l, b, u, AtMostRetries(k), k)
         PROVE  Tallied(l, Count(k))
    <2>1. IsSequence(l)
      BY <1>2
    <2>2. ASSUME NEW a \in Ids, NEW s \in TickSeqs
          PROVE  Tally(l, a, s, AtMostRetries(Count(k)[a][s]), Count(k)[a][s])
      <3>1. CASE a = b /\ s = u
        <4>1. Count(k)[a][s] = k
          BY <1>3, <3>1
        <4> QED BY <1>11, <3>1, <4>1
      <3>2. CASE a # b \/ s # u
        <4>1. Count(k)[a][s] = retries[a][s]
          BY <1>3, <3>2
        <4> QED BY <1>10, <3>2, <4>1
      <3> QED BY <3>1, <3>2
    <2> QED BY <2>1, <2>2 DEF Tallied
  <1> DEFINE word == Escalation(b)
  <1>12. /\ audit \o <<failed>> = log1
         /\ audit \o <<failed, retry>> = log2
         /\ audit \o <<failed, spent>> = log3
         /\ audit \o Append(<<failed, spent>>, word) = Append(log3, word)
    BY <1>1, LogOneByOne
  <1>13. word.kind = "CHILD_FAILURE_ESCALATION"
    BY KindsOfEntries
  <1> HIDE DEF log1, log2, log3, word, Count
  <1>14. Tallied(log1, Count(n))
    BY <1>1, <1>7, <1>11
  <1>15. ~Exhausted(n) => Tallied(log2, Count(n))
    BY <1>1, <1>8, <1>11
  <1>16. Exhausted(n) => Tallied(log3, Count(0)) /\ Tallied(Append(log3, word), Count(0))
    <2> SUFFICES ASSUME Exhausted(n)
                 PROVE  Tallied(log3, Count(0)) /\ Tallied(Append(log3, word), Count(0))
      OBVIOUS
    <2>1. Tally(log3, b, u, AtMostRetries(0), 0)
      BY <1>4, <1>9
    <2>2. Tallied(log3, Count(0)) /\ Count(0) \in Counters
      BY <1>3, <1>11, <2>1
    <2> QED BY <1>13, <2>2, NeutralKeeps
  <1>17. \/ retries' = Count(n) /\ audit' = log1
         \/ ~Exhausted(n) /\ retries' = Count(n) /\ audit' = log2
         \/ Exhausted(n) /\ retries' = Count(0) /\ (audit' = log3 \/ audit' = Append(log3, word))
    BY <1>12 DEF Transient, Permanently, Log, n, failed, retry, spent, Spent, word, Count
  <1> QED BY <1>14, <1>15, <1>16, <1>17

\* What the other reactions log is about the tick, but no retry and no exhaustion.
LEMMA OthersTally ==
  ASSUME HInv, Tallied(audit, retries), retries' = retries, NEW b, NEW u,
         Permanent(b, u) \/ PolicyViolation(b, u) \/ Breach(b, u)
  PROVE  Tallied(audit', retries')
  <1> DEFINE Quietly == {Recorded(class, b, u) : class \in FailureClass}
             Words == {Note("POLICY_VIOLATION_HALT", b, u), Note("KERNEL_PANIC", b, u), Escalation(b)}
  <1>1. retries \in Counters /\ IsSequence(audit)
    BY DEF HInv, HandlerTyped, Counters, Tallied
  <1>2. \A e \in Quietly \cup Words :
          e.kind \notin {"TRANSIENT_RETRY_SCHEDULED", "TRANSIENT_EXHAUSTED"}
    BY KindsOfEntries
  <1>3. \E e \in Quietly, w \in Words :
          \/ audit' = audit \o <<e>>
          \/ audit' = audit \o <<e, w>> \/ audit' = audit \o Append(<<e>>, w)
    BY Zenon DEF Permanent, Permanently, PolicyViolation, Breach, Log, FailureClass
  <1> HIDE DEF Quietly, Words
  <1>4. PICK e \in Quietly, w \in Words :
          \/ audit' = audit \o <<e>>
          \/ audit' = audit \o <<e, w>> \/ audit' = audit \o Append(<<e>>, w)
    BY <1>3
  <1>5. audit' = Append(audit, e) \/ audit' = Append(Append(audit, e), w)
    BY <1>1, <1>4, LogOneByOne
  <1>6. Tallied(Append(audit, e), retries)
    BY <1>1, <1>2, NeutralKeeps
  <1>7. Tallied(Append(Append(audit, e), w), retries)
    BY <1>1, <1>2, <1>6, NeutralKeeps
  <1> QED BY <1>5, <1>6, <1>7

LEMMA TalliedHolds == Spec => []Tallied(audit, retries)
  <1>1. Init => Tallied(audit, retries)
    <2> SUFFICES ASSUME Init, NEW a \in Ids, NEW s \in TickSeqs
                 PROVE  Tally(<< >>, a, s, AtMostRetries(0), 0) /\ IsSequence(<< >>)
                        /\ retries[a][s] = 0 /\ audit = << >>
      BY DEF Init, Tallied, IsSequence
    <2>1. MaxRetries \in Nat /\ AtMostRetries(0) = 0
      BY FailureAssumption DEF AtMostRetries
    <2>2. \A k : \A j \in {0}, i \in {0, 1} : Some(<< >>, j, i, k) = {}
      BY DEF Some
    <2>3. ~From(<< >>, 1, a, s) /\ Len(<< >>) = 0
      BY DEF From
    <2>4. \A k : \A j \in {0}, i \in {0, 1} : Cardinality(Some(<< >>, j, i, k)) = 0
      BY <2>2, FS_EmptySet
    <2>5. Budget(<< >>, a, s)
      <3>1. \A j, i \in 0..(Len(<< >>) + 1) : j < i => j = 0 /\ i = 1
        BY <2>3
      <3> QED BY <2>1, <2>3, <2>4, <3>1 DEF Budget
    <2>6. \A j \in 0..Len(<< >>) : j = 0 /\ Len(<< >>) + 1 = 1
      BY <2>3
    <2>7. Tally(<< >>, a, s, AtMostRetries(0), 0)
      BY <2>1, <2>4, <2>5, <2>6 DEF Tally
    <2> QED BY <2>7 DEF Init, IsSequence
  <1>2. ASSUME HInv, Tallied(audit, retries), [Next]_vars
        PROVE  Tallied(audit, retries)'
    <2>1. CASE UNCHANGED <<audit, retries>>
      BY <1>2, <2>1
    <2>2. ASSUME NEW a \in Watched, NEW s \in TickSeqs, Transient(a, s)
          PROVE  Tallied(audit, retries)'
      BY <1>2, <2>2, TransientTallies
    <2>3. ASSUME NEW a \in Watched, NEW s \in TickSeqs,
                 Permanent(a, s) \/ PolicyViolation(a, s) \/ Breach(a, s)
          PROVE  Tallied(audit, retries)'
      <3>1. retries' = retries
        BY <2>3 DEF Permanent, PolicyViolation, Breach
      <3> QED BY <1>2, <2>3, <3>1, OthersTally
    <2> QED BY <1>2, <2>1, <2>2, <2>3, HaltIsBreach DEF Next, vars, handlerVars, HostMove
  <1> QED BY <1>1, <1>2, HandlerInvariance, PTL DEF Spec

\* handleTransient gives a tick up after its last retry and no sooner, whatever
\* appends are lost in between.
THEOREM RetriesBudgeted == Spec => []RetryBudget
  <1>1. Tallied(audit, retries) => RetryBudget
    <2> SUFFICES ASSUME Tallied(audit, retries),
                        NEW a \in Ids, NEW s \in TickSeqs,
                        NEW j \in 0..(Len(audit) + 1), NEW i \in 0..(Len(audit) + 1),
                        j < i, CountsFrom(j, a, s),
                        \A n \in (j + 1)..(i - 1) : ~IsExhausted(n, a, s)
                 PROVE  /\ Cardinality(Between(j, i, Retry(a, s))) <= MaxRetries
                        /\ CountsFrom(i, a, s) =>
                             Cardinality(Between(j, i, Failure(a, s))) > MaxRetries
      BY DEF RetryBudget, Retry, Failure
    <2>1. Budget(audit, a, s)
      BY DEF Tallied, Tally
    <2>2. \A n : CountsFrom(n, a, s) <=> From(audit, n, a, s)
      BY DEF CountsFrom, IsExhausted, From, Spent
    <2>3. Unbroken(audit, j, i, a, s)
      BY DEF IsExhausted, Unbroken, Spent
    <2>4. \A k : Between(j, i, k) = Some(audit, j, i, k)
      BY DEF Between, Some
    <2> QED BY <2>1, <2>2, <2>3, <2>4 DEF Budget
  <1> QED BY <1>1, TalliedHolds, PTL
=============================================================================
