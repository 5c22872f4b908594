----------------------------- MODULE Delegation -----------------------------
(***************************************************************************)
(* DelegationProtocol (delegation/protocol.ts): a tree of agents, each with*)
(* a token that says what it may do, how deep and until when it may        *)
(* delegate, and whether that was revoked.                                 *)
(*                                                                         *)
(* delegate() puts the child into the tree and then logs it; revoke() marks*)
(* a node, logs it and goes on to its children, depth first.  An append    *)
(* that throws leaves what was done before it: a child nobody was told of, *)
(* a cascade that stopped half way.  A refused request changes nothing.    *)
(***************************************************************************)
EXTENDS Integers, Sequences, Permissions

CONSTANTS
  Roots,                        \* agents that hosts pass to initRoot
  Children,                     \* ids that delegate hands out
  RootGrants,                   \* grants given to initRoot
  RequestGrants, RequestDepths, RequestTtls,    \* what requests may ask for
  RootDepth, Forever,           \* maxDepth and ttl of a root token
  MaxTime,                      \* bound of the model: the clock stops here
  null

Ids == Roots \cup Children

ASSUME DelegationAssumption ==
  /\ Roots \cap Children = {}
  /\ RootGrants \subseteq SUBSET Grant
  /\ RequestGrants \subseteq SUBSET Grant
  /\ RequestDepths \subseteq Int
  /\ RequestTtls \subseteq Nat
  /\ RootDepth \in Int
  /\ Forever \in Nat
  /\ MaxTime \in Nat \ {0}
  /\ null \notin Ids

Node == [parent : Ids \cup {null}, children : Seq(Ids), grants : SUBSET Grant,
         maxDepth : Int, ttl : Nat, revoked : BOOLEAN]

ASSUME NullIsNoNode == null \notin Node

VARIABLES
  now,          \* Date.now()
  nodes,        \* this.tree.nodes
  revokedLog    \* agents whose token has its DELEGATION_REVOKED entry

treeVars == <<now, nodes, revokedLog>>

DelegationTypeOK ==
  /\ now \in 1..MaxTime
  /\ nodes \in [Ids -> Node \cup {null}]
  /\ revokedLog \subseteq Ids

DelegationInit ==
  /\ now = 1
  /\ nodes = [a \in Ids |-> null]
  /\ revokedLog = {}

-----------------------------------------------------------------------------
Exists(a) == nodes[a] # null
Revoked(a) == Exists(a) /\ nodes[a].revoked

\* initRoot: a new node and a new token, whether or not there was one.
InitRoot(a, g) ==
  /\ nodes' = [nodes EXCEPT ![a] =
       [parent |-> null, children |-> << >>, grants |-> g,
        maxDepth |-> RootDepth, ttl |-> Forever, revoked |-> FALSE]]
  /\ revokedLog' = revokedLog \ {a}
  /\ UNCHANGED now

Expired(g) == g.notAfter # 0 /\ g.notAfter < now

\* Mutant: a grant without expiry fits under one that expires.
CoversUntimed(sup, sub) ==
  /\ sup.action \in {"*", sub.action}
  /\ sup.resource \in {"*", sub.resource}
  /\ sup.notAfter = 0 \/ sub.notAfter <= sup.notAfter

Covers(sup, sub) ==
  /\ sup.action \in {"*", sub.action}
  /\ sup.resource \in {"*", sub.resource}
  /\ sup.notAfter = 0 \/ (sub.notAfter # 0 /\ sub.notAfter <= sup.notAfter)

isSubset(subset, superset) ==
  \A sub \in subset :
    /\ ~Expired(sub)
    /\ \E sup \in superset : ~Expired(sup) /\ Covers(sup, sub)

\* Mutant: the depth may stay the same.
MayDelegateAsDeep(p, g, d, t) ==
  /\ Exists(p) /\ ~nodes[p].revoked
  /\ now <= nodes[p].ttl
  /\ isSubset(g, nodes[p].grants)
  /\ d <= nodes[p].maxDepth
  /\ t <= nodes[p].ttl

\* The checks of delegate, in its order.
MayDelegate(p, g, d, t) ==
  /\ Exists(p) /\ ~nodes[p].revoked
  /\ now <= nodes[p].ttl
  /\ isSubset(g, nodes[p].grants)
  /\ d < nodes[p].maxDepth
  /\ t <= nodes[p].ttl

\* delegate: the new child c is in the tree whether or not its DELEGATION_ISSUED
\* entry can be appended.
Delegate(p, c, g, d, t) ==
  /\ MayDelegate(p, g, d, t)
  /\ ~Exists(c)
  /\ nodes' = [nodes EXCEPT
       ![p].children = Append(@, c),
       ![c] = [parent |-> p, children |-> << >>, grants |-> g,
               maxDepth |-> d, ttl |-> t, revoked |-> FALSE]]
  /\ UNCHANGED <<now, revokedLog>>

-----------------------------------------------------------------------------
\* S holds a, and with a node all the children revoke would go on to.
Cascades(S, a) ==
  /\ a \in S
  /\ \A m \in S \cap Ids : Exists(m) =>
       \A i \in DOMAIN nodes[m].children :
         LET c == nodes[m].children[i] IN Exists(c) /\ ~nodes[c].revoked => c \in S

\* The nodes that revoke(a) marks when every append succeeds.
Cascade(a) == {m \in Ids : \A S \in SUBSET Ids : Cascades(S, a) => m \in S}

\* In the cascade from a, m is marked before x or is x: an ancestor of it, or
\* under an earlier child of a common one.
Before(a, m, x) ==
  \/ x \in Cascade(m)
  \/ \E p \in Cascade(a) : \E i, j \in DOMAIN nodes[p].children :
       LET c == nodes[p].children[i]
           e == nodes[p].children[j]
       IN /\ i < j
          /\ ~Revoked(c) /\ m \in Cascade(c)
          /\ ~Revoked(e) /\ x \in Cascade(e)

Mark(S) ==
  nodes' = [a \in Ids |-> IF a \in S THEN [nodes[a] EXCEPT !.revoked = TRUE] ELSE nodes[a]]

CanRevoke(a) == Exists(a) /\ ~nodes[a].revoked

\* Mutant: only the children, not theirs.
RevokeShallow(a) ==
  /\ CanRevoke(a)
  /\ LET S == {a} \cup {m \in Ids : Exists(m) /\ nodes[m].parent = a}
     IN Mark(S) /\ revokedLog' = revokedLog \cup S
  /\ UNCHANGED now

Revoke(a) ==
  /\ CanRevoke(a)
  /\ Mark(Cascade(a))
  /\ revokedLog' = revokedLog \cup Cascade(a)
  /\ UNCHANGED now

\* Mutant: a node is logged before it is marked.
RevokeCutLogged(a, x) ==
  /\ CanRevoke(a)
  /\ x \in Cascade(a)
  /\ LET S == {m \in Cascade(a) : Before(a, m, x)} \ {x}
     IN Mark(S) /\ revokedLog' = revokedLog \cup S \cup {x}
  /\ UNCHANGED now

\* The append for x throws: x is marked, nothing after it is, and the
\* exception leaves every level of the recursion.
RevokeCut(a, x) ==
  /\ CanRevoke(a)
  /\ x \in Cascade(a)
  /\ LET S == {m \in Cascade(a) : Before(a, m, x)}
     IN Mark(S) /\ revokedLog' = revokedLog \cup (S \ {x})
  /\ UNCHANGED now

Advance == now < MaxTime /\ now' = now + 1 /\ UNCHANGED <<nodes, revokedLog>>

DelegationNext ==
  \/ \E a \in Roots, g \in RootGrants : InitRoot(a, g)
  \/ \E p \in Ids, c \in Children :
       \E g \in RequestGrants, d \in RequestDepths, t \in RequestTtls : Delegate(p, c, g, d, t)
  \/ \E a \in Ids : Revoke(a) \/ \E x \in Ids : RevokeCut(a, x)
  \/ Advance

DelegationSpec == DelegationInit /\ [][DelegationNext]_treeVars

-----------------------------------------------------------------------------
\* p lists c among its children.
Lists(p, c) == Exists(p) /\ \E i \in DOMAIN nodes[p].children : nodes[p].children[i] = c

\* The nodes that can be reached from a over lists of children.
Subtree(a) ==
  {m \in Ids : \A S \in SUBSET Ids :
     a \in S /\ (\A p \in S, c \in Ids : Lists(p, c) => c \in S) => m \in S}

\* INV-08: every node has one parent, which is the node that lists it, and may
\* delegate less deep and no longer than it.  As depths decrease, there is no
\* cycle.  Holds for roots that are initialised again and leave orphans behind.
TreeIsForest ==
  \A p, c \in Ids : Lists(p, c) =>
    /\ Exists(c) /\ nodes[c].parent = p
    /\ nodes[c].maxDepth < nodes[p].maxDepth
    /\ nodes[c].ttl <= nodes[p].ttl

\* INV-06, not only at the moment of delegation and for what PermissionModel makes
\* of the grants: nothing is ever allowed to a child that is not allowed to its
\* parent at the same time.
AuthorityShrinks ==
  \A p, c \in Ids : Lists(p, c) =>
    \A t \in 1..MaxTime, action \in Actions, resource \in Resources :
      Allows(nodes[c].grants, action, resource, t) =>
        Allows(nodes[p].grants, action, resource, t)

\* Every token that was revoked can be found in the log.
RevocationsAreLogged == \A a \in Ids : Revoked(a) => a \in revokedLog

\* Revocation is deep, or the log shows that it is not: as long as every revoked
\* token is logged, so is the revocation of all that was delegated from it.
RevocationIsDeep ==
  RevocationsAreLogged => \A p, c \in Ids : Lists(p, c) /\ Revoked(p) => Revoked(c)

\* INV-13, for the whole chain although the code looks at the parent only: a
\* child only comes into being if no ancestor of its parent is revoked.
RevokedSubtreesAreFrozen ==
  [][RevocationsAreLogged =>
       \A a, p, c \in Ids :
         Revoked(a) /\ p \in Subtree(a) /\ Lists(p, c)' => Lists(p, c)]_treeVars
=============================================================================
