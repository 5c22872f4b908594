---------------------------- MODULE MemoryProofs ----------------------------
(***************************************************************************)
(* Proofs about the stores of the kernels and the log they share, for every*)
(* set of kernels, agents and cells: memory is what the log says of it,    *)
(* accesses were allowed, scratch memory is its tick's own.                *)
(*                                                                         *)
(* All but the scratch memory rests on the log (LogOK): rows are numbered  *)
(* from one and never change, so a step either leaves it alone or puts one *)
(* row behind it, and what earlier rows say of a store stays said.         *)
(***************************************************************************)
EXTENDS Memory, WellFoundedInduction, TLAPS

AccessActions == {"read", "write"}
TableKinds == {"MEMORY_PERSISTENT_WRITE", "MEMORY_PERSISTENT_DELETE"}

RowSteps ==
  [step : {"row"}, cell : Cells, value : Values \cup {absent}, busSeq : Nat]
AccessSteps ==
  [step : {"access"}, agent : Callers, action : AccessActions, cell : SharedCells,
   value : SharedValues \cup {absent}]

Changes ==
  [kind : TableKinds, store : {"local", "table"}, cell : Cells, value : Values \cup {absent}]
Evaluations ==
  [kind : {"PERMISSION_EVALUATION"}, agent : Callers, action : AccessActions,
   resource : Resources, result : Answers]
Accesses ==
  [kind : {"MEMORY_SHARED_READ", "MEMORY_SHARED_WRITE"}, agent : Callers, cell : SharedCells,
   value : SharedValues \cup {absent}]

Data == Changes \cup Evaluations \cup Accesses
AuditRow == [busSeq : Nat, by : Kernels, data : Data]

\* The shape of the log, and what a kernel may be in the middle of.
LogOK ==
  /\ audit \in Seq(AuditRow)
  /\ \A i \in DOMAIN audit : audit[i].busSeq = i
  /\ since \in [Kernels -> Nat]
  /\ \A k \in Kernels : since[k] <= Len(audit)
  /\ doing \in [Kernels -> {Down, Ready} \cup RowSteps \cup AccessSteps]

-----------------------------------------------------------------------------
\* Verdicts.

LEMMA AnAnswerStopsFirst ==
  ASSUME NEW answers \in Seq(Answers), NEW i \in DOMAIN answers,
         answers[i] \in {"DENY", "THROW"}
  PROVE  \E m \in DOMAIN answers : /\ answers[m] \in {"DENY", "THROW"}
                                   /\ \A j \in 1..(m - 1) : answers[j] \notin {"DENY", "THROW"}
  <1> DEFINE T == {m \in DOMAIN answers : answers[m] \in {"DENY", "THROW"}}
  <1>1. T # {} /\ T \subseteq Nat
    OBVIOUS
  <1>2. PICK m \in T : \A y \in T : ~(<<y, m>> \in OpToRel(<, Nat))
    BY <1>1, WFMin, NatLessThanWellFounded
  <1>3. \A y \in T : ~(y < m)
    BY <1>1, <1>2 DEF OpToRel
  <1> QED BY <1>3

\* What evaluate says is an answer.
LEMMA VerdictIsAnswer ==
  ASSUME NEW allowed \in BOOLEAN, NEW answers \in Seq(Answers)
  PROVE  Verdict(allowed, answers) \in Answers
  <1> DEFINE Stops(i) == answers[i] \in {"DENY", "THROW"}
             First(m) == Stops(m) /\ \A j \in 1..(m - 1) : ~Stops(j)
  <1>1. CASE ~allowed
    BY <1>1 DEF Verdict, Answers
  <1>2. CASE allowed /\ \E i \in DOMAIN answers : Stops(i)
    <2>1. \E m \in DOMAIN answers : First(m)
      BY <1>2, AnAnswerStopsFirst
    <2> DEFINE m == CHOOSE m \in DOMAIN answers : First(m)
    <2>2. m \in DOMAIN answers
      BY <2>1
    <2>3. Verdict(allowed, answers) = answers[m]
      BY <1>2 DEF Verdict
    <2> QED BY <2>2, <2>3
  <1>3. CASE allowed /\ ~\E i \in DOMAIN answers : Stops(i)
    BY <1>3 DEF Verdict, Answers
  <1> QED BY <1>1, <1>2, <1>3

\* PermissionModel.evaluate allows what some grant allows and no policy, asked in
\* any place of the list, objects to.
THEOREM AllowIsUnanimous ==
  ASSUME NEW allowed \in BOOLEAN, NEW answers \in Seq(Answers)
  PROVE  Verdict(allowed, answers) = "ALLOW" <=>
           allowed /\ \A i \in DOMAIN answers : answers[i] = "ALLOW"
  <1> DEFINE Stops(i) == answers[i] \in {"DENY", "THROW"}
             First(m) == Stops(m) /\ \A j \in 1..(m - 1) : ~Stops(j)
  <1>1. CASE ~allowed
    BY <1>1 DEF Verdict
  <1>2. CASE allowed /\ \E i \in DOMAIN answers : Stops(i)
    <2>1. \E m \in DOMAIN answers : First(m)
      BY <1>2, AnAnswerStopsFirst
    <2> DEFINE m == CHOOSE m \in DOMAIN answers : First(m)
    <2>2. m \in DOMAIN answers /\ Stops(m)
      BY <2>1
    <2>3. Verdict(allowed, answers) = answers[m]
      BY <1>2 DEF Verdict
    <2> QED BY <1>2, <2>2, <2>3
  <1>3. CASE allowed /\ ~\E i \in DOMAIN answers : Stops(i)
    <2>1. \A i \in DOMAIN answers : answers[i] \in {"ALLOW", "ESCALATE"}
      BY <1>3 DEF Answers
    <2>2. Verdict(allowed, answers) =
            IF \E i \in DOMAIN answers : answers[i] = "ESCALATE" THEN "ESCALATE" ELSE "ALLOW"
      BY <1>3 DEF Verdict
    <2> QED BY <1>3, <2>1, <2>2
  <1> QED BY <1>1, <1>2, <1>3

-----------------------------------------------------------------------------
\* The log.

LEMMA ChangeIsData ==
  ASSUME NEW w \in {"local", "table"}, NEW c \in Cells, NEW v \in Values \cup {absent}
  PROVE  Change(w, c, v) \in Changes /\ Change(w, c, v).store = w
  BY DEF Change, Changes, TableKinds

LEMMA NextRow ==
  ASSUME LogOK, NEW k \in Kernels
  PROVE  RowId(k) = Len(audit) + 1
  BY DEF LogOK, RowId, AuditRow

\* What is left of the log by an entry: it comes behind the others, under the
\* next number.
IsBehind(k, d) ==
  /\ Len(audit) \in Nat /\ DOMAIN audit = 1..Len(audit)
  /\ Len(audit') = Len(audit) + 1 /\ DOMAIN audit' = 1..(Len(audit) + 1)
  /\ audit'[Len(audit) + 1] = [busSeq |-> Len(audit) + 1, by |-> k, data |-> d]
  /\ \A i \in DOMAIN audit : i \in DOMAIN audit' /\ audit'[i] = audit[i]

LEMMA Inserted ==
  ASSUME LogOK, NEW k \in Kernels, NEW d \in Data, Insert(k, d)
  PROVE  /\ audit' \in Seq(AuditRow)
         /\ IsBehind(k, d)
         /\ \A i \in DOMAIN audit' : audit'[i].busSeq = i
  <1> DEFINE row == [busSeq |-> Len(audit) + 1, by |-> k, data |-> d]
  <1>0. audit \in Seq(AuditRow) /\ Len(audit) \in Nat /\ DOMAIN audit = 1..Len(audit)
    BY DEF LogOK
  <1>1. audit' = Append(audit, row)
    BY NextRow DEF Insert
  <1>2. row \in AuditRow
    BY <1>0 DEF AuditRow
  <1> HIDE DEF row
  <1>3. /\ audit' \in Seq(AuditRow) /\ Len(audit') = Len(audit) + 1
        /\ DOMAIN audit' = 1..(Len(audit) + 1)
        /\ audit'[Len(audit) + 1] = row
        /\ \A i \in DOMAIN audit : i \in DOMAIN audit' /\ audit'[i] = audit[i]
    BY <1>0, <1>1, <1>2
  <1>4. \A i \in DOMAIN audit' : i \in DOMAIN audit \/ i = Len(audit) + 1
    BY <1>0, <1>3
  <1>5. \A i \in DOMAIN audit' : audit'[i].busSeq = i
    BY <1>3, <1>4 DEF LogOK, row
  <1> QED BY <1>0, <1>3, <1>5 DEF row, IsBehind

\* A call that goes on keeps the log.
LEMMA DoesKeepsLog ==
  ASSUME LogOK, NEW k \in Kernels, UNCHANGED <<audit, since>>,
         NEW what \in {Down, Ready} \cup RowSteps \cup AccessSteps, Does(k, what)
  PROVE  LogOK'
  BY DEF LogOK, Does

LEMMA EntryKeepsLog ==
  ASSUME LogOK, NEW k \in Kernels, NEW d \in Data, Insert(k, d), UNCHANGED since,
         NEW what \in {Down, Ready} \cup RowSteps \cup AccessSteps,
         Does(k, what) \/ UNCHANGED doing
  PROVE  LogOK'
  <1>1. doing' \in [Kernels -> {Down, Ready} \cup RowSteps \cup AccessSteps]
    BY DEF LogOK, Does
  <1>2. \A j \in Kernels : since[j] <= Len(audit) + 1
    BY DEF LogOK
  <1>3. /\ audit' \in Seq(AuditRow) /\ IsBehind(k, d)
        /\ \A i \in DOMAIN audit' : audit'[i].busSeq = i
    BY Inserted
  <1> QED BY <1>1, <1>2, <1>3 DEF LogOK, IsBehind

\* What a kernel does, by the kind of its step.
LEMMA StepsTold ==
  ASSUME LogOK, NEW k \in Kernels
  PROVE  /\ Changing(k) <=> doing[k] \in RowSteps
         /\ Accessing(k) <=> doing[k] \in AccessSteps
  BY DEF LogOK, Changing, Accessing, RowSteps, AccessSteps, Down, Ready

LEMMA EvaluationIsData ==
  ASSUME NEW a \in Callers, NEW c \in SharedCells, NEW r \in Requests, NEW t \in Times,
         NEW grants \in GrantLists, NEW answers \in PolicyAnswers
  PROVE  Evaluation(a, r.action, c, Verdict(Allows(grants, r.action, resourceOf[c], t), answers))
           \in Evaluations
  <1>1. Verdict(Allows(grants, r.action, resourceOf[c], t), answers) \in Answers
    <2>1. Allows(grants, r.action, resourceOf[c], t) \in BOOLEAN
      BY DEF Allows
    <2>2. answers \in Seq(Answers)
      BY SharedAssumption
    <2> QED BY <2>1, <2>2, VerdictIsAnswer
  <1>2. r.action \in AccessActions
    BY DEF Requests, AccessActions
  <1>3. resourceOf[c] \in Resources
    BY SharedAssumption
  <1> QED BY <1>1, <1>2, <1>3 DEF Evaluation, Evaluations

LEMMA RestIsAStep ==
  ASSUME NEW k, NEW a \in Callers, NEW c \in SharedCells, NEW r \in Requests
  PROVE  /\ Rest(k, a, r.action, c, r.value) \in {Ready} \cup AccessSteps
         /\ Rest(k, a, r.action, c, r.value) # Ready =>
              Rest(k, a, r.action, c, r.value) =
                [step |-> "access", agent |-> a, action |-> r.action, cell |-> c,
                 value |-> r.value]
  <1>1. r.action \in AccessActions /\ r.value \in SharedValues \cup {absent}
    BY DEF Requests, AccessActions
  <1> QED BY <1>1 DEF Rest, AccessSteps, Ready

LEMMA AccessIsData ==
  ASSUME LogOK, NEW k \in Kernels, Accessing(k)
  PROVE  [kind |-> AccessKind(doing[k].action), agent |-> doing[k].agent,
          cell |-> doing[k].cell, value |-> doing[k].value] \in Accesses
  BY StepsTold DEF AccessSteps, Accesses, AccessKind, AccessActions

LEMMA LogStep ==
  ASSUME LogOK, NEW k \in Kernels,
         \/ LocalStep(k) \/ TableStep(k) \/ SharedStep(k) \/ ScratchStep(k)
         \/ Kill(k) \/ Start(k)
  PROVE  LogOK'
<1>0. LogOK /\ Ready \in {Down, Ready} /\ Down \in {Down, Ready}
  OBVIOUS
<1>1. CASE LocalStep(k)
  <2>1. PICK c \in Cells, v \in Values \cup {absent} : Put(k, c, v)
    BY <1>1 DEF LocalStep
  <2>2. Change("local", c, v) \in Data
    BY ChangeIsData DEF Data
  <2> QED BY <2>1, <2>2, EntryKeepsLog, <1>0 DEF Put
<1>2. CASE TableStep(k)
  <2>1. CASE \E c \in Cells, v \in Values \cup {absent} : WriteAhead(k, c, v)
    <3>1. PICK c \in Cells, v \in Values \cup {absent} : WriteAhead(k, c, v)
      BY <2>1
    <3>2. Change("table", c, v) \in Data
      BY ChangeIsData DEF Data
    <3>3. [step |-> "row", cell |-> c, value |-> v, busSeq |-> RowId(k)] \in RowSteps
      BY NextRow DEF RowSteps, LogOK
    <3> QED BY <3>1, <3>2, <3>3, EntryKeepsLog DEF WriteAhead
  <2>2. CASE Apply(k) \/ ApplyThrows(k) \/ ApplyAndDie(k)
    BY <2>2, <1>0, DoesKeepsLog DEF Apply, ApplyThrows, ApplyAndDie
  <2> QED BY <1>2, <2>1, <2>2 DEF TableStep
<1>3. CASE SharedStep(k)
  <2>1. CASE \E a \in Callers, c \in SharedCells : Evaluate(k, a, c)
    <3>1. PICK a \in Callers, c \in SharedCells : Evaluate(k, a, c)
      BY <2>1
    <3>2. PICK r \in Requests, t \in Times, grants \in GrantLists, answers \in PolicyAnswers :
            LET verdict == Verdict(Allows(grants, r.action, resourceOf[c], t), answers)
            IN /\ Insert(k, Evaluation(a, r.action, c, verdict))
               /\ Does(k, IF Permitted(verdict) THEN Rest(k, a, r.action, c, r.value)
                                                 ELSE Ready)
      BY <3>1 DEF Evaluate
    <3> DEFINE verdict == Verdict(Allows(grants, r.action, resourceOf[c], t), answers)
               next == IF Permitted(verdict) THEN Rest(k, a, r.action, c, r.value) ELSE Ready
    <3>3. Evaluation(a, r.action, c, verdict) \in Data
      BY EvaluationIsData DEF Data
    <3>4. next \in {Down, Ready} \cup RowSteps \cup AccessSteps
      BY RestIsAStep
    <3>5. Insert(k, Evaluation(a, r.action, c, verdict)) /\ Does(k, next) /\ UNCHANGED since
      BY <3>1, <3>2 DEF Evaluate
    <3> HIDE DEF verdict, next
    <3> QED BY <3>3, <3>4, <3>5, EntryKeepsLog
  <2>2. CASE Access(k)
    BY <2>2, <1>0, AccessIsData, EntryKeepsLog DEF Access, LogAccess, Data
  <2>3. CASE AccessNotLogged(k)
    BY <2>3, <1>0, DoesKeepsLog DEF AccessNotLogged
  <2> QED BY <1>3, <2>1, <2>2, <2>3 DEF SharedStep
<1>4. CASE ScratchStep(k)
  BY <1>4 DEF ScratchStep, logVars, LogOK
<1>5. CASE Kill(k)
  BY <1>5, <1>0, DoesKeepsLog DEF Kill
<1>6. CASE Start(k)
  <2>1. since' \in [Kernels -> Nat] /\ \A j \in Kernels : since'[j] <= Len(audit)
    BY <1>6 DEF Start, Boot, LogOK
  <2>2. doing' \in [Kernels -> {Down, Ready} \cup RowSteps \cup AccessSteps]
    BY <1>6 DEF Start, Boot, Does, LogOK
  <2> QED BY <1>6, <2>1, <2>2 DEF Start, Boot, LogOK
<1> QED BY <1>1, <1>2, <1>3, <1>4, <1>5, <1>6

-----------------------------------------------------------------------------
\* Accesses of shared memory.

\* The last that k logged is that what it is about to do was allowed.
AccessBacked(k) ==
  Accessing(k) =>
    \E h \in DOMAIN audit :
      /\ audit[h].by = k /\ \A j \in (h + 1)..Len(audit) : audit[j].by # k
      /\ audit[h].data = Evaluation(doing[k].agent, doing[k].action, doing[k].cell, "ALLOW")

AccessOK == AccessesAreAllowed /\ \A k \in Kernels : AccessBacked(k)

\* What others log does not part a kernel from its last entry.
LEMMA BackedByOwn ==
  ASSUME LogOK, NEW k \in Kernels, AccessBacked(k), doing'[k] = doing[k],
         \/ UNCHANGED audit
         \/ \E j \in Kernels \ {k}, d \in Data : Insert(j, d)
  PROVE  AccessBacked(k)'
<1> SUFFICES ASSUME Accessing(k)'
             PROVE  \E h \in DOMAIN audit' :
                      /\ audit'[h].by = k /\ \A j \in (h + 1)..Len(audit') : audit'[j].by # k
                      /\ audit'[h].data =
                           Evaluation(doing[k].agent, doing[k].action, doing[k].cell, "ALLOW")
  BY DEF AccessBacked, Evaluation
<1>1. PICK h \in DOMAIN audit :
        /\ audit[h].by = k /\ \A j \in (h + 1)..Len(audit) : audit[j].by # k
        /\ audit[h].data = Evaluation(doing[k].agent, doing[k].action, doing[k].cell, "ALLOW")
  BY DEF AccessBacked, Accessing
<1>2. CASE UNCHANGED audit
  BY <1>1, <1>2
<1>3. CASE \E j \in Kernels \ {k}, d \in Data : Insert(j, d)
  <2>1. PICK j \in Kernels \ {k}, d \in Data : Insert(j, d)
    BY <1>3
  <2>0. /\ Len(audit) \in Nat /\ DOMAIN audit = 1..Len(audit)
        /\ Len(audit') = Len(audit) + 1
        /\ audit'[Len(audit) + 1].by = j
        /\ \A i \in DOMAIN audit : i \in DOMAIN audit' /\ audit'[i] = audit[i]
    <3>1. IsBehind(j, d)
      BY <2>1, Inserted
    <3> QED BY <3>1 DEF IsBehind
  <2>2. audit'[h] = audit[h] /\ h \in DOMAIN audit'
    BY <1>1, <2>0
  <2>3. ASSUME NEW i \in (h + 1)..Len(audit')  PROVE audit'[i].by # k
    <3>1. CASE i = Len(audit) + 1
      BY <3>1, <2>0
    <3>2. CASE i # Len(audit) + 1
      <4>1. i \in DOMAIN audit /\ i \in (h + 1)..Len(audit)
        BY <3>2, <2>0, <1>1
      <4> QED BY <4>1, <2>0, <1>1
    <3> QED BY <3>1, <3>2
  <2> QED BY <2>2, <2>3, <1>1
<1> QED BY <1>2, <1>3

\* AccessesAreAllowed, of any log.
AllowedBy(log, h, i, action) ==
  /\ h < i /\ log[h].by = log[i].by
  /\ \A j \in (h + 1)..(i - 1) : log[j].by # log[i].by
  /\ log[h].data = Evaluation(log[i].data.agent, action, log[i].data.cell, "ALLOW")

LEMMA AllowedByLog ==
  /\ AccessesAreAllowed <=>
       \A i \in DOMAIN audit, action \in {"read", "write"} :
         audit[i].data.kind = AccessKind(action) =>
           \E h \in DOMAIN audit : AllowedBy(audit, h, i, action)
  /\ AccessesAreAllowed' <=>
       \A i \in DOMAIN audit', action \in {"read", "write"} :
         audit'[i].data.kind = AccessKind(action) =>
           \E h \in DOMAIN audit' : AllowedBy(audit', h, i, action)
  BY DEF AccessesAreAllowed, Precedes, AllowedBy

\* Accesses stay allowed when an entry comes that is none, or that was allowed
\* to its agent the moment before.
LEMMA EntryKeepsAllowed ==
  ASSUME LogOK, AccessesAreAllowed, NEW k \in Kernels, NEW d \in Data, Insert(k, d),
         \A action \in AccessActions : d.kind = AccessKind(action) =>
           \E h \in DOMAIN audit :
             /\ audit[h].by = k /\ \A j \in (h + 1)..Len(audit) : audit[j].by # k
             /\ audit[h].data = Evaluation(d.agent, action, d.cell, "ALLOW")
  PROVE  AccessesAreAllowed'
<1>1. SUFFICES ASSUME NEW i \in DOMAIN audit', NEW action \in {"read", "write"},
                      audit'[i].data.kind = AccessKind(action)
               PROVE  \E h \in DOMAIN audit' : AllowedBy(audit', h, i, action)
  BY AllowedByLog
<1>0. /\ Len(audit) \in Nat /\ DOMAIN audit = 1..Len(audit)
      /\ DOMAIN audit' = 1..(Len(audit) + 1)
      /\ audit'[Len(audit) + 1].data = d /\ audit'[Len(audit) + 1].by = k
      /\ \A n \in DOMAIN audit : n \in DOMAIN audit' /\ audit'[n] = audit[n]
  <2>1. IsBehind(k, d)
    BY Inserted
  <2> QED BY <2>1 DEF IsBehind
<1>2. CASE i \in DOMAIN audit
  <2>1. audit'[i] = audit[i]
    BY <1>0, <1>2
  <2>2. PICK h \in DOMAIN audit : AllowedBy(audit, h, i, action)
    BY <1>1, <1>2, <2>1, AllowedByLog
  <2>3. \A j \in 1..i : audit'[j] = audit[j]
    BY <1>0, <1>2
  <2>4. h \in 1..i /\ h \in DOMAIN audit'
    BY <1>0, <1>2, <2>2 DEF AllowedBy
  <2>5. \A j \in (h + 1)..(i - 1) : audit'[j].by # audit'[i].by
    BY <1>0, <1>2, <2>1, <2>2, <2>3 DEF AllowedBy
  <2>6. AllowedBy(audit', h, i, action)
    BY <2>1, <2>2, <2>3, <2>4, <2>5 DEF AllowedBy
  <2> QED BY <2>4, <2>6
<1>3. CASE i = Len(audit) + 1
  <2>1. audit'[i].data = d /\ audit'[i].by = k
    BY <1>0, <1>3
  <2>2. PICK h \in DOMAIN audit :
          /\ audit[h].by = k /\ \A j \in (h + 1)..Len(audit) : audit[j].by # k
          /\ audit[h].data = Evaluation(d.agent, action, d.cell, "ALLOW")
    BY <1>1, <2>1 DEF AccessActions
  <2>3. \A j \in (h + 1)..(i - 1) : audit'[j].by # k
    BY <1>0, <1>3, <2>2
  <2>4. h < i /\ h \in DOMAIN audit' /\ audit'[h] = audit[h]
    BY <1>0, <1>3, <2>2
  <2> QED BY <2>1, <2>2, <2>3, <2>4 DEF AllowedBy
<1> QED BY <1>0, <1>2, <1>3

\* It is enough to look at the kernel that moves.
LEMMA OthersStayBacked ==
  ASSUME LogOK, AccessOK, NEW k \in Kernels, NEW what, Does(k, what),
         UNCHANGED audit \/ \E d \in Data : Insert(k, d),
         AccessesAreAllowed', AccessBacked(k)'
  PROVE  AccessOK'
<1>1. ASSUME NEW j \in Kernels, j # k  PROVE AccessBacked(j)'
  <2>1. doing'[j] = doing[j]
    BY <1>1 DEF Does, LogOK
  <2>2. AccessBacked(j)
    BY DEF AccessOK
  <2>3. UNCHANGED audit \/ \E i \in Kernels \ {j}, d \in Data : Insert(i, d)
    BY <1>1
  <2> QED BY <2>1, <2>2, <2>3, BackedByOwn
<1> QED
  BY <1>1 DEF AccessOK

LEMMA AllowedUnlessLogged ==
  ASSUME AccessesAreAllowed, UNCHANGED audit
  PROVE  AccessesAreAllowed'
  BY AllowedByLog

\* A kernel that is about to do nothing has nothing to back.
LEMMA NothingToBack ==
  ASSUME LogOK, NEW k \in Kernels, NEW what, Does(k, what), what.step # "access"
  PROVE  AccessBacked(k)'
  BY DEF AccessBacked, Accessing, Does, LogOK

LEMMA IdleStaysReady ==
  ASSUME LogOK, NEW k \in Kernels, Idle(k), UNCHANGED doing
  PROVE  Does(k, Ready)
  BY DEF LogOK, Idle, Does

LEMMA QuietStep ==
  ASSUME LogOK, AccessOK, NEW k \in Kernels, NEW what, Does(k, what),
         what.step # "access", UNCHANGED audit \/ \E d \in Changes : Insert(k, d)
  PROVE  AccessOK'
<1>1. AccessesAreAllowed'
  <2>1. CASE UNCHANGED audit
    BY <2>1, AllowedUnlessLogged DEF AccessOK
  <2>2. CASE \E d \in Changes : Insert(k, d)
    <3>1. PICK d \in Changes : Insert(k, d)
      BY <2>2
    <3>2. d \in Data /\ d.kind \notin {AccessKind(action) : action \in AccessActions}
      BY DEF Data, Changes, TableKinds, AccessKind, AccessActions
    <3> QED BY <3>1, <3>2, EntryKeepsAllowed DEF AccessOK
  <2> QED BY <2>1, <2>2
<1>2. AccessBacked(k)'
  BY NothingToBack
<1>3. UNCHANGED audit \/ \E d \in Data : Insert(k, d)
  BY DEF Data
<1> QED
  BY <1>1, <1>2, <1>3, OthersStayBacked

LEMMA EvaluateKeepsAccess ==
  ASSUME LogOK, AccessOK, NEW k \in Kernels, NEW a \in Callers, NEW c \in SharedCells,
         Evaluate(k, a, c)
  PROVE  AccessOK'
<1>1. PICK r \in Requests, t \in Times, grants \in GrantLists, answers \in PolicyAnswers :
        LET verdict == Verdict(Allows(grants, r.action, resourceOf[c], t), answers)
        IN /\ Insert(k, Evaluation(a, r.action, c, verdict))
           /\ Does(k, IF Permitted(verdict) THEN Rest(k, a, r.action, c, r.value) ELSE Ready)
  BY DEF Evaluate
<1> DEFINE verdict == Verdict(Allows(grants, r.action, resourceOf[c], t), answers)
           next == IF Permitted(verdict) THEN Rest(k, a, r.action, c, r.value) ELSE Ready
           d == Evaluation(a, r.action, c, verdict)
<1>2. d \in Evaluations
  BY EvaluationIsData
<1>3. next # Ready => /\ verdict = "ALLOW"
                      /\ next = [step |-> "access", agent |-> a, action |-> r.action,
                                 cell |-> c, value |-> r.value]
  BY RestIsAStep DEF Permitted
<1>4. Insert(k, d) /\ Does(k, next)
  BY <1>1
<1>5. next # Ready => d = Evaluation(next.agent, next.action, next.cell, "ALLOW")
  BY <1>3
<1> HIDE DEF verdict, next, d
<1>6. AccessesAreAllowed'
  <2>1. d \in Data /\ d.kind \notin {AccessKind(action) : action \in AccessActions}
    BY <1>2 DEF Data, Evaluations, AccessKind, AccessActions
  <2> QED BY <1>4, <2>1, EntryKeepsAllowed DEF AccessOK
<1>7. AccessBacked(k)'
  <2>1. CASE next = Ready
    <3>1. next.step # "access"
      BY <2>1 DEF Ready
    <3> QED BY <3>1, <1>4, NothingToBack
  <2>2. CASE next # Ready
    <3>1. IsBehind(k, d)
      BY <1>2, <1>4, Inserted DEF Data
    <3>2. doing'[k] = next
      BY <1>4 DEF Does, LogOK
    <3>3. /\ Len(audit') \in DOMAIN audit'
          /\ audit'[Len(audit')].by = k
          /\ audit'[Len(audit')].data = Evaluation(next.agent, next.action, next.cell, "ALLOW")
          /\ \A j \in (Len(audit') + 1)..Len(audit') : audit'[j].by # k
      BY <3>1, <2>2, <1>5 DEF IsBehind
    <3> QED BY <3>2, <3>3 DEF AccessBacked, Evaluation
  <2> QED BY <2>1, <2>2
<1>8. \E e \in Data : Insert(k, e)
  BY <1>2, <1>4 DEF Data
<1> QED
  BY <1>4, <1>6, <1>7, <1>8, OthersStayBacked

LEMMA AccessKeepsAccess ==
  ASSUME LogOK, AccessOK, NEW k \in Kernels, Access(k)
  PROVE  AccessOK'
<1> DEFINE d == [kind |-> AccessKind(doing[k].action), agent |-> doing[k].agent,
                 cell |-> doing[k].cell, value |-> doing[k].value]
<1>1. d \in Data /\ Insert(k, d) /\ Does(k, Ready)
  BY AccessIsData DEF Access, LogAccess, Data
<1>2. doing[k].action \in AccessActions
  BY StepsTold DEF Access, AccessSteps
<1>3. \A action \in AccessActions : d.kind = AccessKind(action) => action = doing[k].action
  BY <1>2 DEF AccessKind, AccessActions
<1>4. \E h \in DOMAIN audit :
        /\ audit[h].by = k /\ \A j \in (h + 1)..Len(audit) : audit[j].by # k
        /\ audit[h].data = Evaluation(d.agent, doing[k].action, d.cell, "ALLOW")
  BY DEF AccessOK, AccessBacked, Access
<1> HIDE DEF d
<1>5. AccessesAreAllowed'
  BY <1>1, <1>3, <1>4, EntryKeepsAllowed DEF AccessOK
<1>6. AccessBacked(k)'
  BY <1>1, NothingToBack DEF Ready
<1> QED
  BY <1>1, <1>5, <1>6, OthersStayBacked

LEMMA AccessStep ==
  ASSUME LogOK, AccessOK, NEW k \in Kernels,
         \/ LocalStep(k) \/ TableStep(k) \/ SharedStep(k) \/ ScratchStep(k)
         \/ Kill(k) \/ Start(k)
  PROVE  AccessOK'
<1>0. Ready.step # "access" /\ Down.step # "access"
  BY DEF Ready, Down
<1>1. CASE LocalStep(k)
  <2>1. PICK c \in Cells, v \in Values \cup {absent} : Put(k, c, v)
    BY <1>1 DEF LocalStep
  <2>2. Insert(k, Change("local", c, v)) /\ Does(k, Ready)
    BY <2>1, IdleStaysReady DEF Put
  <2>3. Change("local", c, v) \in Changes
    BY ChangeIsData
  <2> QED BY <2>2, <2>3, <1>0, QuietStep
<1>2. CASE TableStep(k)
  <2>1. CASE \E c \in Cells, v \in Values \cup {absent} : WriteAhead(k, c, v)
    <3>1. PICK c \in Cells, v \in Values \cup {absent} : WriteAhead(k, c, v)
      BY <2>1
    <3> DEFINE next == [step |-> "row", cell |-> c, value |-> v, busSeq |-> RowId(k)]
    <3>2. Insert(k, Change("table", c, v)) /\ Does(k, next) /\ next.step # "access"
      BY <3>1 DEF WriteAhead
    <3>3. Change("table", c, v) \in Changes
      BY ChangeIsData
    <3> HIDE DEF next
    <3> QED BY <3>2, <3>3, QuietStep
  <2>2. CASE Apply(k) \/ ApplyThrows(k) \/ ApplyAndDie(k)
    <3>1. UNCHANGED audit /\ (Does(k, Ready) \/ Does(k, Down))
      BY <2>2 DEF Apply, ApplyThrows, ApplyAndDie
    <3> QED BY <3>1, <1>0, QuietStep
  <2> QED BY <1>2, <2>1, <2>2 DEF TableStep
<1>3. CASE SharedStep(k)
  <2>1. CASE AccessNotLogged(k)
    <3>1. UNCHANGED audit /\ Does(k, Ready)
      BY <2>1 DEF AccessNotLogged
    <3> QED BY <3>1, <1>0, QuietStep
  <2> QED BY <1>3, <2>1, EvaluateKeepsAccess, AccessKeepsAccess DEF SharedStep
<1>4. CASE ScratchStep(k)
  <2>1. UNCHANGED audit /\ Does(k, Ready)
    BY <1>4, IdleStaysReady DEF ScratchStep, logVars
  <2> QED BY <2>1, <1>0, QuietStep
<1>5. CASE Kill(k) \/ Start(k)
  <2>1. UNCHANGED audit /\ (Does(k, Down) \/ Does(k, Ready))
    BY <1>5 DEF Kill, Start, Boot
  <2> QED BY <2>1, <1>0, QuietStep
<1> QED BY <1>1, <1>2, <1>3, <1>4, <1>5

-----------------------------------------------------------------------------
\* Scratch memory.

\* Each operation is about one tick in one store.
Own(memory, h, life) ==
  memory = none \/ memory \in [ScratchKeys -> {none, [handle |-> h, life |-> life]}]

ScratchOK ==
  /\ memoryMap \in [Stores -> [Handles -> {none} \cup [ScratchKeys -> {none} \cup Stamp]]]
  /\ checkpoints \in [Stores -> [Handles -> {none} \cup [ScratchKeys -> {none} \cup Stamp]]]
  /\ lives \in [Stores -> [Handles -> 0..MaxLives]]
  /\ \A s \in Stores, h \in Handles :
       Own(memoryMap[s][h], h, lives[s][h]) /\ Own(checkpoints[s][h], h, lives[s][h])

LEMMA OwnMemoryIsOwn ==
  ASSUME ScratchOK
  PROVE  ScratchIsOwn
  BY DEF ScratchOK, Own, ScratchIsOwn

LEMMA EmptyIsOwn ==
  ASSUME NEW h \in Handles, NEW life
  PROVE  /\ Own(none, h, life) /\ Own(Empty, h, life)
         /\ Empty \in [ScratchKeys -> {none} \cup Stamp]
  BY DEF Own, Empty

LEMMA EphemeralKeepsScratch ==
  ASSUME ScratchOK, NEW s \in Stores, EphemeralStep(s)
  PROVE  ScratchOK'
<1>1. PICK h \in Handles :
        \/ InitMemory(s, h)
        \/ \E x \in ScratchKeys : WriteMemory(s, h, x)
        \/ Checkpoint(s, h)
        \/ Restore(s, h)
        \/ Destroy(s, h)
  BY DEF EphemeralStep
<1>2. /\ Own(memoryMap[s][h], h, lives[s][h]) /\ Own(checkpoints[s][h], h, lives[s][h])
      /\ memoryMap[s][h] \in {none} \cup [ScratchKeys -> {none} \cup Stamp]
      /\ checkpoints[s][h] \in {none} \cup [ScratchKeys -> {none} \cup Stamp]
      /\ lives[s][h] \in 0..MaxLives
  BY DEF ScratchOK
<1>3. CASE InitMemory(s, h)
  BY <1>3, <1>2, EmptyIsOwn DEF InitMemory, ScratchOK
<1>4. CASE \E x \in ScratchKeys : WriteMemory(s, h, x)
  <2>1. PICK x \in ScratchKeys : WriteMemory(s, h, x)
    BY <1>4
  <2> DEFINE memory == [memoryMap[s][h] EXCEPT ![x] = [handle |-> h, life |-> lives[s][h]]]
  <2>2. [handle |-> h, life |-> lives[s][h]] \in Stamp
    BY <1>2 DEF Stamp
  <2>3. /\ Own(memory, h, lives[s][h])
        /\ memory \in [ScratchKeys -> {none} \cup Stamp]
    BY <2>1, <2>2, <1>2 DEF WriteMemory, Own
  <2>4. memoryMap' = [memoryMap EXCEPT ![s] = [memoryMap[s] EXCEPT ![h] = memory]]
    BY <2>1 DEF WriteMemory
  <2> HIDE DEF memory
  <2>5. memoryMap' \in [Stores -> [Handles -> {none} \cup [ScratchKeys -> {none} \cup Stamp]]]
    BY <2>3, <2>4 DEF ScratchOK
  <2>6. \A i \in Stores, g \in Handles :
          memoryMap'[i][g] = IF i = s /\ g = h THEN memory ELSE memoryMap[i][g]
    BY <2>4 DEF ScratchOK
  <2>7. UNCHANGED <<checkpoints, lives>>
    BY <2>1 DEF WriteMemory
  <2>8. \A i \in Stores, g \in Handles : Own(memoryMap'[i][g], g, lives[i][g])
    BY <2>3, <2>6 DEF ScratchOK
  <2> QED BY <2>5, <2>7, <2>8 DEF ScratchOK
<1>5. CASE Checkpoint(s, h)
  BY <1>5, <1>2 DEF Checkpoint, ScratchOK
<1>6. CASE Restore(s, h)
  BY <1>6, <1>2 DEF Restore, ScratchOK
<1>7. CASE Destroy(s, h)
  <2>1. lives[s][h] + 1 \in 0..MaxLives
    BY <1>2, <1>7, EphemeralAssumption DEF Destroy
  <2>2. lives' \in [Stores -> [Handles -> 0..MaxLives]]
    BY <1>7, <2>1 DEF Destroy, ScratchOK
  <2> QED BY <1>7, <2>2, EmptyIsOwn DEF Destroy, ScratchOK
<1> QED BY <1>1, <1>3, <1>4, <1>5, <1>6, <1>7

LEMMA ScratchStepKeeps ==
  ASSUME ScratchOK, NEW k \in Kernels,
         \/ LocalStep(k) \/ TableStep(k) \/ SharedStep(k) \/ ScratchStep(k)
         \/ Kill(k) /\ UNCHANGED <<local, storeVars, shared, scratchVars>>
         \/ Start(k)
  PROVE  ScratchOK'
<1>0. k \in Stores
  BY MemoryAssumption
<1>1. CASE ScratchStep(k)
  BY <1>0, <1>1, EphemeralKeepsScratch DEF ScratchStep
<1>2. CASE Start(k)
  <2>1. Nowhere[k] = [h \in Handles |-> none]
    BY <1>0 DEF Nowhere
  <2>2. /\ memoryMap' = [memoryMap EXCEPT ![k] = [h \in Handles |-> none]]
        /\ checkpoints' = [checkpoints EXCEPT ![k] = [h \in Handles |-> none]]
        /\ UNCHANGED lives
    BY <1>2, <2>1 DEF Start
  <2> QED BY <1>0, <2>2, EmptyIsOwn DEF ScratchOK
<1>3. CASE UNCHANGED scratchVars
  BY <1>3 DEF scratchVars, ScratchOK
<1> QED
  BY <1>1, <1>2, <1>3 DEF LocalStep, TableStep, SharedStep

-----------------------------------------------------------------------------
\* The memory of a kernel, and what it logged since it was started.

\* v is what the last row of k behind the first n says, of those with data in D.
RowsOf(log, n, k, D) == {i \in (n + 1)..Len(log) : log[i].by = k /\ log[i].data \in D}

Tells(log, n, k, D, v) ==
  IF RowsOf(log, n, k, D) = {} THEN v = absent
  ELSE \E i \in RowsOf(log, n, k, D) :
         log[i].data.value = v /\ \A j \in RowsOf(log, n, k, D) : j <= i

LocalChanges(c) == {d \in Changes : d.store = "local" /\ d.cell = c}
SharedWrites(c) == {d \in Accesses : d.kind = "MEMORY_SHARED_WRITE" /\ d.cell = c}

MemoryOK ==
  /\ local \in [Kernels -> [Cells -> Values \cup {absent}]]
  /\ shared \in [Kernels -> [SharedCells -> SharedValues \cup {absent}]]
  /\ \A k \in Kernels : Up(k) =>
       /\ \A c \in Cells : Tells(audit, since[k], k, LocalChanges(c), local[k][c])
       /\ \A c \in SharedCells : Tells(audit, since[k], k, SharedWrites(c), shared[k][c])

\* The rows with such data are the entries that MemoryIsLogged speaks of.
LEMMA RowsAreEntries ==
  ASSUME LogOK, NEW k \in Kernels
  PROVE  /\ \A c \in Cells :
              RowsOf(audit, since[k], k, LocalChanges(c)) =
                {i \in Entries(k, {"MEMORY_PERSISTENT_WRITE", "MEMORY_PERSISTENT_DELETE"}, c) :
                   audit[i].data.store = "local"}
         /\ \A c \in SharedCells :
              RowsOf(audit, since[k], k, SharedWrites(c)) = Entries(k, {"MEMORY_SHARED_WRITE"}, c)
<1>1. \A i \in (since[k] + 1)..Len(audit) : audit[i].data \in Data
  <2>1. \A i \in 1..Len(audit) : audit[i] \in AuditRow
    BY DEF LogOK
  <2>2. since[k] \in Nat /\ Len(audit) \in Nat
    BY DEF LogOK
  <2> QED BY <2>1, <2>2 DEF AuditRow
<1>2. \A d \in Data : d \in Changes <=>
        d.kind \in {"MEMORY_PERSISTENT_WRITE", "MEMORY_PERSISTENT_DELETE"}
  BY DEF Data, Changes, TableKinds, Evaluations, Accesses
<1>3. \A d \in Data : d \in Accesses /\ d.kind = "MEMORY_SHARED_WRITE" <=>
        d.kind = "MEMORY_SHARED_WRITE"
  BY DEF Data, Changes, TableKinds, Evaluations, Accesses
<1> QED
  BY <1>1, <1>2, <1>3 DEF RowsOf, Entries, LocalChanges, SharedWrites

LEMMA ToldMemoryIsLogged ==
  ASSUME LogOK, MemoryOK
  PROVE  MemoryIsLogged
<1> SUFFICES ASSUME NEW k \in Kernels, Up(k)
             PROVE  /\ \A c \in Cells :
                         IsLast(local[k][c],
                                {i \in Entries(k, {"MEMORY_PERSISTENT_WRITE",
                                                   "MEMORY_PERSISTENT_DELETE"}, c) :
                                   audit[i].data.store = "local"})
                    /\ \A c \in SharedCells :
                         IsLast(shared[k][c], Entries(k, {"MEMORY_SHARED_WRITE"}, c))
  BY DEF MemoryIsLogged
<1>1. \A D, v : Tells(audit, since[k], k, D, v) => IsLast(v, RowsOf(audit, since[k], k, D))
  BY DEF Tells, IsLast
<1>2. ASSUME NEW c \in Cells
      PROVE  IsLast(local[k][c],
                    {i \in Entries(k, {"MEMORY_PERSISTENT_WRITE", "MEMORY_PERSISTENT_DELETE"}, c) :
                       audit[i].data.store = "local"})
  <2>1. Tells(audit, since[k], k, LocalChanges(c), local[k][c])
    BY DEF MemoryOK
  <2>2. IsLast(local[k][c], RowsOf(audit, since[k], k, LocalChanges(c)))
    BY <1>1, <2>1
  <2>3. QED
    BY <2>2, RowsAreEntries
<1>3. ASSUME NEW c \in SharedCells
      PROVE  IsLast(shared[k][c], Entries(k, {"MEMORY_SHARED_WRITE"}, c))
  <2>1. Tells(audit, since[k], k, SharedWrites(c), shared[k][c])
    BY DEF MemoryOK
  <2>2. IsLast(shared[k][c], RowsOf(audit, since[k], k, SharedWrites(c)))
    BY <1>1, <2>1
  <2>3. QED
    BY <2>2, RowsAreEntries
<1> QED
  BY <1>2, <1>3

\* An entry that says nothing of it leaves the last word where it was.
LEMMA StaysTold ==
  ASSUME LogOK, NEW j \in Kernels, NEW D, NEW v, Tells(audit, since[j], j, D, v),
         NEW k \in Kernels, NEW d \in Data, Insert(k, d), j # k \/ d \notin D
  PROVE  Tells(audit', since[j], j, D, v)
<1>1. IsBehind(k, d)
  BY Inserted
<1>2. since[j] \in Nat
  BY DEF LogOK
<1>3. RowsOf(audit', since[j], j, D) = RowsOf(audit, since[j], j, D)
  BY <1>1, <1>2 DEF IsBehind, RowsOf
<1>4. \A i \in RowsOf(audit, since[j], j, D) : audit'[i] = audit[i]
  BY <1>1, <1>2 DEF IsBehind, RowsOf
<1> QED
  BY <1>3, <1>4 DEF Tells

\* One that does is the last word.
LEMMA IsTold ==
  ASSUME LogOK, NEW k \in Kernels, NEW D, NEW d \in Data, Insert(k, d), d \in D
  PROVE  Tells(audit', since[k], k, D, d.value)
<1>1. IsBehind(k, d)
  BY Inserted
<1>2. since[k] \in Nat /\ since[k] <= Len(audit)
  BY DEF LogOK
<1>3. Len(audit) + 1 \in RowsOf(audit', since[k], k, D)
  BY <1>1, <1>2 DEF IsBehind, RowsOf
<1>4. \A j \in RowsOf(audit', since[k], k, D) : j <= Len(audit) + 1
  BY <1>1, <1>2 DEF IsBehind, RowsOf
<1>5. audit'[Len(audit) + 1].data.value = d.value
  BY <1>1 DEF IsBehind
<1> QED
  BY <1>3, <1>4, <1>5 DEF Tells

\* Nothing is told to a kernel that starts.
LEMMA NothingIsTold ==
  ASSUME LogOK, NEW k, NEW D
  PROVE  Tells(audit, Len(audit), k, D, absent)
  BY DEF LogOK, Tells, RowsOf

\* A kernel that is up and logs nothing of its memory leaves it alone.
LEMMA MemoryStays ==
  ASSUME LogOK, MemoryOK, NEW k \in Kernels, Up(k), NEW what, Does(k, what),
         UNCHANGED <<local, shared, since>>,
         \/ UNCHANGED audit
         \/ \E d \in Data : /\ Insert(k, d)
                            /\ \A c \in Cells : d \notin LocalChanges(c)
                            /\ \A c \in SharedCells : d \notin SharedWrites(c)
  PROVE  MemoryOK'
<1>1. ASSUME NEW j \in Kernels, Up(j)'
      PROVE  /\ \A c \in Cells : Tells(audit', since[j], j, LocalChanges(c), local[j][c])
             /\ \A c \in SharedCells : Tells(audit', since[j], j, SharedWrites(c), shared[j][c])
  <2>1. Up(j)
    BY <1>1 DEF Up, Does, LogOK
  <2>2. CASE UNCHANGED audit
    BY <2>1, <2>2 DEF MemoryOK
  <2>3. CASE \E d \in Data : /\ Insert(k, d)
                             /\ \A c \in Cells : d \notin LocalChanges(c)
                             /\ \A c \in SharedCells : d \notin SharedWrites(c)
    BY <2>1, <2>3, StaysTold DEF MemoryOK
  <2> QED BY <2>2, <2>3
<1> QED
  BY <1>1 DEF MemoryOK

LEMMA PutKeepsMemory ==
  ASSUME LogOK, MemoryOK, NEW k \in Kernels, NEW c \in Cells, NEW v \in Values \cup {absent},
         Put(k, c, v), UNCHANGED shared
  PROVE  MemoryOK'
<1> DEFINE d == Change("local", c, v)
<1>1. d \in Changes /\ d \in Data /\ d.store = "local" /\ d.cell = c /\ d.value = v
  BY ChangeIsData DEF Change, Data
<1>2. Insert(k, d) /\ UNCHANGED <<doing, since>> /\ local' = [local EXCEPT ![k][c] = v]
  BY DEF Put
<1>3. \A e \in SharedCells : d \notin SharedWrites(e)
  BY <1>1 DEF Changes, TableKinds, SharedWrites
<1>4. \A e \in Cells : d \in LocalChanges(e) <=> e = c
  BY <1>1 DEF LocalChanges
<1> HIDE DEF d
<1>5. local' \in [Kernels -> [Cells -> Values \cup {absent}]]
  BY <1>2 DEF MemoryOK
<1>6. ASSUME NEW j \in Kernels, Up(j), NEW e \in Cells
      PROVE  Tells(audit', since[j], j, LocalChanges(e), local'[j][e])
  <2>1. CASE j = k /\ e = c
    <3>1. local'[j][e] = d.value
      BY <1>1, <1>2, <2>1 DEF MemoryOK
    <3> QED BY <1>1, <1>2, <1>4, <2>1, <3>1, IsTold
  <2>2. CASE ~(j = k /\ e = c)
    <3>1. local'[j][e] = local[j][e]
      BY <1>2, <2>2 DEF MemoryOK
    <3>2. Tells(audit, since[j], j, LocalChanges(e), local[j][e])
      BY <1>6 DEF MemoryOK
    <3> QED BY <1>1, <1>2, <1>4, <2>2, <3>1, <3>2, StaysTold
  <2> QED BY <2>1, <2>2
<1>7. ASSUME NEW j \in Kernels, Up(j), NEW e \in SharedCells
      PROVE  Tells(audit', since[j], j, SharedWrites(e), shared[j][e])
  <2>1. Tells(audit, since[j], j, SharedWrites(e), shared[j][e])
    BY <1>7 DEF MemoryOK
  <2> QED BY <1>1, <1>2, <1>3, <2>1, StaysTold
<1>8. \A j \in Kernels : Up(j)' <=> Up(j)
  BY <1>2 DEF Up
<1> QED
  BY <1>2, <1>5, <1>6, <1>7, <1>8 DEF MemoryOK

LEMMA AccessKeepsMemory ==
  ASSUME LogOK, MemoryOK, NEW k \in Kernels, Access(k), UNCHANGED local
  PROVE  MemoryOK'
<1> DEFINE d == [kind |-> AccessKind(doing[k].action), agent |-> doing[k].agent,
                 cell |-> doing[k].cell, value |-> doing[k].value]
           c == doing[k].cell
           v == doing[k].value
<1>0. /\ c \in SharedCells /\ v \in SharedValues \cup {absent}
      /\ doing[k].action \in AccessActions
  BY StepsTold DEF Access, AccessSteps
<1>1. d \in Accesses /\ d \in Data /\ d.cell = c /\ d.value = v
  BY AccessIsData DEF Access, Data
<1>2. Insert(k, d) /\ Does(k, Ready) /\ UNCHANGED since
  BY DEF Access, LogAccess
<1>3. \A e \in Cells : d \notin LocalChanges(e)
  BY <1>1 DEF Accesses, Changes, TableKinds, LocalChanges
<1>4. \A e \in SharedCells :
        d \in SharedWrites(e) <=> e = c /\ doing[k].action = "write"
  BY <1>0, <1>1 DEF SharedWrites, AccessKind, AccessActions
<1>5. IF doing[k].action = "write" THEN shared' = [shared EXCEPT ![k][c] = v]
                                   ELSE UNCHANGED shared
  BY DEF Access, Store
<1>6. Up(k) /\ \A j \in Kernels : Up(j)' => Up(j)
  BY <1>2 DEF Up, Does, LogOK, Access, Accessing, Down
<1> HIDE DEF d, c, v
<1>7. shared' \in [Kernels -> [SharedCells -> SharedValues \cup {absent}]]
  <2>0. shared \in [Kernels -> [SharedCells -> SharedValues \cup {absent}]]
    BY DEF MemoryOK
  <2>1. CASE doing[k].action = "write"
    BY <1>0, <1>5, <2>0, <2>1
  <2>2. CASE doing[k].action # "write"
    BY <1>5, <2>0, <2>2
  <2> QED BY <2>1, <2>2
<1>8. ASSUME NEW j \in Kernels, Up(j), NEW e \in SharedCells
      PROVE  Tells(audit', since[j], j, SharedWrites(e), shared'[j][e])
  <2>1. CASE j = k /\ e = c /\ doing[k].action = "write"
    <3>1. shared'[j][e] = d.value
      BY <1>1, <1>5, <2>1 DEF MemoryOK
    <3> QED BY <1>1, <1>2, <1>4, <2>1, <3>1, IsTold
  <2>2. CASE ~(j = k /\ e = c /\ doing[k].action = "write")
    <3>1. shared'[j][e] = shared[j][e]
      BY <1>5, <2>2 DEF MemoryOK
    <3>2. Tells(audit, since[j], j, SharedWrites(e), shared[j][e])
      BY <1>8 DEF MemoryOK
    <3> QED BY <1>1, <1>2, <1>4, <2>2, <3>1, <3>2, StaysTold
  <2> QED BY <2>1, <2>2
<1>9. ASSUME NEW j \in Kernels, Up(j), NEW e \in Cells
      PROVE  Tells(audit', since[j], j, LocalChanges(e), local[j][e])
  <2>1. Tells(audit, since[j], j, LocalChanges(e), local[j][e])
    BY <1>9 DEF MemoryOK
  <2> QED BY <1>1, <1>2, <1>3, <2>1, StaysTold
<1> QED
  BY <1>2, <1>6, <1>7, <1>8, <1>9 DEF MemoryOK

LEMMA StartKeepsMemory ==
  ASSUME LogOK, MemoryOK, NEW k \in Kernels, Start(k)
  PROVE  MemoryOK'
<1>1. /\ UNCHANGED audit /\ since' = [since EXCEPT ![k] = Len(audit)] /\ Does(k, Ready)
      /\ local' = [local EXCEPT ![k] = NoValues] /\ shared' = [shared EXCEPT ![k] = NothingShared]
  BY DEF Start, Boot
<1>2. /\ NoValues \in [Cells -> Values \cup {absent}] /\ \A c \in Cells : NoValues[c] = absent
      /\ NothingShared \in [SharedCells -> SharedValues \cup {absent}]
      /\ \A c \in SharedCells : NothingShared[c] = absent
  BY DEF NoValues, NothingShared
<1>3. /\ local' \in [Kernels -> [Cells -> Values \cup {absent}]]
      /\ shared' \in [Kernels -> [SharedCells -> SharedValues \cup {absent}]]
  BY <1>1, <1>2 DEF MemoryOK
<1>4. ASSUME NEW j \in Kernels, Up(j)'
      PROVE  /\ \A c \in Cells : Tells(audit, since'[j], j, LocalChanges(c), local'[j][c])
             /\ \A c \in SharedCells : Tells(audit, since'[j], j, SharedWrites(c), shared'[j][c])
  <2>1. CASE j = k
    <3>1. /\ since'[j] = Len(audit) /\ local'[j] = NoValues /\ shared'[j] = NothingShared
      BY <1>1, <2>1 DEF LogOK, MemoryOK
    <3> QED BY <1>2, <3>1, NothingIsTold
  <2>2. CASE j # k
    <3>1. /\ since'[j] = since[j] /\ local'[j] = local[j] /\ shared'[j] = shared[j]
          /\ doing'[j] = doing[j]
      BY <1>1, <2>2 DEF LogOK, MemoryOK, Does
    <3>2. Up(j)
      BY <1>4, <3>1 DEF Up
    <3> QED BY <3>1, <3>2 DEF MemoryOK
  <2> QED BY <2>1, <2>2
<1> QED
  BY <1>1, <1>3, <1>4 DEF MemoryOK

LEMMA MemoryStep ==
  ASSUME LogOK, MemoryOK, NEW k \in Kernels,
         \/ LocalStep(k) \/ TableStep(k) \/ SharedStep(k) \/ ScratchStep(k)
         \/ Kill(k) /\ UNCHANGED <<local, storeVars, shared, scratchVars>>
         \/ Start(k)
  PROVE  MemoryOK'
<1>0. Ready # Down
  BY DEF Ready, Down
<1>1. CASE LocalStep(k)
  BY <1>1, PutKeepsMemory DEF LocalStep
<1>2. CASE TableStep(k)
  <2>1. CASE \E c \in Cells, v \in Values \cup {absent} : WriteAhead(k, c, v)
    <3>1. PICK c \in Cells, v \in Values \cup {absent} : WriteAhead(k, c, v)
      BY <2>1
    <3> DEFINE next == [step |-> "row", cell |-> c, value |-> v, busSeq |-> RowId(k)]
               d == Change("table", c, v)
    <3>2. Up(k) /\ Insert(k, d) /\ Does(k, next) /\ UNCHANGED <<local, shared, since>>
      BY <1>0, <1>2, <3>1 DEF WriteAhead, Idle, Up, TableStep
    <3>3. d \in Changes /\ d \in Data /\ d.store = "table"
      BY ChangeIsData DEF Data
    <3>4. /\ \A e \in Cells : d \notin LocalChanges(e)
          /\ \A e \in SharedCells : d \notin SharedWrites(e)
      BY <3>3 DEF LocalChanges, SharedWrites, Changes, Accesses, TableKinds
    <3> HIDE DEF next, d
    <3> QED BY <3>2, <3>3, <3>4, MemoryStays
  <2>2. CASE Apply(k) \/ ApplyThrows(k) \/ ApplyAndDie(k)
    <3>1. /\ Up(k) /\ (Does(k, Ready) \/ Does(k, Down))
          /\ UNCHANGED <<audit, local, shared, since>>
      BY <1>2, <2>2 DEF Apply, ApplyThrows, ApplyAndDie, TableStep, Changing, Up, Down
    <3> QED BY <3>1, MemoryStays
  <2> QED BY <1>2, <2>1, <2>2 DEF TableStep
<1>3. CASE SharedStep(k)
  <2>0. UNCHANGED local
    BY <1>3 DEF SharedStep
  <2>1. CASE \E a \in Callers, c \in SharedCells : Evaluate(k, a, c)
    <3>1. PICK a \in Callers, c \in SharedCells : Evaluate(k, a, c)
      BY <2>1
    <3>2. PICK r \in Requests, t \in Times, grants \in GrantLists, answers \in PolicyAnswers :
            LET verdict == Verdict(Allows(grants, r.action, resourceOf[c], t), answers)
            IN /\ Insert(k, Evaluation(a, r.action, c, verdict))
               /\ Does(k, IF Permitted(verdict) THEN Rest(k, a, r.action, c, r.value)
                                                 ELSE Ready)
      BY <3>1 DEF Evaluate
    <3> DEFINE verdict == Verdict(Allows(grants, r.action, resourceOf[c], t), answers)
               next == IF Permitted(verdict) THEN Rest(k, a, r.action, c, r.value) ELSE Ready
               d == Evaluation(a, r.action, c, verdict)
    <3>3. d \in Evaluations
      BY EvaluationIsData
    <3>4. Insert(k, d) /\ Does(k, next)
      BY <3>2
    <3>5. Up(k) /\ UNCHANGED <<since, shared>>
      BY <1>0, <3>1 DEF Evaluate, Idle, Up
    <3> HIDE DEF verdict, next, d
    <3>6. /\ d \in Data
          /\ \A e \in Cells : d \notin LocalChanges(e)
          /\ \A e \in SharedCells : d \notin SharedWrites(e)
      BY <3>3 DEF Data, LocalChanges, SharedWrites, Changes, Accesses, TableKinds, Evaluations
    <3> QED BY <2>0, <3>4, <3>5, <3>6, MemoryStays
  <2>2. CASE AccessNotLogged(k)
    <3>1. Up(k) /\ Does(k, Ready) /\ UNCHANGED <<audit, local, shared, since>>
      BY <2>0, <2>2 DEF AccessNotLogged, Accessing, Up, Down
    <3> QED BY <3>1, MemoryStays
  <2> QED BY <1>3, <2>0, <2>1, <2>2, AccessKeepsMemory DEF SharedStep
<1>4. CASE ScratchStep(k)
  <2>1. Up(k) /\ Does(k, Ready) /\ UNCHANGED <<audit, local, shared, since>>
    BY <1>0, <1>4, IdleStaysReady DEF ScratchStep, logVars, Idle, Up
  <2> QED BY <2>1, MemoryStays
<1>5. CASE Kill(k) /\ UNCHANGED <<local, storeVars, shared, scratchVars>>
  <2>1. Up(k) /\ Does(k, Down) /\ UNCHANGED <<audit, local, shared, since>>
    BY <1>5 DEF Kill
  <2> QED BY <2>1, MemoryStays
<1> QED
  BY <1>1, <1>2, <1>3, <1>4, <1>5, StartKeepsMemory

-----------------------------------------------------------------------------
\* The durable store, a table that all kernels change.

TableChanges(c) == {d \in Changes : d.store = "table" /\ d.cell = c}

RowsAbout(log, c) == {i \in DOMAIN log : log[i].data \in TableChanges(c)}

IsLastAbout(log, i, c) == i \in RowsAbout(log, c) /\ \A j \in RowsAbout(log, c) : j <= i

\* The write or deletion k has to make is in the log, and has not returned.
Announced(k) ==
  /\ doing[k].busSeq \in DOMAIN audit /\ doing[k].busSeq \notin acked
  /\ audit[doing[k].busSeq].data = Change("table", doing[k].cell, doing[k].value)

\* The last entry about a row, if it was made alone, is the only one of which
\* the statement can still come.
NoOtherChange ==
  \A c \in Cells, i \in alone : IsLastAbout(audit, i, c) =>
    \A k \in Kernels : Changing(k) /\ doing[k].cell = c => doing[k].busSeq = i

TableOK ==
  /\ rows \in [Cells -> Values \cup {absent}]
  /\ acked \subseteq DOMAIN audit /\ alone \subseteq DOMAIN audit
  /\ \A k \in Kernels : Changing(k) => Announced(k)
  /\ \A j, k \in Kernels : Changing(j) /\ Changing(k) /\ j # k => doing[j].busSeq # doing[k].busSeq
  /\ NoOtherChange
  /\ \A c \in Cells : rows[c] # absent =>
       \E i \in RowsAbout(audit, c) : audit[i].data.value = rows[c]
  /\ \A c \in Cells, i \in acked \cap alone : IsLastAbout(audit, i, c) =>
       rows[c] = audit[i].data.value

LEMMA RowsAboutAreEntries ==
  ASSUME LogOK, NEW c \in Cells
  PROVE  TableEntries(c) = RowsAbout(audit, c)
<1>1. \A i \in DOMAIN audit : audit[i].data \in Data
  <2>1. \A i \in DOMAIN audit : audit[i] \in AuditRow
    BY DEF LogOK
  <2> QED BY <2>1 DEF AuditRow
<1>2. \A d \in Data : d \in Changes <=>
        d.kind \in {"MEMORY_PERSISTENT_WRITE", "MEMORY_PERSISTENT_DELETE"}
  BY DEF Data, Changes, TableKinds, Evaluations, Accesses
<1> QED
  BY <1>1, <1>2 DEF RowsAbout, TableEntries, TableChanges

LEMMA TableOKTells ==
  ASSUME LogOK, TableOK
  PROVE  RowsAreLogged /\ LogTellsRows
<1>1. RowsAreLogged
  BY RowsAboutAreEntries DEF RowsAreLogged, TableOK
<1>2. LogTellsRows
  <2> SUFFICES ASSUME NEW c \in Cells, NEW i \in TableEntries(c),
                      \A j \in TableEntries(c) : j <= i, audit[i].busSeq \in acked \cap alone
               PROVE  rows[c] = audit[i].data.value
    BY DEF LogTellsRows
  <2>1. IsLastAbout(audit, i, c) /\ i \in DOMAIN audit
    BY RowsAboutAreEntries DEF IsLastAbout, RowsAbout
  <2>2. audit[i].busSeq = i
    BY <2>1 DEF LogOK
  <2> QED BY <2>1, <2>2 DEF TableOK
<1> QED BY <1>1, <1>2

\* An entry about something else changes nothing that is said of a row.
LEMMA RowsStayAbout ==
  ASSUME LogOK, NEW k \in Kernels, NEW d \in Data, Insert(k, d), NEW c, d \notin TableChanges(c)
  PROVE  /\ RowsAbout(audit', c) = RowsAbout(audit, c)
         /\ \A i \in RowsAbout(audit, c) : audit'[i] = audit[i]
         /\ \A i : IsLastAbout(audit', i, c) <=> IsLastAbout(audit, i, c)
<1>1. IsBehind(k, d)
  BY Inserted
<1>2. RowsAbout(audit', c) = RowsAbout(audit, c)
  BY <1>1 DEF IsBehind, RowsAbout
<1>3. \A i \in RowsAbout(audit, c) : audit'[i] = audit[i]
  BY <1>1 DEF IsBehind, RowsAbout
<1> QED
  BY <1>2, <1>3 DEF IsLastAbout

\* A kernel that neither announces nor makes a change.
LEMMA TableStays ==
  ASSUME LogOK, TableOK, NEW k \in Kernels, NEW what, Does(k, what), what.step # "row",
         UNCHANGED storeVars,
         \/ UNCHANGED audit
         \/ \E d \in Data : Insert(k, d) /\ \A c \in Cells : d \notin TableChanges(c)
  PROVE  TableOK'
<1>0. UNCHANGED <<rows, acked, alone>>
  BY DEF storeVars
<1>1. \A j \in Kernels : Changing(j)' => Changing(j) /\ doing'[j] = doing[j]
  BY DEF Changing, Does, LogOK
<1>2. \A i \in DOMAIN audit : i \in DOMAIN audit' /\ audit'[i] = audit[i]
  BY Inserted DEF IsBehind
<1>3. ASSUME NEW c \in Cells
      PROVE  /\ RowsAbout(audit', c) = RowsAbout(audit, c)
             /\ \A i \in RowsAbout(audit, c) : audit'[i] = audit[i]
             /\ \A i : IsLastAbout(audit', i, c) <=> IsLastAbout(audit, i, c)
  BY RowsStayAbout
<1>4. acked \subseteq DOMAIN audit' /\ alone \subseteq DOMAIN audit'
  BY <1>2 DEF TableOK
<1>5. ASSUME NEW j \in Kernels, Changing(j)'  PROVE Announced(j)'
  <2>1. Announced(j) /\ doing'[j] = doing[j]
    BY <1>1, <1>5 DEF TableOK
  <2> QED BY <1>0, <1>2, <2>1 DEF Announced, Change
<1>6. NoOtherChange'
  BY <1>0, <1>1, <1>3 DEF TableOK, NoOtherChange
<1>7. \A j, i \in Kernels : Changing(j)' /\ Changing(i)' /\ j # i => doing'[j].busSeq # doing'[i].busSeq
  BY <1>1 DEF TableOK
<1>8. \A c \in Cells : rows[c] # absent =>
        \E i \in RowsAbout(audit', c) : audit'[i].data.value = rows[c]
  BY <1>3 DEF TableOK
<1>9. \A c \in Cells, i \in acked \cap alone : IsLastAbout(audit', i, c) =>
        rows[c] = audit'[i].data.value
  BY <1>3 DEF TableOK, IsLastAbout
<1> QED
  BY <1>0, <1>4, <1>5, <1>6, <1>7, <1>8, <1>9 DEF TableOK

LEMMA WriteAheadKeepsTable ==
  ASSUME LogOK, TableOK, NEW k \in Kernels, NEW c \in Cells, NEW v \in Values \cup {absent},
         WriteAhead(k, c, v)
  PROVE  TableOK'
<1> DEFINE n == Len(audit) + 1
           d == Change("table", c, v)
           next == [step |-> "row", cell |-> c, value |-> v, busSeq |-> n]
<1>1. d \in Changes /\ d \in Data /\ d.store = "table" /\ d.cell = c /\ d.value = v
  BY ChangeIsData DEF Change, Data
<1>2. /\ Insert(k, d) /\ Does(k, next) /\ UNCHANGED <<rows, acked>>
      /\ alone' = IF AloneOn(k, c) THEN alone \cup {n} ELSE alone
  BY NextRow DEF WriteAhead
<1>3. /\ Len(audit) \in Nat /\ DOMAIN audit = 1..Len(audit) /\ DOMAIN audit' = 1..n
      /\ audit'[n].data = d
      /\ \A i \in DOMAIN audit : i \in DOMAIN audit' /\ audit'[i] = audit[i]
  <2>1. IsBehind(k, d)
    BY <1>1, <1>2, Inserted
  <2> QED BY <2>1 DEF IsBehind
<1>4. \A e \in Cells : d \in TableChanges(e) <=> e = c
  BY <1>1 DEF TableChanges
<1>5. /\ doing'[k] = next /\ Changing(k)' /\ ~Changing(k)
      /\ \A j \in Kernels : j # k => doing'[j] = doing[j] /\ (Changing(j)' <=> Changing(j))
  BY <1>2 DEF Changing, Does, LogOK, WriteAhead, Idle, Ready
<1>6. n \notin acked /\ n \notin alone /\ \A j \in Kernels : Changing(j) => doing[j].busSeq # n
  BY <1>3 DEF TableOK, Announced
<1>7. next.cell = c /\ next.value = v /\ next.busSeq = n /\ n \in DOMAIN audit'
  BY <1>3
<1> HIDE DEF n, next
<1>8. ASSUME NEW e \in Cells, e # c
      PROVE  /\ RowsAbout(audit', e) = RowsAbout(audit, e)
             /\ \A i \in RowsAbout(audit, e) : audit'[i] = audit[i]
             /\ \A i : IsLastAbout(audit', i, e) <=> IsLastAbout(audit, i, e)
  BY <1>1, <1>2, <1>4, <1>8, RowsStayAbout
<1>9. /\ n \in RowsAbout(audit', c)
      /\ RowsAbout(audit, c) \subseteq RowsAbout(audit', c)
      /\ \A i : IsLastAbout(audit', i, c) => i = n
  <2>1. n \in RowsAbout(audit', c)
    BY <1>3, <1>4, <1>7 DEF RowsAbout
  <2>2. RowsAbout(audit, c) \subseteq RowsAbout(audit', c)
    BY <1>3 DEF RowsAbout
  <2>3. \A i \in RowsAbout(audit', c) : i \in Nat /\ i <= n
    BY <1>3 DEF RowsAbout, n
  <2>4. n \in Nat
    BY <1>3 DEF n
  <2>5. ASSUME NEW i, IsLastAbout(audit', i, c)  PROVE i = n
    <3>1. i \in Nat /\ i <= n /\ n <= i
      BY <2>1, <2>3, <2>5 DEF IsLastAbout
    <3> QED BY <2>4, <3>1
  <2> QED BY <2>1, <2>2, <2>5
<1>10. acked' \subseteq DOMAIN audit' /\ alone' \subseteq DOMAIN audit'
  BY <1>2, <1>3, <1>7 DEF TableOK
<1>11. ASSUME NEW j \in Kernels, Changing(j)'  PROVE Announced(j)'
  <2>1. CASE j = k
    BY <1>2, <1>3, <1>5, <1>6, <1>7, <2>1 DEF Announced, Change
  <2>2. CASE j # k
    <3>1. Announced(j) /\ doing'[j] = doing[j]
      BY <1>5, <1>11, <2>2 DEF TableOK
    <3> QED BY <1>2, <1>3, <3>1 DEF Announced, Change
  <2> QED BY <2>1, <2>2
<1>12. \A j, i \in Kernels : Changing(j)' /\ Changing(i)' /\ j # i => doing'[j].busSeq # doing'[i].busSeq
  BY <1>5, <1>6, <1>7 DEF TableOK
<1>13. ASSUME NEW e \in Cells, NEW i \in alone', IsLastAbout(audit', i, e),
              NEW j \in Kernels, Changing(j)', doing'[j].cell = e
       PROVE  doing'[j].busSeq = i
  <2>1. CASE e = c
    <3>1. i = n
      BY <1>9, <1>13, <2>1
    <3>2. AloneOn(k, c)
      BY <1>2, <1>6, <3>1
    <3>3. j = k
      BY <1>5, <1>13, <2>1, <3>2 DEF AloneOn
    <3> QED BY <1>5, <1>7, <3>1, <3>3
  <2>2. CASE e # c
    <3>1. IsLastAbout(audit, i, e) /\ j # k
      BY <1>5, <1>7, <1>8, <1>13, <2>2
    <3>2. i \in alone
      <4>1. i \in DOMAIN audit
        BY <3>1 DEF IsLastAbout, RowsAbout
      <4>2. i # n
        BY <1>3, <4>1 DEF n
      <4> QED BY <1>2, <1>13, <4>2
    <3> QED BY <1>5, <1>13, <3>1, <3>2 DEF TableOK, NoOtherChange
  <2> QED BY <2>1, <2>2
<1>14. ASSUME NEW e \in Cells, rows[e] # absent
       PROVE  \E i \in RowsAbout(audit', e) : audit'[i].data.value = rows[e]
  <2>1. PICK i \in RowsAbout(audit, e) : audit[i].data.value = rows[e]
    BY <1>14 DEF TableOK
  <2>2. i \in RowsAbout(audit', e) /\ audit'[i] = audit[i]
    BY <1>3 DEF RowsAbout
  <2> QED BY <2>1, <2>2
<1>15. ASSUME NEW e \in Cells, NEW i \in acked \cap alone', IsLastAbout(audit', i, e)
       PROVE  rows[e] = audit'[i].data.value
  <2>1. i # n
    BY <1>6, <1>15
  <2>2. e # c
    BY <1>9, <1>15, <2>1
  <2>3. IsLastAbout(audit, i, e) /\ i \in alone /\ audit'[i] = audit[i]
    BY <1>2, <1>8, <1>15, <2>1, <2>2 DEF IsLastAbout
  <2> QED BY <2>3 DEF TableOK
<1>16. NoOtherChange'
  BY <1>13 DEF NoOtherChange
<1> QED
  BY <1>2, <1>10, <1>11, <1>12, <1>14, <1>15, <1>16 DEF TableOK

\* The statement of a change that was announced, whether or not the call returns.
LEMMA RowIsApplied ==
  ASSUME LogOK, TableOK, NEW k \in Kernels, Changing(k), ApplyRow(k),
         NEW what, Does(k, what), what.step # "row", UNCHANGED <<audit, alone>>,
         acked' \in {acked, acked \cup {doing[k].busSeq}}
  PROVE  TableOK'
<1> DEFINE c == doing[k].cell
           v == doing[k].value
           n == doing[k].busSeq
<1>1. c \in Cells /\ v \in Values \cup {absent}
  BY StepsTold DEF RowSteps
<1>2. n \in DOMAIN audit /\ n \notin acked /\ audit[n].data = Change("table", c, v)
  BY DEF TableOK, Announced
<1>3. rows' = [rows EXCEPT ![c] = v]
  BY DEF ApplyRow
<1>4. audit[n].data \in TableChanges(c) /\ audit[n].data.value = v
  BY <1>1, <1>2, ChangeIsData DEF Change, TableChanges
<1>5. \A e : n \in RowsAbout(audit, e) <=> e = c
  BY <1>2, <1>4 DEF RowsAbout, TableChanges
<1>6. /\ ~Changing(k)'
      /\ \A j \in Kernels : j # k => doing'[j] = doing[j] /\ (Changing(j)' <=> Changing(j))
  BY DEF Changing, Does, LogOK
<1>7. acked' \subseteq acked \cup {n} /\ acked' \subseteq DOMAIN audit
  BY <1>2 DEF TableOK
<1>8. \A j \in Kernels : Changing(j) /\ j # k => doing[j].busSeq # n
  BY DEF TableOK
<1>9. \A i \in alone : IsLastAbout(audit, i, c) => i = n
  BY <1>1 DEF TableOK, NoOtherChange
<1> HIDE DEF c, v, n
<1>10. rows' \in [Cells -> Values \cup {absent}] /\ rows'[c] = v
       /\ \A e \in Cells : e # c => rows'[e] = rows[e]
  BY <1>1, <1>3 DEF TableOK
<1>11. ASSUME NEW j \in Kernels, Changing(j)'  PROVE Announced(j)'
  <2>1. j # k /\ doing'[j] = doing[j] /\ Announced(j) /\ doing[j].busSeq # n
    BY <1>6, <1>8, <1>11 DEF TableOK
  <2> QED BY <1>7, <2>1 DEF Announced, Change
<1>12. \A j, i \in Kernels : Changing(j)' /\ Changing(i)' /\ j # i => doing'[j].busSeq # doing'[i].busSeq
  BY <1>6 DEF TableOK
<1>13. NoOtherChange'
  BY <1>6 DEF TableOK, NoOtherChange
<1>14. ASSUME NEW e \in Cells, rows'[e] # absent
       PROVE  \E i \in RowsAbout(audit, e) : audit[i].data.value = rows'[e]
  BY <1>4, <1>5, <1>10, <1>14 DEF TableOK
<1>15. ASSUME NEW e \in Cells, NEW i \in acked' \cap alone, IsLastAbout(audit, i, e)
       PROVE  rows'[e] = audit[i].data.value
  <2>1. CASE e = c
    BY <1>4, <1>9, <1>10, <1>15, <2>1
  <2>2. CASE e # c
    <3>1. i # n
      BY <1>5, <1>15, <2>2 DEF IsLastAbout
    <3> QED BY <1>7, <1>10, <1>15, <2>2, <3>1 DEF TableOK
  <2> QED BY <2>1, <2>2
<1> QED
  BY <1>7, <1>10, <1>11, <1>12, <1>13, <1>14, <1>15 DEF TableOK

LEMMA TableStepKeeps ==
  ASSUME LogOK, TableOK, NEW k \in Kernels,
         \/ LocalStep(k) \/ TableStep(k) \/ SharedStep(k) \/ ScratchStep(k)
         \/ Kill(k) /\ UNCHANGED <<local, storeVars, shared, scratchVars>>
         \/ Start(k)
  PROVE  TableOK'
<1>0. Ready.step # "row" /\ Down.step # "row"
  BY DEF Ready, Down
<1>1. CASE LocalStep(k)
  <2>1. PICK c \in Cells, v \in Values \cup {absent} : Put(k, c, v)
    BY <1>1 DEF LocalStep
  <2> DEFINE d == Change("local", c, v)
  <2>2. Insert(k, d) /\ Does(k, Ready) /\ UNCHANGED storeVars
    BY <1>1, <2>1, IdleStaysReady DEF Put, LocalStep
  <2>3. d \in Data /\ \A e \in Cells : d \notin TableChanges(e)
    BY ChangeIsData DEF Data, TableChanges
  <2> HIDE DEF d
  <2> QED BY <1>0, <2>2, <2>3, TableStays
<1>2. CASE TableStep(k)
  <2>1. CASE Apply(k)
    BY <1>0, <2>1, RowIsApplied DEF Apply
  <2>2. CASE ApplyThrows(k)
    BY <1>0, <2>2, TableStays DEF ApplyThrows
  <2>3. CASE ApplyAndDie(k)
    BY <1>0, <2>3, RowIsApplied DEF ApplyAndDie
  <2> QED BY <1>2, <2>1, <2>2, <2>3, WriteAheadKeepsTable DEF TableStep
<1>3. CASE SharedStep(k)
  <2>0. UNCHANGED storeVars
    BY <1>3 DEF SharedStep
  <2>1. CASE \E a \in Callers, c \in SharedCells : Evaluate(k, a, c)
    <3>1. PICK a \in Callers, c \in SharedCells : Evaluate(k, a, c)
      BY <2>1
    <3>2. PICK r \in Requests, t \in Times, grants \in GrantLists, answers \in PolicyAnswers :
            LET verdict == Verdict(Allows(grants, r.action, resourceOf[c], t), answers)
            IN /\ Insert(k, Evaluation(a, r.action, c, verdict))
               /\ Does(k, IF Permitted(verdict) THEN Rest(k, a, r.action, c, r.value)
                                                 ELSE Ready)
      BY <3>1 DEF Evaluate
    <3> DEFINE verdict == Verdict(Allows(grants, r.action, resourceOf[c], t), answers)
               next == IF Permitted(verdict) THEN Rest(k, a, r.action, c, r.value) ELSE Ready
               d == Evaluation(a, r.action, c, verdict)
    <3>3. d \in Evaluations
      BY EvaluationIsData
    <3>4. next.step # "row"
      BY <1>0, RestIsAStep DEF AccessSteps
    <3>5. Insert(k, d) /\ Does(k, next)
      BY <3>2
    <3> HIDE DEF verdict, next, d
    <3>6. d \in Data /\ \A e \in Cells : d \notin TableChanges(e)
      BY <3>3 DEF Data, TableChanges, Changes, TableKinds, Evaluations
    <3> QED BY <2>0, <3>4, <3>5, <3>6, TableStays
  <2>2. CASE Access(k)
    <3> DEFINE d == [kind |-> AccessKind(doing[k].action), agent |-> doing[k].agent,
                     cell |-> doing[k].cell, value |-> doing[k].value]
    <3>1. d \in Accesses /\ Insert(k, d) /\ Does(k, Ready)
      BY <2>2, AccessIsData DEF Access, LogAccess
    <3> HIDE DEF d
    <3>2. d \in Data /\ \A e \in Cells : d \notin TableChanges(e)
      BY <3>1 DEF Data, TableChanges, Changes, TableKinds, Accesses
    <3> QED BY <1>0, <2>0, <3>1, <3>2, TableStays
  <2>3. CASE AccessNotLogged(k)
    BY <1>0, <2>0, <2>3, TableStays DEF AccessNotLogged
  <2> QED BY <1>3, <2>1, <2>2, <2>3 DEF SharedStep
<1>4. CASE ScratchStep(k)
  <2>1. UNCHANGED audit /\ UNCHANGED storeVars /\ Does(k, Ready)
    BY <1>4, IdleStaysReady DEF ScratchStep, logVars
  <2> QED BY <1>0, <2>1, TableStays
<1>5. CASE (Kill(k) /\ UNCHANGED <<local, storeVars, shared, scratchVars>>) \/ Start(k)
  <2>1. UNCHANGED audit /\ UNCHANGED storeVars /\ (Does(k, Down) \/ Does(k, Ready))
    BY <1>5 DEF Kill, Start, Boot
  <2> QED BY <1>0, <2>1, TableStays
<1> QED
  BY <1>1, <1>2, <1>3, <1>4, <1>5

-----------------------------------------------------------------------------
MInv == LogOK /\ AccessOK /\ ScratchOK /\ MemoryOK /\ TableOK

LEMMA MInvInit ==
  ASSUME Init
  PROVE  MInv
<1>1. LogOK
  BY DEF Init, LoggerInit, LogOK
<1>2. AccessOK
  BY DEF Init, LoggerInit, AccessOK, AccessesAreAllowed, AccessBacked, Accessing, Ready
<1>3. ScratchOK
  <2>1. \A s \in Stores, h \in Handles : Nowhere[s][h] = none
    BY DEF Nowhere
  <2>2. Nowhere \in [Stores -> [Handles -> {none} \cup [ScratchKeys -> {none} \cup Stamp]]]
    BY DEF Nowhere
  <2>3. lives \in [Stores -> [Handles -> 0..MaxLives]]
    BY EphemeralAssumption DEF Init, EphemeralInit
  <2> QED BY <2>1, <2>2, <2>3, EmptyIsOwn DEF Init, EphemeralInit, ScratchOK
<1>4. MemoryOK
  <2>1. ASSUME NEW D, NEW k \in Kernels PROVE Tells(audit, since[k], k, D, absent)
    BY DEF Init, LoggerInit, Tells, RowsOf
  <2> QED BY <2>1 DEF Init, LocalInit, SharedInit, NoValues, NothingShared, MemoryOK
<1>5. TableOK
  BY DEF Init, LoggerInit, StoreInit, NoValues, TableOK, NoOtherChange, Changing, Ready
<1> QED
  BY <1>1, <1>2, <1>3, <1>4, <1>5 DEF MInv

LEMMA MInvStep ==
  ASSUME MInv, [Next]_vars
  PROVE  MInv'
<1>1. CASE Next
  <2>1. PICK k \in Kernels :
          \/ LocalStep(k) \/ TableStep(k) \/ SharedStep(k) \/ ScratchStep(k)
          \/ Kill(k) /\ UNCHANGED <<local, storeVars, shared, scratchVars>>
          \/ Start(k)
    BY <1>1 DEF Next
  <2> QED
    BY <2>1, LogStep, AccessStep, ScratchStepKeeps, MemoryStep, TableStepKeeps DEF MInv
<1>2. CASE UNCHANGED vars
  <2>1. UNCHANGED <<audit, doing, since, local, shared, rows, acked, alone,
                    memoryMap, checkpoints, lives>>
    BY <1>2 DEF vars, logVars, storeVars, scratchVars
  <2>2. LogOK' /\ ScratchOK' /\ MemoryOK'
    BY <2>1 DEF MInv, LogOK, ScratchOK, MemoryOK, Up
  <2>3. AccessOK'
    <3>1. \A k \in Kernels : AccessBacked(k)'
      BY <2>1 DEF MInv, AccessOK, AccessBacked, Accessing, Evaluation
    <3> QED BY <2>1, <3>1, AllowedUnlessLogged DEF MInv, AccessOK
  <2>4. TableOK'
    BY <2>1 DEF MInv, TableOK, NoOtherChange, Changing, Announced, Change
  <2> QED BY <2>2, <2>3, <2>4 DEF MInv
<1> QED BY <1>1, <1>2

LEMMA MInvInvariant == Spec => []MInv
  <1>1. Init => MInv
    BY MInvInit
  <1>2. MInv /\ [Next]_vars => MInv'
    BY MInvStep
  <1> QED BY <1>1, <1>2, PTL DEF Spec

\* No access of shared memory is logged that the same kernel had not, as the last
\* thing it logged before, found allowed for that agent and that cell
\* (SharedStore over PermissionModel.evaluate), whatever other kernels log.
THEOREM AccessesAllowed == Spec => []AccessesAreAllowed
  <1>1. MInv => AccessesAreAllowed
    BY DEF MInv, AccessOK
  <1> QED BY <1>1, MInvInvariant, PTL

\* What a running kernel holds in its PersistentStore and its SharedStore is what
\* its last entry since it was started says of the cell: replaying them is enough.
THEOREM MemoryLogged == Spec => []MemoryIsLogged
  <1>1. MInv => MemoryIsLogged
    BY ToldMemoryIsLogged DEF MInv
  <1> QED BY <1>1, MInvInvariant, PTL

\* EphemeralStore gives a tick only what that tick of that agent wrote since its
\* memory was last destroyed, through checkpoints, restores and restarts.
THEOREM ScratchOwn == Spec => []ScratchIsOwn
  <1>1. MInv => ScratchIsOwn
    BY OwnMemoryIsOwn DEF MInv
  <1> QED BY <1>1, MInvInvariant, PTL

\* Whatever throws, and whenever a process dies, SqliteStore has no row that the
\* log does not know.
THEOREM TableLogged == Spec => []RowsAreLogged
  <1>1. MInv => RowsAreLogged
    BY TableOKTells DEF MInv
  <1> QED BY <1>1, MInvInvariant, PTL

\* The log tells the row of a cell whose last entry belongs to a call of
\* SqliteStore that returned and that met no other change of the cell.
THEOREM TableTold == Spec => []LogTellsRows
  <1>1. MInv => LogTellsRows
    BY TableOKTells DEF MInv
  <1> QED BY <1>1, MInvInvariant, PTL
=============================================================================
