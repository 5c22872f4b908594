----------------------------- MODULE Permissions -----------------------------
(***************************************************************************)
(* Grants and PermissionModel.evaluate (permissions/model.ts) as           *)
(* operators: what a set of grants allows at a time, and what evaluate     *)
(* makes of the answers of its policies.                                   *)
(***************************************************************************)
EXTENDS Naturals, Sequences

CONSTANTS Actions, Resources      \* what grants may name, "*" aside

\* notAfter 0 stands for its absence: the code tests it for truth.
Grant == [action : Actions \cup {"*"}, resource : Resources \cup {"*"}, notAfter : Nat]

\* A grant of the list matches and is live at time t.
Allows(grants, action, resource, t) ==
  \E g \in grants : /\ g.action \in {"*", action}
                    /\ g.resource \in {"*", resource}
                    /\ g.notAfter = 0 \/ g.notAfter > t

\* What a policy may answer, throwing included.
Answers == {"ALLOW", "ESCALATE", "DENY", "THROW"}

\* The policies are asked in their order until one denies or throws; an
\* escalation is remembered meanwhile.
Verdict(allowed, answers) ==
  LET Stops(i) == answers[i] \in {"DENY", "THROW"}
  IN CASE ~allowed -> "DENY"
       [] allowed /\ \E i \in DOMAIN answers : Stops(i) ->
            answers[CHOOSE i \in DOMAIN answers : Stops(i) /\ \A j \in 1..(i - 1) : ~Stops(j)]
       [] OTHER -> IF \E i \in DOMAIN answers : answers[i] = "ESCALATE"
                     THEN "ESCALATE" ELSE "ALLOW"
=============================================================================
