---------------------------- MODULE MCAdmission ----------------------------
(***************************************************************************)
(* Instances for TLC of what brings a bot into a meeting: the credits it   *)
(* is paid from, the admission of bots to one meeting, and the browser     *)
(* that joins it. They share no variable; a behaviour is one of one of     *)
(* them, which service chooses. The admission has two instances: two bots, *)
(* created at once or scheduled, none of which is replaced; and three bots *)
(* of one hour, none of them scheduled.                                    *)
(***************************************************************************)
EXTENDS CreditLedger, BotAdmission, MeetingJoin

VARIABLE service

\* Bots cost two centicredits, a payment brings three and an adjustment one, so
\* that no two ways of losing or repeating a transaction leave the same balance.
MCAmount == [j \in Jobs |-> IF j \in Bots THEN -2 ELSE IF j \in Payments THEN 3 ELSE 1]

serviceVars == <<service, vars, admissionVars, joinVars>>

\* The variables of the other services keep their values.
OnlyLedger == service = "ledger" /\ UNCHANGED <<service, admissionVars, joinVars>>
OnlyAdmission ==
    service \in {"launching", "recovery"} /\ UNCHANGED <<service, vars, joinVars>>
OnlyJoin == service = "join" /\ UNCHANGED <<service, vars, admissionVars>>

\* What the two instances of the admission leave out.
WithoutRecovery == service = "launching" /\ UNCHANGED recovery /\ Len(rows') <= 2
WithoutSchedule ==
    /\ service = "recovery" /\ UNCHANGED <<launcher, hour>>
    /\ \A b \in DOMAIN rows' : rows'[b].state # "SCHEDULED"
    /\ \A c \in Creators : creation'[c].at = AtOnce

ServiceInit ==
    /\ service \in {"ledger", "launching", "recovery", "join"}
    /\ Init /\ AdmissionInit /\ JoinInit
    /\ service = "join" \/ (joiner.platform = "google" /\ joiner.login = "none")

\* The restrictions come last: they read what AdmissionNext assigns.
ServiceNext ==
    \/ OnlyLedger /\ Next
    \/ OnlyAdmission /\ AdmissionNext /\ (WithoutRecovery \/ WithoutSchedule)
    \/ OnlyJoin /\ JoinNext

\* The workers, the clean-up command and the joining thread go on with what they
\* do, and time passes; what users, hosts and pages do is not fair.
ServiceSpec ==
    /\ ServiceInit /\ [][ServiceNext]_serviceVars
    /\ \A w \in Workers : SF_vars(service = "ledger" /\ Step(w))
    /\ WF_admissionVars(service \in {"launching", "recovery"} /\ CleanUpUnlaunched)
    /\ WF_admissionVars(service \in {"launching", "recovery"} /\ HourPasses)
    /\ WF_joinVars(service = "join" /\ JoinThread)
    /\ WF_joinVars(service = "join" /\ HostUserOverdue)
=============================================================================
