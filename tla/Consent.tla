------------------------------- MODULE Consent -------------------------------
(***************************************************************************)
(* What approving a client means, without its machinery: a request waits   *)
(* until it is approved or ends; only a request whose code was typed in    *)
(* the browser that asked, within MaxAttempts tries, is approved; only an  *)
(* approved request connects, once; and what has ended never comes back.   *)
(***************************************************************************)
EXTENDS Naturals

CONSTANTS Requests, MaxAttempts

VARIABLES status, tries, typed

consentVars == <<status, tries, typed>>

States == {"none", "waiting", "approved", "connected", "ended"}

ConsentInit ==
    /\ status = [r \in Requests |-> "none"]
    /\ tries = [r \in Requests |-> 0]
    /\ typed = {}

Ask(r) ==
    /\ status[r] = "none"
    /\ status' = [status EXCEPT ![r] = "waiting"]
    /\ UNCHANGED <<tries, typed>>

\* A try may still be compared after its request has ended under it.
Try(r, right) ==
    /\ status[r] \in {"waiting", "ended"}
    /\ tries[r] < MaxAttempts
    /\ tries' = [tries EXCEPT ![r] = @ + 1]
    /\ typed' = IF right THEN typed \union {r} ELSE typed
    /\ UNCHANGED status

Approve(r) ==
    /\ status[r] = "waiting"
    /\ r \in typed
    /\ status' = [status EXCEPT ![r] = "approved"]
    /\ UNCHANGED <<tries, typed>>

Connect(r) ==
    /\ status[r] = "approved"
    /\ status' = [status EXCEPT ![r] = "connected"]
    /\ UNCHANGED <<tries, typed>>

\* Denied, expired, locked out, lost in a restart, or revoked; several at once.
\* One of them may already be past recall: it is approved all the same.
End(ending, decided) ==
    /\ \A r \in decided : status[r] = "waiting" /\ r \in typed
    /\ status' = [r \in Requests |-> IF r \in decided THEN "approved"
                                    ELSE IF r \in ending THEN "ended" ELSE status[r]]
    /\ UNCHANGED <<tries, typed>>

ConsentNext ==
    \/ \E r \in Requests :
         \/ Ask(r)
         \/ \E right \in BOOLEAN : Try(r, right)
         \/ Approve(r)
         \/ Connect(r)
    \/ \E ending, decided \in SUBSET Requests : End(ending, decided)

Spec == ConsentInit /\ [][ConsentNext]_consentVars

=============================================================================
