---------------------------- MODULE JobLifecycle ----------------------------
(***************************************************************************)
(* What the job queue promises its callers, with the scheduling, the       *)
(* sessions and the storage left out: the life of a job record as          *)
(* GET /jobs/:id shows it.  JobQueue is shown to implement it.             *)
(***************************************************************************)
EXTENDS Naturals, FiniteSets

CONSTANTS
  Job,             \* jobs a client may submit
  Attempts,        \* request.attempts of each job
  MaxConcurrency   \* concurrent job sessions

VARIABLES
  status,          \* JobInfo.status; "none" before submit, "gone" once pruned
  attempt          \* JobInfo.attempt; 0 before submit

lifecycle == <<status, attempt>>

Outcome == {"succeeded", "failed", "canceled"}
Status  == {"none", "queued", "running", "parked", "gone"} \cup Outcome

Init ==
  /\ status  = [j \in Job |-> "none"]
  /\ attempt = [j \in Job |-> 0]

Submit(j) ==
  /\ status[j] = "none"
  /\ status'  = [status  EXCEPT ![j] = "queued"]
  /\ attempt' = [attempt EXCEPT ![j] = 1]

(* A slot is taken: at most MaxConcurrency jobs run when a job is claimed.  *)
Claim(j) ==
  /\ status[j] = "queued"
  /\ Cardinality({i \in Job : status[i] = "running"}) < MaxConcurrency
  /\ status' = [status EXCEPT ![j] = "running"]
  /\ UNCHANGED attempt

Park(j) ==
  /\ status[j] = "running"
  /\ status' = [status EXCEPT ![j] = "parked"]
  /\ UNCHANGED attempt

Resume(j) ==
  /\ status[j] = "parked"
  /\ status' = [status EXCEPT ![j] = "running"]
  /\ UNCHANGED attempt

(* A failed run goes back to the queue only while attempts are left.        *)
Retry(j) ==
  /\ status[j] \in {"running", "parked"}
  /\ attempt[j] < Attempts[j]
  /\ status'  = [status  EXCEPT ![j] = "queued"]
  /\ attempt' = [attempt EXCEPT ![j] = @ + 1]

(* A parked run cannot succeed, a queued one can only be canceled.          *)
Finish(j, outcome) ==
  /\ \/ status[j] = "running"
     \/ status[j] = "parked" /\ outcome # "succeeded"
     \/ status[j] = "queued" /\ outcome = "canceled"
  /\ status' = [status EXCEPT ![j] = outcome]
  /\ UNCHANGED attempt

(* Retention removes finished jobs only.                                    *)
Prune(jobs) ==
  /\ \A j \in jobs : status[j] \in Outcome
  /\ status' = [j \in Job |-> IF j \in jobs THEN "gone" ELSE status[j]]
  /\ UNCHANGED attempt

Next ==
  \/ \E j \in Job : \/ Submit(j) \/ Claim(j) \/ Park(j) \/ Resume(j) \/ Retry(j)
                    \/ \E outcome \in Outcome : Finish(j, outcome)
  \/ \E jobs \in SUBSET Job : Prune(jobs)

Spec == Init /\ [][Next]_lifecycle

=============================================================================
