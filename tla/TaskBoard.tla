------------------------------ MODULE TaskBoard ------------------------------
(***************************************************************************)
(* What /getStatus promises a client about a task: the status it reads is  *)
(* one that something really led to.  SUCCESS means that an execution of   *)
(* the task succeeded, FAILURE that one failed or that the budget of       *)
(* attempts was used up.  A task may be reopened or deleted at any time.   *)
(***************************************************************************)
CONSTANT Tasks

VARIABLES status,   \* what a client reads: NONE, PENDING, SUCCESS or FAILURE
          ended     \* how the executions and the budget of the task ended

Init ==
  /\ status = [t \in Tasks |-> "NONE"]
  /\ ended = [t \in Tasks |-> {}]

(* The outcomes that justify a status.                                     *)
Grounds(s) == IF s = "SUCCESS" THEN {"SUCCESS"} ELSE {"FAILURE", "EXHAUSTED"}

End(t, o) ==
  /\ ended' = [ended EXCEPT ![t] = @ \cup {o}]
  /\ UNCHANGED status

Publish(t, s) ==
  /\ Grounds(s) \cap ended[t] # {}
  /\ status' = [status EXCEPT ![t] = s]
  /\ UNCHANGED ended

(* The task is created or handed out again, or its record is deleted.      *)
Reset(t, s) ==
  /\ status' = [status EXCEPT ![t] = s]
  /\ UNCHANGED ended

Next ==
  \E t \in Tasks :
    \/ \E o \in {"SUCCESS", "FAILURE", "EXHAUSTED"} : End(t, o)
    \/ \E s \in {"SUCCESS", "FAILURE"} : Publish(t, s)
    \/ \E s \in {"NONE", "PENDING"} : Reset(t, s)

Spec == Init /\ [][Next]_<<status, ended>>
=============================================================================
