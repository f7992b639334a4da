----------------------------- MODULE RunPromise -----------------------------
(***************************************************************************)
(* What a durable run promises to who started it: its steps are done one   *)
(* after the other, each once, by one executor at a time; while it waits   *)
(* for a decision nothing is done, and it goes on only if the decision     *)
(* says so; it succeeds when all its steps are done, and ends once.        *)
(*                                                                         *)
(* Faults void the promise of order.  What is left of it is that each of   *)
(* them adds at most one executor, that the plan stays as it was, that no  *)
(* success is reported with the last step undone, and that an ended run    *)
(* stays as it ended.                                                      *)
(***************************************************************************)
EXTENDS Naturals, FiniteSets

CONSTANTS
    Workers,   \* who may execute steps
    MaxSteps   \* largest plan

VARIABLES
    state,      \* "none", "going", "waiting", or how the run ended
    length,     \* how many steps the run has
    finished,   \* the steps that are done
    executing,  \* the step each worker executes, 0 for none
    answer,     \* what became of the question the run waits for
    faults      \* how many faults there were

promiseVars == <<state, length, finished, executing, answer, faults>>

Nobody == [w \in Workers |-> 0]

Ended == {"succeeded", "failed", "cancelled"}

Init ==
    /\ state = "none"
    /\ length = 0
    /\ finished = {}
    /\ executing = Nobody
    /\ answer = "none"
    /\ faults = 0

Create ==
    /\ state = "none"
    /\ state' = "going"
    /\ length' \in 0..MaxSteps
    /\ UNCHANGED <<finished, executing, answer>>

\* A step may be begun anew after an execution that ended without an outcome.
Begin(w) ==
    /\ state = "going"
    /\ executing = Nobody
    /\ \E s \in (1..length) \ finished :
          /\ 1..(s - 1) \subseteq finished
          /\ executing' = [executing EXCEPT ![w] = s]
    /\ UNCHANGED <<state, length, finished, answer>>

Finish(w) ==
    /\ state = "going"
    /\ executing[w] \in (1..length) \ finished
    /\ finished' = finished \cup {executing[w]}
    /\ executing' = [executing EXCEPT ![w] = 0]
    /\ state' = IF finished' = 1..length THEN "succeeded" ELSE "going"
    /\ UNCHANGED <<length, answer>>

\* An execution ends without an outcome, or with one nobody wants any more.
Stop(w) ==
    /\ executing[w] # 0
    /\ executing' = [executing EXCEPT ![w] = 0]
    /\ UNCHANGED <<state, length, finished, answer>>

\* The run waits.  It may do so without asking, for a question it asked before.
Ask ==
    /\ state = "going"
    /\ state' = "waiting"
    /\ executing' = Nobody
    /\ answer' \in {"pending", "none"}
    /\ UNCHANGED <<length, finished>>

Answer ==
    /\ answer = "pending"
    /\ answer' \in {"resume", "cancel"}
    /\ UNCHANGED <<state, length, finished, executing>>

Resume ==
    /\ state = "waiting"
    /\ answer = "resume"
    /\ state' = "going"
    /\ answer' = "none"
    /\ UNCHANGED <<length, finished, executing>>

\* The executor that fails the run stops; others find the run over later.
Fail ==
    /\ state = "going"
    /\ state' = "failed"
    /\ \/ UNCHANGED executing
       \/ \E w \in Workers : executing' = [executing EXCEPT ![w] = 0]
    /\ UNCHANGED <<length, finished, answer>>

Cancel ==
    /\ state \in {"going", "waiting"}
    /\ state' = "cancelled"
    /\ answer' = "none"
    /\ UNCHANGED <<length, finished, executing>>

\* A run without steps has nothing to do.
Close ==
    /\ state = "going"
    /\ finished = 1..length
    /\ state' = "succeeded"
    /\ UNCHANGED <<length, finished, executing, answer>>

Kept ==
    \/ Create
    \/ \E w \in Workers : Begin(w) \/ Finish(w) \/ Stop(w)
    \/ Ask
    \/ Answer
    \/ Resume
    \/ Fail
    \/ Cancel
    \/ Close

\* What a fault, or any step after one, may still do to a run.
Voided ==
    /\ faults' >= faults
    /\ faults' > 0
    /\ state \notin Ended \cup {"none"}
    /\ state' # "none"
    /\ length' = length
    /\ state' = "succeeded" /\ length > 0 => length \in finished'
    /\ Cardinality({w \in Workers : executing'[w] # 0}) <= 1 + faults'

\* Once a run has ended, all that happens is that executors find out.
Next ==
    \/ (faults = 0 \/ state \in Ended) /\ Kept /\ UNCHANGED faults
    \/ Voided

Spec == Init /\ [][Next]_promiseVars
=============================================================================
