---------------------------- MODULE StagePipeline ----------------------------
(***************************************************************************)
(* What the stage orchestrator promises about a task, without leases,      *)
(* attempts, nodes and faults: its stages are completed one after the      *)
(* other, it succeeds exactly when the last one is, it may fail or be      *)
(* cancelled at any time before that, and it ends once, with one callback. *)
(***************************************************************************)
EXTENDS Naturals

CONSTANTS Task, Stages

VARIABLES
    done,     \* the completed stages of a task
    verdict,  \* "open" or how the task ended
    told      \* callbacks created for its end

pipeVars == <<done, verdict, told>>

PipeInit ==
    /\ done = [t \in Task |-> {}]
    /\ verdict = [t \in Task |-> "open"]
    /\ told = [t \in Task |-> 0]

Announce(t) == told' = [told EXCEPT ![t] = @ + 1]

Advance(t) ==
    \E s \in 1..Stages :
        /\ verdict[t] = "open"
        /\ done[t] = 1..(s - 1)
        /\ done' = [done EXCEPT ![t] = 1..s]
        /\ IF s = Stages
           THEN verdict' = [verdict EXCEPT ![t] = "succeeded"] /\ Announce(t)
           ELSE UNCHANGED <<verdict, told>>

End(t) ==
    /\ verdict[t] = "open"
    /\ \E v \in {"failed", "cancelled"} : verdict' = [verdict EXCEPT ![t] = v]
    /\ Announce(t)
    /\ UNCHANGED done

PipeNext == \E t \in Task : Advance(t) \/ End(t)

PipeSpec == PipeInit /\ [][PipeNext]_pipeVars
=============================================================================
