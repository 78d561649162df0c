-------------------------------- MODULE MCSaga --------------------------------
(* Instances of sagas and tasks for TLC. *)
EXTENDS SagaProperties, TLC

CONSTANTS s1, s2, w1, w2, manager, member

\* follow_up_call, the definition in the registry: leave a task, then finish.
FollowUpCall == 0 :> "task" @@ 1 :> "done"

\* A definition that does something first and whose last step is a task.
EndsWithTask == 0 :> "next" @@ 1 :> "task"

Registry == s1 :> FollowUpCall @@ s2 :> EndsWithTask

StepTask == {s1, s2} \X {0, 1}
=============================================================================
