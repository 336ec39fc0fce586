------------------------------- MODULE MCTopic -------------------------------
(***************************************************************************)
(* Topic on small instances.  Each workload lets two callers race over a   *)
(* few kinds of calls; together they make every call race every other one  *)
(* that touches the same state.                                            *)
(***************************************************************************)
EXTENDS Topic, TLC

Symmetry == Permutations(Callers) \cup Permutations(Msgs)

Workload(calls, names, msgs, ephemeral) ==
    [calls |-> calls, names |-> names, msgs |-> msgs, ephemeral |-> ephemeral]

Publish == Workload({"PutMessage", "PutMessages", "GetChannel"}, {"a"}, 2, FALSE)

FanOut == Workload({"PutMessage", "GetChannel"}, {"a", "b"}, 1, FALSE)

PauseUnPause ==
    Workload({"PutMessage", "GetChannel", "Pause", "UnPause"}, {"a"}, 1, FALSE)

EmptyTopic == Workload({"PutMessage", "GetChannel", "Empty"}, {"a"}, 2, FALSE)

CloseTopic == Workload({"PutMessages", "GetChannel", "Close"}, {"a"}, 2, FALSE)

DeleteTopic ==
    Workload({"PutMessage", "GetChannel", "DeleteTopic", "StepDown"}, {"a"}, 1,
             FALSE)

DeleteEphemeral ==
    Workload({"PutMessages", "GetChannel", "DeleteChannel", "StepDown"}, {"a"},
             2, TRUE)

AllWorkloads == {Publish, FanOut, PauseUnPause, EmptyTopic, CloseTopic,
                 DeleteTopic, DeleteEphemeral}

CloseRace == Workload({"GetChannel", "Close"}, {"a"}, 0, FALSE)

LiveWorkloads == {CloseRace, PauseUnPause}

RaceWorkloads == {FanOut}
=============================================================================
