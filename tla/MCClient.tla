------------------------------- MODULE MCClient -------------------------------
(* One instance of the two halves of the Firestore client, which have a stream *)
(* each and share no state: a behaviour writes, or it listens.                 *)
EXTENDS WritePipeline, FirstEvents

VARIABLE half

clientVars == <<pipelineVars, watchVars, half>>

ClientInit ==
    /\ half \in {"write", "listen"} /\ PipelineInit /\ WatchInit
    /\ half = "listen" => auth = CHOOSE u \in User : TRUE

ClientNext ==
    /\ \/ half = "write" /\ PipelineNext /\ UNCHANGED watchVars
       \/ half = "listen" /\ WatchNext /\ UNCHANGED pipelineVars
    /\ UNCHANGED half

ClientSpec == ClientInit /\ [][ClientNext]_clientVars /\ PipelineFairness /\ WatchFairness
===============================================================================
