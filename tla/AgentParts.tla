----------------------------- MODULE AgentParts -----------------------------
(***************************************************************************)
(* The parts an agent is built from, side by side: its loop with budget    *)
(* and guards, its open questions, its chat history, the hand-over to      *)
(* child agents, the results of asynchronous children, the tools agents    *)
(* share, and the tools an agent is offered.  They share no state (what    *)
(* they exchange is data the model of each part leaves open), so a         *)
(* behaviour takes the steps of one of them only.                          *)
(***************************************************************************)
EXTENDS Sgr, ChatHistory, Delegation, SharedTools, ToolSurface, AsyncChildren, AgentLoop

VARIABLE part   \* the component whose steps this behaviour takes

vars == <<part, sgrVars, chatVars, delegationVars, sharedVars, surfaceVars, childVars, loopVars>>

\* A part that does not move stays in one of its initial states.
Init ==
    /\ part \in {"sgr", "chat", "delegation", "shared", "surface", "children", "loop"}
    /\ SgrInit /\ ChatInit /\ DelegationInit /\ SharedInit /\ SurfaceInit /\ ChildrenInit
    /\ LoopInit
    /\ part # "chat" => strategy = CHOOSE s \in Strategy : TRUE
    /\ part # "delegation" => fixture
    /\ part # "loop" => ~single

Next ==
    /\ UNCHANGED part
    /\ \/ part = "sgr" /\ SgrNext
          /\ UNCHANGED <<chatVars, delegationVars, sharedVars, surfaceVars, childVars, loopVars>>
       \/ part = "chat" /\ ChatNext
          /\ UNCHANGED <<sgrVars, delegationVars, sharedVars, surfaceVars, childVars, loopVars>>
       \/ part = "delegation" /\ DelegationNext
          /\ UNCHANGED <<sgrVars, chatVars, sharedVars, surfaceVars, childVars, loopVars>>
       \/ part = "shared" /\ SharedNext
          /\ UNCHANGED <<sgrVars, chatVars, delegationVars, surfaceVars, childVars, loopVars>>
       \/ part = "surface" /\ SurfaceNext
          /\ UNCHANGED <<sgrVars, chatVars, delegationVars, sharedVars, childVars, loopVars>>
       \/ part = "children" /\ ChildrenNext
          /\ UNCHANGED <<sgrVars, chatVars, delegationVars, sharedVars, surfaceVars, loopVars>>
       \/ part = "loop" /\ LoopNext
          /\ UNCHANGED <<sgrVars, chatVars, delegationVars, sharedVars, surfaceVars, childVars>>

\* The thread of the loop runs on and every request is answered or fails (the
\* client has a timeout, the retries are three).
Spec == Init /\ [][Next]_vars /\ WF_vars(part = "loop" /\ Next)

\* Every part keeps the types of its variables.
PartsTypeOK == SgrTypeOK /\ ChatTypeOK /\ DelegationTypeOK /\ ChildrenTypeOK
               /\ LoopTypeOK

(* Agents share tools without mixing up their callers: the log and the     *)
(* claims keep what each was told, a builtin acts for the agent that calls *)
(* it, and no chain of spawns outgrows the limit.                          *)
ToolsKnowTheirCaller == IndexNamesEntry /\ ClaimHolds /\ ActsForItself /\ DepthBounded

\* The run of an agent ends, whatever the model answers.
AgentEnds == part = "loop" ~> phase = "over"
==============================================================================
