-------------------------- MODULE MCContainerLink --------------------------
(* The container and the receiving half of the link, which share no state,   *)
(* in one run of TLC: a behaviour is one of either (which), the variables of  *)
(* the other stay as they are.                                                *)
EXTENDS MCContainer, ExecutionLinkReceive, TLC

(* Frames of two bytes.  Partition 0 gets two frames and the beginning of a   *)
(* third, so a poll can end inside a frame, complete one or several, and a    *)
(* flush can find a frame incomplete; partition 1 gets one frame, so          *)
(* versions are published that have news of one partition only.               *)
MCMaxBytes == 0 :> 5 @@ 1 :> 2
MCPartitionMask == [r \in Readers |-> Partitions]
MCPayload == [Partitions -> [m_pos : Positions, m_end : Positions]]
MCBlank == [p \in Partitions |-> [m_pos |-> 0, m_end |-> 0]]

-----------------------------------------------------------------------------
VARIABLE which
bothVars == <<which, containerVars, linkVars>>

BothInit == which \in {"container", "link"} /\ ContainerInit /\ LinkInit

BothNext ==
    \/ which = "container" /\ ContainerNext /\ UNCHANGED <<which, linkVars>>
    \/ which = "link" /\ LinkNext /\ UNCHANGED <<which, containerVars>>

(* The fairness of FairContainerSpec and of LinkSpec, each in the behaviours   *)
(* of its part.                                                               *)
ContainerFairness ==
    /\ WF_containerVars(which = "container" /\ Starting)
    /\ WF_containerVars(which = "container" /\ NothingToRunFor /\ stop)
    /\ WF_containerVars(which = "container" /\ Stopping)
    /\ \A t \in Thread : WF_containerVars(which = "container" /\ ThreadStep(t))
    /\ \A g \in Task : WF_containerVars(which = "container" /\ LoopStep(g))

LinkFairness ==
    /\ WF_linkVars(which = "link" /\ link_step)
    /\ \A r \in Readers : WF_linkVars(which = "link" /\ agent_step(r))
    /\ WF_linkVars(which = "link" /\ link_rcu)

BothSpec ==
    /\ BothInit /\ [][BothNext]_bothVars
    /\ ContainerFairness /\ LinkFairness
=============================================================================
