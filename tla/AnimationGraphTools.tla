------------------------- MODULE AnimationGraphTools --------------------------
(***************************************************************************)
(* The programs (ToolSteps) of the tools on animation blueprints: graphs,  *)
(* state machines, layers.                                                 *)
(***************************************************************************)
EXTENDS ToolSteps

\* SageAnimationTools.cpp
CreateStateMachine == {<<Pie, Reject, Open, Record, Edit, Abort, Edit, Dirty>>}
AddState == {<<Pie, Reject, Open, Record, Edit, Dirty>>}
AddTransition == {<<Pie, Reject, Open, Record, Edit, Abort, Edit, Dirty>>}
SetStateAnimation == {<<Pie, Reject, Open, Record, Edit, Dirty>>}
SetTransitionBlend == {<<Pie, Reject, Open, Record, Edit, Dirty>>}
SetTransitionAutomaticRule == {<<Pie, Reject, Open, Record, Edit, Dirty>>}
SetAnimBlueprintSkeleton == {<<Pie, Reject, Open, Record, Edit, Dirty>>}
AddAnimGraphNode == {<<Pie, Reject, Open, Record, Edit, Dirty>>}
RemoveAnimGraphNode == {<<Pie, Reject, Dry, Already, Reject, Open, Record, Edit, Dirty>>}
ConnectPosePin == {<<Pie, Reject, Open, Record, Edit, Dirty>>}
SetAnimNodeProperty == {<<Pie, Reject, Open, Record, Abort, Edit, Dirty>>}
SetLayeredBoneBlendConfig ==
  {<<Pie, Reject, Dry, Already, Open, Record, Edit, Dirty, Abort, Save, Abort>>}
BindAnimNodeProperty ==
  {<<Pie, Reject, Open, Record, Abort, RecordPart, Edit, Abort, EditPart, Edit, Dirty>>}
SetRetargetPoseFromMeshNode ==
  {<<Pie, Reject, Dry, Already, Open, Record, Edit, Abort, Edit, Dirty, Save>>}
AddRetargetPoseFromMeshNode ==
  {<<Pie, Reject>> \o x \o <<Close, Pie, Reject, Already, Open, Record, Edit, Abort,
      Edit, Dirty, Save>> : x \in AddAnimGraphNode}
CopyRetargetProfileFromAsset == {<<Reject, Open, Record, Edit, Dirty>>}
EnsureOwnerLocomotionUpdateEvent == {<<Record, Edit>>}
SetOwnerLocomotionUpdate ==
  {<<Pie, Reject, Open, Record>> \o x \o <<Abort, Record, Edit, Abort, Edit, Abort, Edit,
      Abort, Dirty>> : x \in EnsureOwnerLocomotionUpdateEvent}
SetAnimGraphRootPose == {<<Pie, Reject, Open, Record, Edit, Dirty>>}
AddSequencePlayer == {<<Pie, Reject, Open, Record, Abort, Edit, Dirty>>}
AddBlendSpacePlayer == {<<Pie, Reject, Open, Record, Edit, Abort, Edit, Abort, Dirty>>}
AddStateMachineNode == {<<Pie, Reject, Open, Record, Edit, Dirty>>}
SpawnByClassPath == {<<Pie, Reject, Open, Record, Edit, Dirty>>}
\* AddPinToBlendList of the node opens the scope and calls Modify.
AddBlendListPosePin == {<<Pie, Reject, Open, Record, Edit, Dirty>>}
AddConduit == {<<Pie, Reject, Open, Record, Edit, Dirty>>}
AddStateAlias == {<<Pie, Reject, Open, Record, Edit, Dirty>>}
SetTransitionPriority == {<<Pie, Reject, Open, Record, Edit, Dirty>>}
SetStateMachineInitialState == {<<Pie, Reject, Open, Record, Abort, Edit, Abort, Dirty>>}
SetTransitionRule ==
  {<<Pie, Reject, Open, Record, Edit, Abort, Edit, Abort, Record, Edit, Abort, Dirty>>}
SetStateEnteredEvent == {<<Pie, Reject, Open, Record, Edit, Dirty>>}
ApplyLayerFunctionInputPinsToGraph == {<<Edit, RecordPart, EditPart, Edit, Dirty>>}
CreateAnimLayerInterface == {<<Pie, Reject, Open, Abort, Create, Dirty>>}
AddLayerFunction ==
  {<<Pie, Reject, Open, Record>> \o x
      \o <<Abort>> : x \in ApplyLayerFunctionInputPinsToGraph}
  \cup {<<Pie, Reject, Open, Record, Reject, Edit>> \o x \o <<Abort,
      Dirty>> : x \in ApplyLayerFunctionInputPinsToGraph}
SetLayerFunctionInputPins ==
  {<<Pie, Reject, Open, Record>> \o x
      \o <<Abort>> : x \in ApplyLayerFunctionInputPinsToGraph}
AddLayerFunctionOverride == {<<Pie, Reject, Already, Open, Record, Reject, Edit, Dirty>>}
ImplementAnimLayerInterface == {<<Pie, Reject, Open, Record, Reject, Edit, Reject, Edit, Dirty>>}
AddLinkedAnimLayerNode == {<<Pie, Reject, Open, Record, Edit, Dirty>>}
RemoveLayerFunctionOverride ==
  {<<Pie, Reject, Confirm, Reject, Already, Open, Record, Edit, Dirty>>}
RemoveLayerFunction == {<<Pie, Reject, Confirm, Reject, Already, Open, Record, Edit, Dirty>>}
CreateLinkedLayerPattern ==
  {<<Pie, Reject, Open, Record, Edit, RecordPart, EditPart, Dirty>>}
RepairLinkedAnimLayerNodes == {<<Pie, Reject, Open, Dry, Record, Edit, Dirty>>}
=============================================================================
