---------------------------- MODULE RetargetTools -----------------------------
(***************************************************************************)
(* The programs (ToolSteps) of the IK rig and IK retargeter tools.         *)
(***************************************************************************)
EXTENDS ToolSteps

\* SageAnimationTools.cpp
CreateIKRig ==
  {<<Pie, Reject, Dry, Already, Open, Abort, Create, Dirty, Record, Edit, Dirty, Save>>}
SetIKRigSkeletalMesh ==
  {<<Pie, Reject, Already, Dry, Open, Record, Withdraw, Edit, Dirty, Save>>,
   <<Pie, Reject, Already, Dry, Save>>}
AddIKRetargetChain == {<<Pie, Reject, Dry, Already, Open, Record, Edit, Dirty, Save>>}
RemoveIKRetargetChain == {<<Pie, Reject, Dry, Already, Open, Record, Abort, Edit, Dirty, Save>>}
RenameIKRetargetChain == {<<Pie, Reject, Open, Record, Abort, Edit, Dirty, Save>>}
SetIKRetargetChainBones == {<<Pie, Reject, Open, Record, Edit, Abort, Edit, Dirty, Save>>}
SetIKRetargetChainGoal == {<<Pie, Reject, Open, Record, Abort, Edit, Dirty, Save>>}
SetIKRetargetRoot == {<<Pie, Reject, Open, Record, Abort, Edit, Dirty, Save>>}
AutoGenerateIKRetargetDefinition ==
  {<<Pie, Reject, Dry, Already, Open, Record, Abort, Edit, Dirty, Save>>}
AutoGenerateIKFBIK ==
  {<<Pie, Reject, Dry, Open, Record, Abort, Edit, Dirty, Save>>,
   <<Pie, Reject, Dry, Save>>}
CreateIKRetargeter ==
  {<<Pie, Reject, Dry, Already, Open, Abort, Create, Dirty, Record, Edit, Dirty, Save>>}
SetIKRetargeterRigs == {<<Pie, Reject, Dry, Already, Open, Record, Edit, Dirty, Save>>}
SetupIKRetargeterOps == {<<Pie, Reject, Dry, Already, Open, Record, Edit, Dirty, Save>>}
AddIKRetargeterOp == {<<Pie, Reject, Dry, Already, Open, Record, Abort, Edit, Dirty, Save>>}
RemoveIKRetargeterOp == {<<Pie, Reject, Dry, Already, Open, Record, Abort, Edit, Dirty, Save>>}
MoveIKRetargeterOp == {<<Pie, Reject, Dry, Already, Open, Record, Abort, Edit, Dirty, Save>>}
SetIKRetargeterOpEnabled == {<<Pie, Reject, Dry, Already, Open, Record, Abort, Edit, Dirty, Save>>}
AutoMapIKRetargeterChains == {<<Pie, Reject, Dry, Already, Open, Record, Edit, Dirty, Save>>}
ResetIKRetargeterChainSettings == {<<Pie, Reject, Dry, Already, Open, Record, Edit, Dirty, Save>>}
SetIKRetargeterIKChainSettings == {<<Pie, Reject, Dry, Already, Open, Record, Edit, Dirty, Save>>}
SetIKRetargeterFKChainSettings == {<<Pie, Reject, Dry, Already, Open, Record, Edit, Dirty, Save>>}
SetIKRetargeterChainMapping ==
  {<<Pie, Reject, Dry, Already, Open, Record, Abort, Edit, Dirty, Save>>}
SetIKRetargeterPose ==
  {<<Pie, Reject, Dry, Already, Open, Record, Abort, Edit, Abort, Edit, Abort, Dirty,
      Save>>}
=============================================================================
