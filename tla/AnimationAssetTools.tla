------------------------- MODULE AnimationAssetTools --------------------------
(***************************************************************************)
(* The programs (ToolSteps) of the tools on animation assets: sequences,   *)
(* montages, blend spaces, skeletons, control rigs, pose search.           *)
(***************************************************************************)
EXTENDS ToolSteps

\* SageAnimationTools.cpp
CreateBlendMask == {<<Pie, Reject, Dry, Already, Open, Record, Abort, Edit, Dirty, Save>>}
AddSkeletonBone ==
  {<<Pie, Reject, Already, Reject, Dry, Already, Confirm, Open, Record, Abort, Edit,
      Dirty, Save>>}
ControlRigSetPreviewMesh == {<<Pie, Reject, Dry, Already, Open, Record, Edit, Dirty, Save>>}
ControlRigSetControlTransform == {<<Pie, Reject, Dry, Already, Open, Record, Edit, Dirty, Save>>}
ControlRigAddControl == {<<Pie, Reject, Dry, Already, Open, Record, Reject, Edit, Dirty, Save>>}
ControlRigRemoveControl == {<<Pie, Reject, Dry, Already, Confirm, Open, Record, Edit, Dirty, Save>>}
\* EditPart: the data model behind the controller, which is told not to
\* record (bShouldTransact=false); here and in the tools below.
CopyBoneTracks == {<<Pie, Reject, Dry, Record, Open, EditPart, Dirty, Save>>}
SaveAnimationAsset == {<<Reject, Save>>}
CreateAnimBlueprint == {<<Pie, Reject, Open, Abort, Create, Dirty>>}
CreateMontage == {<<Pie, Reject, Open, Abort, Create, Dirty>>}
CreateBlendSpace == {<<Pie, Reject, Open, Abort, Create, Dirty>>}
AddNotify == {<<Pie, Reject, Open, Record, Edit, Dirty>>}
CreateAnimSequence == {<<Pie, Reject, Open, Abort, Record, Abort, Create, Dirty>>}
SetBoneKeyframes == {<<Pie, Reject, Open, Record, EditPart, Reject, EditPart, Dirty>>}
SetMontageSequence == {<<Pie, Reject, Open, Record, Edit, Reject, Edit, Dirty>>}
SetMontageProperties == {<<Pie, Reject, Open, Record, Edit, Dirty>>}
SetRootMotion == {<<Pie, Reject, Open, Dry, Record, Edit, Dirty, Save>>}
AddVirtualBone == {<<Pie, Reject, Already, Reject, Open, Record, Abort, Edit, Dirty>>}
RemoveVirtualBone == {<<Pie, Reject, Open, Edit, Dirty>>}
CreateComposite == {<<Pie, Reject, Open, Abort, Create, Dirty>>}
SetAnimationAssetSkeleton == {<<Pie, Reject, Open, Dry, Record, Edit, Dirty, Save, Withdraw>>}
BakeRootMotionFromBone ==
  {<<Pie, Reject, Dry, Already, Open, Record, EditPart, Reject, EditPart, Reject,
      EditPart, Close, Edit, Dirty>>}
RetargetAnimations == {<<Pie, Reject, Dry, Already, Reject, Create>>}
CreatePoseSearchDatabase == {<<Pie, Reject, Already, Open, Abort, Create, Dirty>>}
SetPoseSearchSchema == {<<Pie, Reject, Open, Record, Reject, Edit, Dirty>>}
AddPoseSearchSequence == {<<Pie, Reject, Open, Record, Edit, Reject, Edit, Dirty>>}
BuildPoseSearchIndex == {<<Pie, Reject, Record, Dirty>>}
SetSequenceProperties == {<<Pie, Reject, Open, Record, Edit, Dirty>>}
AddCurve == {<<Pie, Reject, Open, Record, Edit, Dirty>>}
CreateAnimNotifyClass == {<<Reject, Open, Abort, Create, Dirty>>}
CreateAnimNotify == {<<Pie>> \o x : x \in CreateAnimNotifyClass}
CreateAnimNotifyState == {<<Pie>> \o x : x \in CreateAnimNotifyClass}
AddBlendSpaceSample == {<<Pie, Reject, Open, Record, Edit, Dirty>>}
SetBlendSpaceSamples == {<<Pie, Reject, Open, Record, Edit, Dirty>>}
SetMontageSlot == {<<Pie, Reject, Open, Record, Edit, Dirty>>}
AddMontageSection == {<<Pie, Reject, Open, Record, Edit, Dirty>>}
AddNotifyTrack == {<<Pie, Reject, Open, Record, Edit, Dirty>>}
RemoveNotify == {<<Pie, Reject, Open, Record, Edit, Dirty>>}
SetNotifyPosition == {<<Pie, Reject, Open, Record, Edit, Dirty>>}
RemoveBlendSpaceSample == {<<Pie, Reject, Open, Record, Edit, Dirty>>}
SetBlendSpaceAxis == {<<Pie, Reject, Open, Record, Edit, Dirty>>}
SetBlendSpaceSmoothing == {<<Pie, Reject, Open, Record, Edit, Dirty>>}
SetBlendSpaceTargetWeight == {<<Pie, Reject, Open, Record, Edit, Dirty>>}
AddSyncMarker == {<<Pie, Reject, Open, Record, Edit, Dirty>>}
RemoveSyncMarker == {<<Pie, Reject, Open, Record, Edit, Dirty>>}
SetCurveCompression == {<<Pie, Reject, Open, Record, Abort, Edit, Dirty>>}
RunAnimationModifier == {<<Pie, Reject, Dry, Already, Open, Record, Edit, Dirty>>}
AddAnimationModifier == {<<Pie, Reject, Dry, Already, Open, Record, Abort, Edit, Dirty>>}
SetSequenceAdditive == {<<Pie, Reject, Open, Record, Edit, Dirty>>}
SetSequenceCompression == {<<Pie, Reject, Open, Record, Abort, Edit, Dirty>>}
AddMontageBranchingPoint == {<<Pie, Reject, Open, Record, Edit, Dirty>>}
SetMontageBlendCurve == {<<Pie, Reject, Open, Record, Edit, Dirty>>}
SetMontageSectionLoop == {<<Pie, Reject, Open, Record, Edit, Dirty>>}
SetMontageSectionNext == {<<Pie, Reject, Open, Record, Edit, Dirty>>}
CopyAnimationCurves == {<<Pie, Reject, Dry, Record, Open, EditPart, Close, Dirty>>}
AddSkeletonSocket == {<<Pie, Reject, Open, Record, Edit, Dirty>>}
RemoveSkeletonSocket == {<<Pie, Reject, Open, Record, Edit, Dirty>>}
AddSlot == {<<Pie, Reject, Open, Record, Edit, Dirty>>}
AddSlotGroup == {<<Pie, Reject, Open, Record, Edit, Dirty>>}
SetBoneRetargeting == {<<Pie, Reject, Open, Record, Edit, Dirty>>}
AddSkeletonCurveMetadata == {<<Pie, Reject, Open, Record, Abort, Edit, Dirty>>}
=============================================================================
