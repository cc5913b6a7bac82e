---------------------------- MODULE EditorToolset -----------------------------
(***************************************************************************)
(* Every mutating tool of the plugin, by the function that registers it.   *)
(***************************************************************************)
EXTENDS
  AITools, ActorTools, AssetTools, AssetAdvancedTools, LevelTools,
  WidgetTools, MaterialTools, BlueprintTools, NiagaraTools,
  AnimationAssetTools, AnimationGraphTools, RetargetTools

RegisterAnimationTools == UNION {
  CreateBlendMask, AddSkeletonBone, ControlRigSetPreviewMesh,
  ControlRigSetControlTransform, ControlRigAddControl,
  ControlRigRemoveControl, CopyBoneTracks, SaveAnimationAsset,
  CreateAnimBlueprint, CreateMontage, CreateBlendSpace, AddNotify,
  CreateAnimSequence, SetBoneKeyframes, SetMontageSequence,
  SetMontageProperties, SetRootMotion, AddVirtualBone, RemoveVirtualBone,
  CreateComposite, SetAnimationAssetSkeleton, BakeRootMotionFromBone,
  RetargetAnimations, CreatePoseSearchDatabase, SetPoseSearchSchema,
  AddPoseSearchSequence, BuildPoseSearchIndex, SetSequenceProperties,
  AddCurve, CreateAnimNotify, CreateAnimNotifyState, AddBlendSpaceSample,
  SetBlendSpaceSamples, SetMontageSlot, AddMontageSection, AddNotifyTrack,
  RemoveNotify, SetNotifyPosition, RemoveBlendSpaceSample, SetBlendSpaceAxis,
  SetBlendSpaceSmoothing, SetBlendSpaceTargetWeight, AddSyncMarker,
  RemoveSyncMarker, SetCurveCompression, RunAnimationModifier,
  AddAnimationModifier, SetSequenceAdditive, SetSequenceCompression,
  AddMontageBranchingPoint, SetMontageBlendCurve, SetMontageSectionLoop,
  SetMontageSectionNext, CopyAnimationCurves, AddSkeletonSocket,
  RemoveSkeletonSocket, AddSlot, AddSlotGroup, SetBoneRetargeting,
  AddSkeletonCurveMetadata, CreateStateMachine, AddState, AddTransition,
  SetStateAnimation, SetTransitionBlend, SetTransitionAutomaticRule,
  SetAnimBlueprintSkeleton, AddAnimGraphNode, RemoveAnimGraphNode,
  ConnectPosePin, SetAnimNodeProperty, SetLayeredBoneBlendConfig,
  BindAnimNodeProperty, SetRetargetPoseFromMeshNode,
  AddRetargetPoseFromMeshNode, CopyRetargetProfileFromAsset,
  SetOwnerLocomotionUpdate, SetAnimGraphRootPose, AddSequencePlayer,
  AddBlendSpacePlayer, AddStateMachineNode, SpawnByClassPath,
  AddBlendListPosePin, AddConduit, AddStateAlias, SetTransitionPriority,
  SetStateMachineInitialState, SetTransitionRule, SetStateEnteredEvent,
  CreateAnimLayerInterface, AddLayerFunction, SetLayerFunctionInputPins,
  AddLayerFunctionOverride, ImplementAnimLayerInterface,
  AddLinkedAnimLayerNode, RemoveLayerFunctionOverride, RemoveLayerFunction,
  CreateLinkedLayerPattern, RepairLinkedAnimLayerNodes, CreateIKRig,
  SetIKRigSkeletalMesh, AddIKRetargetChain, RemoveIKRetargetChain,
  RenameIKRetargetChain, SetIKRetargetChainBones, SetIKRetargetChainGoal,
  SetIKRetargetRoot, AutoGenerateIKRetargetDefinition, AutoGenerateIKFBIK,
  CreateIKRetargeter, SetIKRetargeterRigs, SetupIKRetargeterOps,
  AddIKRetargeterOp, RemoveIKRetargeterOp, MoveIKRetargeterOp,
  SetIKRetargeterOpEnabled, AutoMapIKRetargeterChains,
  ResetIKRetargeterChainSettings, SetIKRetargeterIKChainSettings,
  SetIKRetargeterFKChainSettings, SetIKRetargeterChainMapping,
  SetIKRetargeterPose}

RegisterDomainTools == UNION {
  RegisterAITools, RegisterActorTools, RegisterComponentTools,
  RegisterCompareSetTools, RegisterReferenceParityTools, RegisterGasTools,
  RegisterPcgTools, RegisterFoliageTools, RegisterLandscapeTools,
  RegisterNetworkingTools, RegisterAssetTools, RegisterAudioTools,
  RegisterEditorAutomationTools, RegisterMeshTools,
  RegisterAssetAdvancedTools, RegisterLevelTools, RegisterSequencerTools,
  RegisterGameplayTools, RegisterWidgetTools, RegisterMaterialTools,
  RegisterMaterialGraphTools, RegisterBlueprintTools, RegisterNiagaraTools,
  RegisterAnimationTools}
=============================================================================
