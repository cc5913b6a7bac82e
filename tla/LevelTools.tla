------------------------------ MODULE LevelTools ------------------------------
(***************************************************************************)
(* The programs (ToolSteps) of the level, sequencer and gameplay tools.    *)
(***************************************************************************)
EXTENDS ToolSteps

\* SageLevelTools.cpp
LevelCreate == {<<Pie, Reject, Confirm, Reject, Create, Dirty, Reject, SaveNow>>}
LevelSpawnVolume == {<<Pie, Reject, Open, Reject, Create>>}
LevelSetVolumeProperties == {<<Pie, Reject, Open, Record, Edit, Dirty>>}
LevelSpawnLight == {<<Pie, Reject, Open, Reject, Create>>}
LevelSetLightProperties == {<<Pie, Reject, Open, Record, Edit, Dirty>>}
LevelSetFogProperties == {<<Pie, Reject, Open, Record, Edit, Dirty>>}
LevelSetSplinePoints == {<<Pie, Reject, Open, Record, Edit, Dirty>>}
LevelSetActorMaterial == {<<Pie, Reject, Open, Record, Edit, Dirty>>}
LevelSetWorldSettings == {<<Pie, Reject, Open, Record, Abort, Edit, Abort, Edit, Abort, Dirty>>}
LyraSetDefaultGameplayExperience_NoCancel == {<<Pie, Reject, Open, Record, Abort, Edit, Reject, Edit, Dirty>>}
LyraSetDefaultGameplayExperience == {<<Pie, Reject, Open, Record, Abort, Edit, Abort, Dirty>>}
LevelSetWaterBodyProperty == {<<Pie, Reject, Open, Record, Reject, Edit, Dirty>>}
FindOrCreateInstancedComponent == {<<Edit>>, <<RecordPart, EditPart>>}
AddInstancedMeshInstances ==
  {<<Pie, Reject, Open, Record>> \o x \o <<Abort, RecordPart, EditPart,
      Dirty>> : x \in FindOrCreateInstancedComponent}
IsmOps == {<<Reject, Pie, Confirm, Open, Record, Edit, Dirty>>}

RegisterLevelTools == UNION {
  LevelCreate, LevelSpawnVolume, LevelSetVolumeProperties, LevelSpawnLight,
  LevelSetLightProperties, LevelSetFogProperties, LevelSetSplinePoints,
  LevelSetActorMaterial, LevelSetWorldSettings,
  LyraSetDefaultGameplayExperience, LevelSetWaterBodyProperty,
  AddInstancedMeshInstances, IsmOps}

\* SageSequencerTools.cpp
CreateSequence == {<<Pie, Reject, Reject, Open, Abort, Record, Abort, Create, Dirty>>}
AddTrack_NoPie == {<<Reject, Open, Record, Abort, Edit, Dirty>>}
AddTrack == {<<Pie, Reject, Open, Record, Abort, Edit, Dirty>>}
\* EditPart: the playback range of the movie scene
AddKeyframe ==
  {<<Pie, Reject, Reject, Edit, Open, Record, Abort, Edit, EditPart, Dirty>>}
AddPossessable == {<<Pie, Reject, Open, Record, Edit, Dirty>>}
AddSpawnable == {<<Pie, Reject, Open, Record, Abort, Edit, Dirty>>}
SetPlaybackRange == {<<Pie, Reject, Open, Record, Edit, Dirty>>}

RegisterSequencerTools == UNION {
  CreateSequence, AddTrack, AddKeyframe, AddPossessable, AddSpawnable,
  SetPlaybackRange}

\* SageGameplayTools.cpp
SetCollisionProfile == {<<Pie, Reject, Open, Record, Edit, Dirty>>}
SetSimulatePhysics == {<<Pie, Reject, Open, Record, Edit, Dirty>>}
SetCollisionEnabled == {<<Pie, Reject, Open, Record, Edit, Dirty>>}
SetPhysicsProperties == {<<Pie, Reject, Open, Record, Edit, Dirty>>}
SpawnNavModifier == {<<Pie, Reject, Reject, Open, Reject, Create>>}
CreateInputAction == {<<Pie, Reject, Reject, Create>>}
CreateInputMapping == {<<Pie, Reject, Reject, Create>>}
AddImcMapping == {<<Pie, Reject, Open, Record, Edit, Dirty>>}
RemoveImcMapping == {<<Pie, Reject, Open, Record, Edit, Dirty>>}
SetImcMappingKey == {<<Pie, Reject, Dry, Already, Open, Record, Edit, Dirty>>}
SetImcMappingAction == {<<Pie, Reject, Dry, Already, Open, Record, Edit, Dirty>>}
SetMappingModifiers == {<<Pie, Reject, Open, Record, Edit, Dirty>>}
CreateBlackboard == {<<Pie, Reject, Reject, Create>>}
CreateBehaviorTree == {<<Pie, Reject, Reject, Create>>}
CreateGameplayEqsQuery == {<<Pie, Reject, Reject, Create>>}
CreateStateTree == {<<Pie, Reject, Reject, Create>>}
CreateSmartObjectDef == {<<Pie, Reject, Reject, Create>>}
CreateGameFrameworkBP == {<<Pie, Reject, Reject, Create>>}
SetWorldGameMode == {<<Pie, Reject, Confirm, Reject, Reject, Open, Record, Edit, Dirty>>}

RegisterGameplayTools == UNION {
  SetCollisionProfile, SetSimulatePhysics, SetCollisionEnabled,
  SetPhysicsProperties, SpawnNavModifier, CreateInputAction,
  CreateInputMapping, AddImcMapping, RemoveImcMapping, SetImcMappingKey,
  SetImcMappingAction, SetMappingModifiers, CreateBlackboard,
  CreateBehaviorTree, CreateGameplayEqsQuery, CreateStateTree,
  CreateSmartObjectDef, CreateGameFrameworkBP, SetWorldGameMode}
=============================================================================
