------------------------------ MODULE AssetTools ------------------------------
(***************************************************************************)
(* The programs (ToolSteps) of the tools on assets, audio and meshes, and  *)
(* the reflected property setter.                                          *)
(***************************************************************************)
EXTENDS ToolSteps

\* SageAssetTools.cpp
ModifyAssetProperty ==
  {<<Reject, Pie, Reject, Open, Record, Abort, Edit, Dirty>>,
   <<Reject, Pie, Reject, Reject, Open, Record, Edit, Abort, Dirty>>}
DeleteExistingDestinationForMove == {<<Destroy>>}
RenameOrMove ==
  {<<Reject, Pie, Reject, Already, Open, Abort, Create>>}
  \cup {<<Reject, Confirm, Pie, Reject, Already, Open, Abort>> \o x \o <<Abort,
      Create>> : x \in DeleteExistingDestinationForMove}
DuplicateAsset == {<<Reject, Pie, Reject, Open, Abort, Create>>}
DeleteAsset == {<<Reject, Confirm, Pie, Reject, Open, Abort, Destroy>>}

RegisterAssetTools == UNION {
  ModifyAssetProperty, RenameOrMove, DuplicateAsset, DeleteAsset}

\* SageAudioTools.cpp
AudioSpawnAmbient == {<<Pie, Reject, Open, Reject, Create>>}
AudioCreateCue == {<<Pie, Reject, Reject, Create>>}
AudioCreateMetaSound == {<<Pie, Reject, Reject, Create>>}
ApplyAudioProperties == {<<Reject, Pie, Open, Record, Abort, Edit, Dirty, Save>>}
BatchAudioProperties ==
  {<<Reject, Pie, Open, Record, Edit, Dirty, Save, Close, Open, Record, Edit, Dirty, Save>>}
CreateAudioAssetParity == {<<Reject, Pie, Reject, Create, Save>>}

RegisterAudioTools == UNION {
  AudioSpawnAmbient, AudioCreateCue, AudioCreateMetaSound,
  ApplyAudioProperties, BatchAudioProperties, CreateAudioAssetParity}

\* SageEditorAutomationTools.cpp
SetReflectedProperty_NoModify == {<<Reject, Pie, Reject, Reject, Reject, Edit, Dirty>>, <<Reject, Pie, Reject, Reject, Edit, Dirty>>}
SetReflectedProperty ==
  {<<Reject, Pie, Reject, Reject, Record, Reject, Edit, Dirty>>,
   <<Reject, Pie, Reject, Record, Reject, Edit, Dirty>>}

RegisterEditorAutomationTools == UNION {
  SetReflectedProperty}

\* SageMeshTools.cpp
SetCollision == {<<Reject, Pie, Reject, Reject, Open, Record, Edit, Dirty, Save>>}
SetLodSettings == {<<Reject, Pie, Open, Record, Edit, Dirty, Save>>}
InvokeReflectedUFunction == {<<Reject, Reject, Record, Edit>>}
SetMeshComponentMaterial == {<<Reject, Record, Edit>>}

RegisterMeshTools == UNION {
  SetCollision, SetLodSettings, InvokeReflectedUFunction,
  SetMeshComponentMaterial}
=============================================================================
