--------------------------- MODULE MCEditorTools ---------------------------
(***************************************************************************)
(* Every mutating tool of the plugin, and the tools that deviate from a    *)
(* rule, for TLC.                                                          *)
(***************************************************************************)
EXTENDS EditorTools, EditorToolset

MCPrograms == RegisterDomainTools

None == {}

\* A later step fails when an earlier one has changed something.
MCPartialOnError == UNION {
  \* a loop that stops at the item that fails, a rename that is one of several
  BulkRename, MoveFolder, RenameOrMove, AddPoseSearchSequence, SetBoneKeyframes,
  \* NiagaraBatch has no transaction; the others fail within or after theirs
  NiagaraBatch, AddBtSubNode, AddKeyframe, AddRetargetPoseFromMeshNode,
  BakeRootMotionFromBone, BpAddComponent, BpAddFunctionParameter,
  BuildUiFromSpec, RunImport, BpCopyComponentDefaults, BpSetActorTickSettings,
  BpSetCdoInstancedArrayElement, BpSetCdoProperty,
  GameFeatureAddComponentEntry, GameFeatureAddWidgetEntry,
  ImplementAnimLayerInterface, LevelCreate, MatDisconnect,
  NiagaraCreateSystemFromSpec, NiagaraPreviewSpawn, NiagaraSetScalability,
  NiagaraUpsertUserParameter, SetMontageSequence, SetTextureSettings,
  WidgetAnimAddKeyframe}

\* Two transactions in one call.
MCSeveralSteps == UNION {
  AddRetargetPoseFromMeshNode, BatchAddBlackboardKeys, BatchAudioProperties,
  BuildUiFromSpec}

MCPieUnchecked == UNION {
  BuildBehaviorTreeFromSpec, CopyRetargetProfileFromAsset,
  InvokeReflectedUFunction, NiagaraCaptureSimCache, SetMeshComponentMaterial}

\* An import of the wrong class deletes what it has just replaced.
MCUnconfirmed == UNION {
  AssetImportTextureBatch, BatchImportFbxAnimations, NiagaraCleanupPreview, RunImport}

\* An object is changed before Modify, or instead of it another one is passed:
\* the blueprint for the panel, the asset for its node, its data model or the
\* store of its default instance.
MCUnmodified == UNION {
  AddBtNode, AddBtSubNode, AddEqsTest, AddKeyframe, AddWidget,
  AssetImportTextureBatch, AssetSetTags, BakeRootMotionFromBone,
  BatchImportFbxAnimations, BpAddFunctionParameter, BpRefreshNodes,
  BpReparentComponent, BpSetCdoProperty, BuildBehaviorTreeFromSpec,
  BuildUiFromSpec, CopyAnimationCurves, CopyBoneTracks, MatConnectTexture,
  MoveBtNode, NiagaraClearFixedBounds, NiagaraCollectionSetDefault,
  NiagaraCollectionUpsertParameter, NiagaraSetComponentParameters,
  NiagaraSetFixedBounds, NiagaraSetParameter, Reimport, RemoveBtNode,
  RemoveBtSubNode, RemoveEqsTest, RemoveVirtualBone, RemoveWidget,
  ReorderEqsTests, ReplaceExpression, RunImport, SetBoneKeyframes,
  WidgetAnimAddKeyframe, WidgetAnimBind}

\* These, and a change before the transaction, after it, or without one.
MCUnrecorded == MCUnmodified \cup UNION {
  BatchSetMaterialProperty, GameFeatureAddComponentEntry,
  GameFeatureAddWidgetEntry, GameFeatureEnsureAddComponentsAction,
  InvokeReflectedUFunction, MigrateFromProject, SetMeshComponentMaterial,
  SetReflectedProperty}

MCUnmarked == UNION {
  BpAddFunctionParameter, BuildBehaviorTreeFromSpec, NiagaraClearFixedBounds,
  NiagaraSetComponentParameters, NiagaraSetFixedBounds, NiagaraSetParameter}
============================================================================
