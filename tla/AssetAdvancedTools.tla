-------------------------- MODULE AssetAdvancedTools --------------------------
(***************************************************************************)
(* The programs (ToolSteps) of the bulk, data table, texture, socket, game *)
(* feature, array and migration tools.                                     *)
(***************************************************************************)
EXTENDS ToolSteps

\* SageAssetAdvancedTools.cpp
BulkRename == {<<Reject, Pie, Reject, Open, Create, Create, Abort>>}
MoveFolder == {<<Reject, Pie, Reject, Open, Create, Create, Abort>>}
AssetCreateFolder == {<<Pie, Reject, Reject, Create>>}
AssetDeleteFolder == {<<Pie, Reject, Confirm, Reject, Reject, Destroy>>}
AssetImportTextureBatch ==
  {<<Pie, Reject, Create, Create>>,
   <<Pie, Reject, Edit, Dirty, Edit, Dirty>>,
   <<Pie, Reject, Edit, Dirty, Destroy>>}
AssetSetTags == {<<Pie, Reject, Edit, Dirty>>}
FixupRedirectors == {<<Pie, Confirm, Reject, Destroy>>}
\* A new asset, or with replace_existing an asset that the import overwrites; of
\* the wrong class, it is deleted whether or not it was there before.
RunImport ==
  {<<Pie, Reject, Create, Reject>>,
   <<Pie, Reject, Edit, Dirty, Reject>>,
   <<Pie, Reject, Edit, Dirty, Destroy, Reject>>}
ImportAnimation == RunImport
BatchImportFbxAnimations ==
  {<<Pie, Reject, Dry, Create, Create>>,
   <<Pie, Reject, Dry, Edit, Dirty, Edit, Dirty>>,
   <<Pie, Reject, Dry, Edit, Dirty, Destroy>>}
Reimport == {<<Pie, Reject, Edit, Dirty>>}
CreateDataTable == {<<Pie, Reject, Reject, Open, Abort, Record, Abort, Create, Dirty>>}
ReimportDataTable == {<<Pie, Reject, Reject, Open, Record, Edit, Dirty>>}
SetMeshMaterial == {<<Pie, Reject, Open, Record, Edit, Dirty>>}
SetSkMaterialSlots == {<<Pie, Reject, Open, Record, Edit, Dirty>>}
CreateDataAsset == {<<Pie, Reject, Reject, Open, Abort, Record, Abort, Create, Dirty>>}
DeleteBatch_Unasked == {<<Pie, Reject, Reject, Open, Destroy>>}
DeleteBatch == {<<Pie, Reject, Confirm, Reject, Open, Destroy>>}
SetTextureSettings ==
  {<<Pie, Reject, Open, Record, Reject, Edit, Reject, Edit, Reject, Edit, Dirty>>}
AddSocket ==
  {<<Pie, Reject, Reject, Open, Record, Edit, Dirty, Already>>,
   <<Pie, Reject, Reject, Open, Record, Edit, Dirty>>}
UpsertSocketStatic ==
  {<<Pie, Reject, Reject, Already, Dry, Open, Record, Edit, Dirty, Close, Save>>}
UpsertSocketSkeletal ==
  {<<Pie, Reject, Reject, Already, Dry, Open, Record, Edit, Dirty, Close, Save>>}
RemoveSocket ==
  {<<Pie, Reject, Open, Record, Edit, Dirty, Already>>,
   <<Pie, Reject, Reject, Open, Record, Edit, Dirty>>}
SetMeshNav == {<<Pie, Reject, Reject, Open, Record, Edit, Dirty>>}
EnsureAddComponentsAction == {<<Reject, Record, Edit, Dirty>>}
GameFeatureEnsureAddComponentsAction == {<<Pie, Reject>> \o x : x \in EnsureAddComponentsAction}
GameFeatureAddComponentEntry ==
  {<<Pie, Reject>> \o x \o <<Reject, Open, Record, Edit,
      Dirty>> : x \in EnsureAddComponentsAction}
GameFeatureRemoveComponentEntry == {<<Pie, Reject, Reject, Already, Open, Record, Edit, Dirty>>}
EnsureAddWidgetsAction == {<<Reject, Record, Edit, Dirty>>}
GameFeatureAddWidgetEntry_Ensured ==
  {<<Pie, Reject, Reject>> \o x \o <<Dry, Reject, Open, Record, Edit, Abort, Edit, Abort,
      Dirty, Close, Reject, Save>> : x \in EnsureAddWidgetsAction}
GameFeatureAddWidgetEntry ==
  {<<Pie, Reject, Reject, Dry>> \o x \o <<Reject, Open, Record, Edit, Abort, Edit, Abort,
      Dirty, Close, Reject, Save>> : x \in EnsureAddWidgetsAction}
AddArrayElement == {<<Pie, Reject, Dry, Open, Record, Abort, Edit, Dirty>>}
ClearArrayProperty == {<<Pie, Reject, Dry, Open, Record, Edit, Dirty>>}
ApplyInstancedArrayReplacement == {<<Edit>>}
ReplaceArrayProperty ==
  {<<Pie, Reject, Dry, Open, Record, Abort, Edit, Dirty>>}
  \cup {<<Pie, Reject, Dry, Open, Record>> \o x \o <<Abort,
      Dirty>> : x \in ApplyInstancedArrayReplacement}
DeleteAssetForOverwrite == {<<Destroy>>}
\* A report with rejected:true, the packages that were written taken back.
RollbackUnexpectedMigrationWrites == {<<Already>>}
VerifyAndRepairAnimationSkeletonReferences == {<<Record, Edit, Dirty, SaveNow>>}
RelocateMigratedPackages == {<<>>, <<Create, SaveNow>>}
MigrateFromProject ==
  {<<Pie, Reject, Dry>> \o x \o <<Create>> : x \in RollbackUnexpectedMigrationWrites}
  \cup {<<Pie, Reject, Dry>> \o x \o <<Create>> \o y
      \o z : x \in RollbackUnexpectedMigrationWrites, y \in RelocateMigratedPackages,
      z \in VerifyAndRepairAnimationSkeletonReferences}
  \cup {<<Pie, Reject, Confirm, Dry>> \o x \o <<Create>> \o y \o z
      \o w : x \in RollbackUnexpectedMigrationWrites, y \in DeleteAssetForOverwrite,
      z \in RelocateMigratedPackages, w \in VerifyAndRepairAnimationSkeletonReferences}

RegisterAssetAdvancedTools == UNION {
  BulkRename, MoveFolder, AssetCreateFolder, AssetDeleteFolder,
  AssetImportTextureBatch, AssetSetTags, FixupRedirectors, RunImport,
  ImportAnimation, BatchImportFbxAnimations, Reimport, CreateDataTable,
  ReimportDataTable, SetMeshMaterial, SetSkMaterialSlots, CreateDataAsset,
  DeleteBatch, SetTextureSettings, AddSocket, UpsertSocketStatic,
  UpsertSocketSkeletal, RemoveSocket, SetMeshNav,
  GameFeatureEnsureAddComponentsAction, GameFeatureAddComponentEntry,
  GameFeatureRemoveComponentEntry, GameFeatureAddWidgetEntry, AddArrayElement,
  ClearArrayProperty, ReplaceArrayProperty, MigrateFromProject}
=============================================================================
