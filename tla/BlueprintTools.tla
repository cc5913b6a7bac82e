---------------------------- MODULE BlueprintTools ----------------------------
(***************************************************************************)
(* The programs (ToolSteps) of the blueprint tools.                        *)
(***************************************************************************)
EXTENDS ToolSteps

\* SageBlueprintTools.cpp
BpAddVariable == {<<Reject, Pie, Reject, Open, Record, Reject, Reject, Edit, Dirty>>}
BpDeleteVariable == {<<Reject, Confirm, Reject, Pie, Reject, Open, Record, Edit>>}
BpRenameVariable == {<<Reject, Pie, Reject, Already, Reject, Reject, Open, Record, Edit>>}
BpSanitizeVariableNames == {<<Reject, Pie, Reject, Dry, Open, Record, Edit>>}
BpSetVariableType == {<<Reject, Pie, Reject, Reject, Already, Open, Record, Edit>>}
BpClearGraphs == {<<Reject, Pie, Reject, Open, Record, Edit>>}
BpDeleteAllVariables == {<<Reject, Pie, Reject, Dry, Open, Record, Edit>>}
BpSetVariableDefault == {<<Reject, Pie, Reject, Open, Record, Reject, Edit>>}
BpAddFunction == {<<Reject, Pie, Reject, Open, Record, Edit>>}
BpDeleteFunction == {<<Reject, Confirm, Reject, Pie, Reject, Open, Record, Edit>>}
BpSetCdoProperty ==
  {<<Reject, Pie, Reject, Reject, Dry, Reject, Open, Record, Abort, Edit, Dirty, Abort>>,
   <<Reject, Pie, Reject, Reject, Edit, Dirty, Reject, Reject, Open, Record, Abort, Edit,
      Dirty, Abort>>}
BpDeleteNode == {<<Reject, Pie, Reject, Open, Record, Edit, Dirty>>}
BpConnectPins == {<<Reject, Pie, Reject, Open, Record, Reject, Edit, Dirty>>}
BpSetVariableProperties == {<<Reject, Pie, Reject, Open, Record, Edit>>}
BpSetCdoInstancedArrayElement ==
  {<<Reject, Pie, Reject, Reject, Dry, Already, Open, Record, Edit, Abort, Dirty, Close,
      Reject, Save>>}
\* EditPart: the nodes of the old and the new parent
BpReparentComponent == {<<Reject, Pie, Reject, Open, Record, Edit, EditPart, Dirty>>}
BpAddComponent ==
  {<<Reject, Pie, Reject, Already, Reject, Open, Record, Abort, Edit, Record, Abort>>
     \o x \o <<Dirty, Reject, Save>> : x \in {<<Edit>>, <<RecordPart, EditPart>>}}
BpCopyComponentDefaults ==
  {<<Reject, Pie, Reject, Reject, Open, Record, Abort, Edit, Abort, Dirty, Reject, Save>>}
BpImportNodesT3D == {<<Reject, Pie, Reject, Reject, Open, Record, Reject, Edit, Dirty>>}
BpAddEventDispatcher == {<<Reject, Pie, Reject, Open, Record, Reject, Reject, Edit, Dirty>>}
BpRemoveEventDispatcher == {<<Reject, Pie, Reject, Open, Record, Edit, Dirty>>}
BpCreate == {<<Reject, Pie, Reject, Already, Open, Reject, Create>>}
BpCreateInterface == {<<Reject, Pie, Reject, Already, Open, Reject, Create>>}
BpAddFunctionParameter == {<<Reject, Pie, Reject, Edit, Reject, Open, Record, Reject, Edit, Dirty>>}
BpRemoveFunctionParameter == {<<Reject, Pie, Reject, Already, Open, Record, Edit, Dirty>>}
SetLinkedLayerNameForRename == {<<Record, Edit>>}
ReconcileLinkedLayerRename == {x \o <<Dirty>> : x \in SetLinkedLayerNameForRename}
ReconcileLinkedLayersAfterAddInterface == {<<Record, Edit, Dirty, Record, Edit, Dirty>>}
RegenerateCollidingAnimLayerInterfaceGraphGuids == {<<Record, Edit, Dirty>>}
BpRenameFunction ==
  {<<Reject, Pie, Reject, Reject, Open, Record, Edit>>
      \o x : x \in ReconcileLinkedLayerRename}
BpAddInterfaceDirect ==
  {<<Reject, Pie, Reject, Already, Open, Record>> \o x \o <<Edit, Dirty>>
      \o y : x \in RegenerateCollidingAnimLayerInterfaceGraphGuids,
      y \in ReconcileLinkedLayersAfterAddInterface}
BpAddInterface == {<<Reject, Pie, Reject, Already, Open, Record, Reject, Edit>>}
BpRemoveInterface == {<<Reject, Pie, Reject, Already, Open, Record, Edit>>}
BpAddLocalVariable == {<<Reject, Pie, Reject, Open, Record, Reject, Edit>>}
BpDeleteLocalVariable == {<<Reject, Pie, Reject, Open, Record, Edit, Dirty>>}
BpAddNode == {<<Reject, Pie, Reject, Open, Record, Reject, Edit, Dirty>>}
BpSetNodeProperty == {<<Reject, Pie, Reject, Open, Record, Edit, Dirty>>}
BpReparent == {<<Reject, Pie, Reject, Reject, Open, Record, Edit, Dirty>>}
\* EditPart: the pins of the reconstructed nodes
BpRefreshNodes == {<<Reject, Pie, Reject, Open, Record, EditPart, Edit, Dirty>>}
BpCreateFunction == {<<Reject, Pie, Reject, Open, Record, Edit>>}
BpDuplicate == {<<Reject, Pie, Reject, Open, Reject, Create>>}
BpSetActorTickSettings == {<<Reject, Pie, Reject, Open, Record, Edit, Reject, Edit, Dirty>>}
BpOverrideInheritedComponentClass == {<<Pie, Reject, Open, Record, Edit, Dirty>>}

RegisterBlueprintTools == UNION {
  BpAddVariable, BpDeleteVariable, BpRenameVariable, BpSanitizeVariableNames,
  BpSetVariableType, BpClearGraphs, BpDeleteAllVariables,
  BpSetVariableDefault, BpAddFunction, BpDeleteFunction, BpSetCdoProperty,
  BpDeleteNode, BpConnectPins, BpSetVariableProperties,
  BpSetCdoInstancedArrayElement, BpReparentComponent, BpAddComponent,
  BpCopyComponentDefaults, BpImportNodesT3D, BpAddEventDispatcher,
  BpRemoveEventDispatcher, BpCreate, BpCreateInterface,
  BpAddFunctionParameter, BpRemoveFunctionParameter, BpRenameFunction,
  BpAddInterfaceDirect, BpAddInterface, BpRemoveInterface, BpAddLocalVariable,
  BpDeleteLocalVariable, BpAddNode, BpSetNodeProperty, BpReparent,
  BpRefreshNodes, BpCreateFunction, BpDuplicate, BpSetActorTickSettings,
  BpOverrideInheritedComponentClass}
=============================================================================
