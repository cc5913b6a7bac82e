---------------------------- MODULE MaterialTools -----------------------------
(***************************************************************************)
(* The programs (ToolSteps) of the material and material graph tools.      *)
(***************************************************************************)
EXTENDS ToolSteps

\* SageMaterialTools.cpp
ModifyMaterialParameter == {<<Reject, Pie, Reject, Open, Record, Abort, Edit, Abort, Edit, Dirty>>}

RegisterMaterialTools == UNION {
  ModifyMaterialParameter}

\* SageMaterialGraphTools.cpp
MatCreateInstance == {<<Reject, Pie, Reject, Reject, Create>>}
MatSetShadingModel == {<<Reject, Pie, Reject, Open, Record, Edit>>}
MatSetBaseColor == {<<Reject, Pie, Reject, Open, Record, Edit>>}
MatAddExpression == {<<Reject, Pie, Reject, Reject, Open, Record, Reject, Edit>>}
MatDeleteExpression == {<<Reject, Pie, Reject, Open, Record, Edit>>}
MatConnectExprs == {<<Reject, Pie, Reject, Open, Record, Reject, Edit>>}
MatConnectToProperty == {<<Reject, Pie, Reject, Open, Record, Reject, Edit>>}
MatSetExpressionValue == {<<Reject, Pie, Reject, Open, Record, Reject, Edit>>}
\* EditPart: the texture of the expression
MatConnectTexture == {<<Reject, Pie, Reject, Reject, Open, Record, Reject, EditPart>>}
MatCreate == {<<Pie, Reject, Reject, Create, Dirty>>}
MatSetBlendMode == {<<Pie, Reject, Open, Record, Edit, Dirty>>}
MatDisconnect ==
  {<<Pie, Reject, Open, Record, Reject, Edit, Reject, RecordPart, EditPart, Dirty>>}
MatRecompile == {<<Pie, Reject, Dirty>>}
MatDuplicate == {<<Pie, Reject, Reject, Create>>}
MatImportGraph == {<<Pie, Reject, Open, Record, Edit, Dirty>>}
MatBuildGraph == {<<Pie, Reject, Open, Record, Edit, Dirty>>}
CreateCustomHlslNode == {<<Pie, Reject, Open, Record, Reject, Record, Edit, Dirty>>}
UpdateCustomHlslNode == {<<Pie, Reject, Open, Record, Edit, Dirty>>}
MoveExpression == {<<Pie, Reject, Open, Record, Edit, Dirty>>}
RenameExpression == {<<Pie, Reject, Open, Record, Edit, Dirty>>}
DuplicateExpression == {<<Pie, Reject, Open, Record, Reject, Edit, Dirty>>}
\* EditPart: the top-level inputs, in the material's editor-only data
ReplaceMaterialInputReferences == {<<Record, Edit, EditPart>>}
ReplaceExpression ==
  {<<Pie, Reject, Open, Record, Reject, Edit>> \o x \o <<Edit,
      Dirty>> : x \in ReplaceMaterialInputReferences}
CreateMaterialFunction == {<<Pie, Reject, Reject, Create, Dirty>>}
BuildFunctionGraph == {<<Pie, Reject, Open, Record, Edit, Dirty>>}
SetInstanceParameter == {<<Pie, Reject, Open, Record, Abort, Edit, Dirty>>}
SetInstanceParameters == {<<Pie, Reject, Open, Record, Abort, Edit, Abort, Edit>>}
SetInstanceParent == {<<Pie, Reject, Open, Record, Edit, Dirty>>}
ClearInstanceParameter == {<<Pie, Reject, Open, Record, Edit, Dirty>>}
BatchSetMaterialProperty == {<<Pie, Reject, Record, Edit, Dirty, Record, Edit, Dirty>>}

RegisterMaterialGraphTools == UNION {
  MatCreateInstance, MatSetShadingModel, MatSetBaseColor, MatAddExpression,
  MatDeleteExpression, MatConnectExprs, MatConnectToProperty,
  MatSetExpressionValue, MatConnectTexture, MatCreate, MatSetBlendMode,
  MatDisconnect, MatRecompile, MatDuplicate, MatImportGraph, MatBuildGraph,
  CreateCustomHlslNode, UpdateCustomHlslNode, MoveExpression,
  RenameExpression, DuplicateExpression, ReplaceExpression,
  CreateMaterialFunction, BuildFunctionGraph, SetInstanceParameter,
  SetInstanceParameters, SetInstanceParent, ClearInstanceParameter,
  BatchSetMaterialProperty}
=============================================================================
