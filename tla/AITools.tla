------------------------------- MODULE AITools --------------------------------
(***************************************************************************)
(* The programs (ToolSteps) of the blackboard, behavior tree, EQS, smart   *)
(* object and scaffold tools.                                              *)
(***************************************************************************)
EXTENDS ToolSteps

\* SageAITools.cpp
DeleteAssetByPath == {<<Pie, Confirm, Reject, Open, Destroy>>}
DuplicateAssetByPath == {<<Pie, Reject, Open, Reject, Create>>}
AddBlackboardKey == {<<Reject, Pie, Reject, Open, Record, Edit, Dirty>>}
BatchAddBlackboardKeys ==
  {<<Reject, Reject, Already, Pie, Open, Record, Edit, Dirty, Close, Open, Record, Edit,
      Dirty>>}
RemoveBlackboardKey == {<<Reject, Pie, Reject, Open, Record, Edit, Dirty>>}
RenameBlackboardKey == {<<Reject, Pie, Reject, Open, Record, Edit, Dirty>>}
SetBlackboardParent == {<<Reject, Pie, Reject, Open, Record, Edit, Dirty>>}
EnsureRootComposite == {<<Record, Edit>>}
\* EditPart: the children and services of a root that is there, or the tests
\* of an option; only the tree or the query is passed to Modify.
AddBtNode ==
  {<<Reject, Pie, Reject, Open, Record, EditPart, Dirty>>} \cup
  {<<Reject, Pie, Reject, Open, Record, Reject>> \o x \o <<Edit,
      Dirty>> : x \in EnsureRootComposite}
CreateBtNodeBlueprint == {<<Pie, Reject, Reject, Reject, Create>>}
SetBtBlackboard == {<<Reject, Pie, Reject, Open, Record, Edit, Dirty>>}
RemoveBtNode == {<<Reject, Pie, Reject, Open, Record, EditPart, Dirty>>}
MoveBtNode == {<<Reject, Pie, Reject, Open, Record, EditPart, Dirty>>}
AddBtSubNode ==
  {<<Reject, Pie>> \o x \o <<Reject, Reject, Open, Record, EditPart,
      Dirty>> : x \in EnsureRootComposite}
RemoveBtSubNode == {<<Reject, Pie, Reject, Open, Record, Reject, EditPart, Dirty>>}
SetBtNodeProperty == {<<Reject, Reject, Pie, Open, Record, Edit, Dirty>>}
BuildBehaviorTreeFromSpec ==
  {<<Reject, Edit>>, <<Reject, Create>>} \cup
  {x \o <<Dirty, Close, Open, Record, EditPart, Dirty>> :
      x \in {<<Reject, Edit, Open, Record, Edit>>,
             <<Reject, Edit, Open, Record, EditPart>>,
             <<Reject, Create, Open, Record, Edit>>}}
CreateEqsQuery == {<<Pie, Reject, Reject, Create>>}
AddEqsGenerator == {<<Reject, Pie, Reject, Open, Record, Edit, Dirty>>}
RemoveEqsGenerator == {<<Reject, Pie, Reject, Open, Record, Edit, Dirty>>}
AddEqsTest == {<<Reject, Pie, Reject, Open, Record, EditPart, Dirty>>}
RemoveEqsTest == {<<Reject, Pie, Reject, Open, Record, EditPart, Dirty>>}
ReorderEqsTests == {<<Reject, Pie, Reject, Open, Record, EditPart, Dirty>>}
ConfigureEqs == {<<Reject, Pie, Reject, Open, Record, Edit, Dirty>>}
CreateReflectedAsset == {<<Pie, Reject, Reject, Reject, Create>>}
SetSmartObjectTags == {<<Reject, Pie, Open, Record, Edit, Dirty>>}
ScaffoldAIClass == {<<Pie, Reject, Reject, Create>>}

RegisterAITools == UNION {
  DeleteAssetByPath, DuplicateAssetByPath, AddBlackboardKey,
  BatchAddBlackboardKeys, RemoveBlackboardKey, RenameBlackboardKey,
  SetBlackboardParent, AddBtNode, CreateBtNodeBlueprint, SetBtBlackboard,
  RemoveBtNode, MoveBtNode, AddBtSubNode, RemoveBtSubNode, SetBtNodeProperty,
  BuildBehaviorTreeFromSpec, CreateEqsQuery, AddEqsGenerator,
  RemoveEqsGenerator, AddEqsTest, RemoveEqsTest, ReorderEqsTests,
  ConfigureEqs, CreateReflectedAsset, SetSmartObjectTags, ScaffoldAIClass}
=============================================================================
