----------------------------- MODULE WidgetTools ------------------------------
(***************************************************************************)
(* The programs (ToolSteps) of the widget blueprint tools.                 *)
(***************************************************************************)
EXTENDS ToolSteps

\* SageWidgetTools.cpp
CreateWidget == {<<Pie, Reject, Reject, Open, Abort, Record, Abort, Create, Dirty>>}
\* The blueprint and the tree are passed to Modify, the panels are not.
AddWidget ==
  {<<Pie, Reject, Reject, Open, Record, Abort, Edit, Dirty>>,
   <<Pie, Reject, Reject, Open, Record, Abort, EditPart, Dirty>>}
RemoveWidget ==
  {<<Pie, Reject, Open, Record, Abort, Edit, Dirty>>,
   <<Pie, Reject, Open, Record, Abort, EditPart, Dirty>>}
SetWidgetProperty == {<<Pie, Reject, Open, Record, Abort, Edit, Dirty>>}
CreateUtilityWidget == {<<Pie, Reject, Reject, Create>>}
CreateUtilityBlueprint == {<<Pie, Reject, Reject, Create>>}
MoveWidget_OldParentOnly == {<<Pie, Reject, Open, Record, Edit, EditPart, Dirty>>}
MoveWidget == {<<Pie, Reject, Open, Record, Edit, RecordPart, EditPart, Dirty>>}
WidgetAnimCreate == {<<Pie, Reject, Open, Record, Edit, Dirty>>}
\* EditPart: the movie scene of the animation
WidgetAnimBind == {<<Pie, Reject, Already, Open, Record, EditPart, Edit, Dirty>>}
WidgetAnimAddTrack == {<<Pie, Reject, Open, Record, Reject, Edit, Dirty>>}
WidgetAnimAddKeyframe ==
  {<<Pie, Reject, Reject, Edit, Open, Record, Reject, Edit, EditPart, Dirty>>}
BuildUiFromSpec ==
  {<<Reject>> \o x \o <<Close>> \o y \o <<Close>> \o z : x \in CreateWidget,
      y \in AddWidget, z \in SetWidgetProperty}
RenameWidgetParity == {<<Pie, Reject, Open, Record, Edit, Dirty, Save>>}
SetWidgetIsVariable == {<<Pie, Reject, Open, Record, Edit, Dirty, Save>>}
SetWidgetNavigationBulk ==
  {<<Pie, Reject, Open, Abort, Record, Abort, Edit, Abort, Edit, Dirty, Save>>}
SetActionBarButtonClass == {<<Pie, Reject, Open, Record, Abort, Edit, Dirty, Save>>}
ReparentWidgetRoot == {<<Pie, Reject, Open, Record, Edit, Dirty, Save>>}

RegisterWidgetTools == UNION {
  CreateWidget, AddWidget, RemoveWidget, SetWidgetProperty,
  CreateUtilityWidget, CreateUtilityBlueprint, MoveWidget, WidgetAnimCreate,
  WidgetAnimBind, WidgetAnimAddTrack, WidgetAnimAddKeyframe, BuildUiFromSpec,
  RenameWidgetParity, SetWidgetIsVariable, SetWidgetNavigationBulk,
  SetActionBarButtonClass, ReparentWidgetRoot}
=============================================================================
