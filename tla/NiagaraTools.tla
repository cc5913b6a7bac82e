----------------------------- MODULE NiagaraTools -----------------------------
(***************************************************************************)
(* The programs (ToolSteps) of the Niagara tools.                          *)
(***************************************************************************)
EXTENDS ToolSteps

\* SageNiagaraTools.cpp
NiagaraPreviewSpawn ==
  {<<Pie, Reject, Reject, Reject, Open, Reject, Create, Record, Reject, Record, Edit>>}
NiagaraCleanupPreview == {<<Pie, Reject, Open, Destroy>>}
NiagaraSetParameter == {<<Pie, Reject, Edit>>}
NiagaraSetComponentParameters == {<<Pie, Reject, Edit>>}
NiagaraCreate == {<<Pie, Reject, Reject, Create>>}
NiagaraCreateEmitter == {<<Pie, Reject, Reject, Create>>}
NiagaraCreateSystemFromSpec ==
  {x \o <<Reject, Open, Record, Edit, Dirty, Save>> : x \in NiagaraCreate}
NiagaraAddEmitter == {<<Pie, Reject, Reject, Dry, Open, Record, Edit, Dirty, Save>>}
NiagaraSetEmitterProperty ==
  {<<Pie, Reject, Dry, Open, Record, Reject, Edit, Dirty, Close, Save>>,
   <<Pie, Reject, Dry, Confirm, Open, Record, Reject, Edit, Dirty, Close, Save>>}
NiagaraMakeEmittersLocal == {<<Pie, Reject, Reject, Dry, Open, Record, Edit, Dirty, Close, Save>>}
NiagaraSetModuleInput == {<<Pie, Reject, Dry, Open, Record, Edit, Dirty, Close, Save>>}
NiagaraAddModule == {<<Pie, Reject, Dry, Open, Record, Edit, Dirty, Close, Save>>}
NiagaraRemoveModule == {<<Pie, Reject, Dry, Open, Record, Edit, Dirty, Close, Save>>}
NiagaraReplaceModule == {<<Pie, Reject, Reject, Dry, Open, Record, Edit, Dirty, Close, Save>>}
NiagaraAddRenderer ==
  {<<Pie, Reject, Reject, Dry, Open, Record, Edit, Dirty, Close, Save>>,
   <<Pie, Reject, Reject, Dry, Confirm, Open, Record, Edit, Dirty, Close, Save>>}
NiagaraRemoveRenderer ==
  {<<Pie, Reject, Dry, Open, Record, Edit, Dirty, Close, Save>>,
   <<Pie, Reject, Dry, Confirm, Open, Record, Edit, Dirty, Close, Save>>}
NiagaraSetRendererProperty ==
  {<<Pie, Reject, Dry, Open, Record, Reject, Edit, Dirty, Close, Save>>,
   <<Pie, Reject, Dry, Confirm, Open, Record, Reject, Edit, Dirty, Close, Save>>}
NiagaraUpsertUserParameter ==
  {<<Pie, Reject, Reject, Dry, Open, Record, Edit, Reject, Dirty, Save>>}
NiagaraCollectionCreate == {<<Pie, Reject, Reject, Create>>}
\* EditPart: the default instance of the collection
NiagaraCollectionUpsertParameter ==
  {<<Pie, Reject, Reject, Dry, Open, Record, Edit, EditPart, Dirty, Close, Save>>}
NiagaraCollectionSetDefault ==
  {<<Pie, Reject, Reject, Reject, Open, Record, Reject, EditPart, Dirty, Save>>}
NiagaraSetScalability ==
  {<<Pie, Reject, Reject, Open, Record, Reject, Edit, Reject, Edit, Dirty, Save>>}
NiagaraSetFixedBounds ==
  {<<Pie, Reject, Edit>>,
   <<Pie, Reject, Reject, Open, Record, Edit, Dirty, Save>>}
NiagaraClearFixedBounds == {<<Pie, Edit>>, <<Pie, Reject, Reject, Open, Record, Edit, Dirty, Save>>}
NiagaraSetWarmup == {<<Pie, Reject, Reject, Open, Record, Edit, Dirty, Save>>}
NiagaraSetEffectType == {<<Pie, Reject, Reject, Open, Record, Edit, Dirty, Save>>}
NiagaraCaptureSimCache == {<<Reject, Reject, Reject, Reject, Reject, Create, Dirty, Save>>}
NiagaraRemoveEventHandler == {<<Pie, Reject, Open, Record, Edit, Dirty>>}
NiagaraRemoveSimulationStage == {<<Pie, Reject, Open, Record, Edit, Dirty>>}
NiagaraSetStaticSwitch == {<<Pie, Reject, Dry, Open, Record, Edit, Dirty, Close, Save>>}
SetCustomHlslText == {<<Pie, Reject, Dry, Open, Record, Abort, Edit, Dirty, Close, Save>>}
NiagaraBatch == {<<Pie, Reject, Open, Record, Edit, Already, Reject, Record, Edit>>}

RegisterNiagaraTools == UNION {
  NiagaraPreviewSpawn, NiagaraCleanupPreview, NiagaraSetParameter,
  NiagaraSetComponentParameters, NiagaraCreate, NiagaraCreateEmitter,
  NiagaraCreateSystemFromSpec, NiagaraAddEmitter, NiagaraSetEmitterProperty,
  NiagaraMakeEmittersLocal, NiagaraSetModuleInput, NiagaraAddModule,
  NiagaraRemoveModule, NiagaraReplaceModule, NiagaraAddRenderer,
  NiagaraRemoveRenderer, NiagaraSetRendererProperty,
  NiagaraUpsertUserParameter, NiagaraCollectionCreate,
  NiagaraCollectionUpsertParameter, NiagaraCollectionSetDefault,
  NiagaraSetScalability, NiagaraSetFixedBounds, NiagaraClearFixedBounds,
  NiagaraSetWarmup, NiagaraSetEffectType, NiagaraCaptureSimCache,
  NiagaraRemoveEventHandler, NiagaraRemoveSimulationStage,
  NiagaraSetStaticSwitch, SetCustomHlslText, NiagaraBatch}
=============================================================================
