------------------------------ MODULE ActorTools ------------------------------
(***************************************************************************)
(* The programs (ToolSteps) of the tools on actors, components and gameplay*)
(* abilities, and the PCG, foliage, landscape and networking tools.        *)
(***************************************************************************)
EXTENDS ToolSteps

\* SageActorTools.cpp
SpawnActor == {<<Reject, Pie, Reject, Open, Abort, Create, Record, Edit>>}
DeleteActor == {<<Reject, Confirm, Reject, Pie, Reject, Open, Record, Abort, Destroy>>}
SetTransform == {<<Reject, Pie, Reject, Reject, Open, Record, Edit>>}
SetVisibility == {<<Reject, Pie, Reject, Open, Record, Edit>>}
ModifyActorProperty == {<<Reject, Pie, Reject, Open, Record, Abort, Edit>>}

RegisterActorTools == UNION {
  SpawnActor, DeleteActor, SetTransform, SetVisibility, ModifyActorProperty}

\* SageComponentTools.cpp
AddComponent == {<<Reject, Pie, Reject, Open, Record, Abort, Edit>>}
RemoveComponent == {<<Reject, Pie, Reject, Open, Record, Edit>>}
ModifyComponentProperty == {<<Reject, Pie, Reject, Open, Record, Abort, Edit>>}
Attach == {<<Reject, Pie, Reject, Open, Record, Edit>>}
Detach == {<<Reject, Pie, Reject, Open, Record, Edit>>}

RegisterComponentTools == UNION {
  AddComponent, RemoveComponent, ModifyComponentProperty, Attach, Detach}

\* SageCompareSetTools.cpp
CompareAndSetProperty == {<<Reject, Pie, Reject, Open, Record, Abort, Edit, Dirty>>}

RegisterCompareSetTools == UNION {
  CompareAndSetProperty}

\* SageReferenceParityTools.cpp
ActorTags ==
  {<<Reject, Pie, Open, Record, Edit, Dirty>>,
   <<Reject, Pie, Open, Record, Reject, Edit, Dirty>>}
SnapActorToFloor == {<<Reject, Pie, Reject, Reject, Open, Record, Edit, Dirty>>}
AttachActor == {<<Reject, Pie, Reject, Open, Record, Edit, Dirty>>}
DetachActor == {<<Reject, Pie, Open, Record, Edit, Dirty>>}
SetActorMobility == {<<Reject, Pie, Open, Record, Edit, Dirty>>}
BatchTranslate == {<<Pie, Reject, Open, Record, Edit, Dirty>>}

RegisterReferenceParityTools == UNION {
  ActorTags, SnapActorToFloor, AttachActor, DetachActor, SetActorMobility,
  BatchTranslate}

\* SageGasTools.cpp
GasAddAsc == {<<Pie, Reject, Already, Open, Record, Edit, Dirty>>}
GasCreateAbility == {<<Pie, Reject, Reject, Create>>}
GasSetAbilityTags == {<<Pie, Reject, Reject, Already, Open, Record, Edit, Dirty>>}
GasCreateEffect == {<<Pie, Reject, Reject, Create>>}
GasSetEffectModifier == {<<Pie, Reject, Reject, Open, Record, Edit, Dirty>>}
GasCreateCue == {<<Pie, Reject, Reject, Create>>}

RegisterGasTools == UNION {
  GasAddAsc, GasCreateAbility, GasSetAbilityTags, GasCreateEffect,
  GasSetEffectModifier, GasCreateCue}

\* SagePcgTools.cpp
PcgCreateGraph == {<<Pie, Reject, Reject, Create>>}
PcgAddVolume == {<<Pie, Reject, Open, Reject, Create>>}

RegisterPcgTools == UNION {
  PcgCreateGraph, PcgAddVolume}

\* SageFoliageTools.cpp
FoliageCreateType == {<<Pie, Reject, Reject, Create>>}
FoliageSetSettings == {<<Pie, Reject, Reject, Open, Record, Edit, Dirty>>}

RegisterFoliageTools == UNION {
  FoliageCreateType, FoliageSetSettings}

\* SageLandscapeTools.cpp
LandscapeSetMaterial == {<<Pie, Reject, Reject, Open, Record, Edit, Dirty>>}

RegisterLandscapeTools == UNION {
  LandscapeSetMaterial}

\* SageNetworkingTools.cpp
NetworkingSetReplicates == {<<Pie, Reject, Open, Record, Edit, Dirty>>}
NetworkingConfigureNetFrequency == {<<Pie, Reject, Open, Record, Edit, Dirty>>}
NetworkingSetDormancy == {<<Pie, Reject, Open, Record, Edit, Dirty>>}
NetworkingSetNetLoadOnClient == {<<Pie, Reject, Open, Record, Edit, Dirty>>}
NetworkingSetAlwaysRelevant == {<<Pie, Reject, Open, Record, Edit, Dirty>>}
NetworkingSetOnlyRelevantToOwner == {<<Pie, Reject, Open, Record, Edit, Dirty>>}
NetworkingConfigureCullDistance == {<<Pie, Reject, Open, Record, Edit, Dirty>>}
NetworkingSetPriority == {<<Pie, Reject, Open, Record, Edit, Dirty>>}
NetworkingSetReplicateMovement == {<<Pie, Reject, Open, Record, Edit, Dirty>>}

RegisterNetworkingTools == UNION {
  NetworkingSetReplicates, NetworkingConfigureNetFrequency,
  NetworkingSetDormancy, NetworkingSetNetLoadOnClient,
  NetworkingSetAlwaysRelevant, NetworkingSetOnlyRelevantToOwner,
  NetworkingConfigureCullDistance, NetworkingSetPriority,
  NetworkingSetReplicateMovement}
=============================================================================
