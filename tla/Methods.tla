------------------------------- MODULE Methods -------------------------------
(***************************************************************************)
(* The remote methods of the API clients (api/<package>/client).  Every    *)
(* one of them opens a channel with a query, sends its request objects,    *)
(* runs channel.Switch over the answer and passes what Switch returned     *)
(* through a few checks of its own.  They differ in the handlers they give *)
(* Switch, in its options and in those checks, and a mistake in any of the *)
(* three is a call that reports success without an answer or hangs, so     *)
(* each method is a record of exactly these choices.  The module Calls     *)
(* runs the records.                                                       *)
(***************************************************************************)
EXTENDS Sequences

(***************************************************************************)
(* What a node may answer with.  "value" and "blank" are a set and a zero  *)
(* object of the type the method expects, "item" and "zero" a set and a    *)
(* zero element of a stream, "message" an astral.ErrorMessage and          *)
(* "refusal" an error object of another registered type.                   *)
(***************************************************************************)
Kinds == {"value", "blank", "nil", "item", "zero", "ack", "eos", "true",
          "false", "message", "refusal", "other"}

Errors == {"message", "refusal"}

(* The handlers Switch is given: the type of the parameter and the effect. *)
On(type, does) == [type |-> type, does |-> does]

ExpectAck == On("ack", "break")
BreakOnEOS == On("eos", "break")
MarkEOS == On("eos", "mark")
PassErrors == On("error", "fail")
OnErrorMessage == On("message", "fail")
Expect == On("value", "take")
ExpectString == On("value", "take")
ExpectAny == On("object", "take")
Collect == On("item", "collect")
SigSend == On("item", "offer")
SigSendNonZero == On("item", "offerNonZero")
Chan == On("item", "hand")
AcceptBool == On("bool", "judge")

(* A method that sends nothing, has no options and returns Switch's error. *)
Ask(on) ==
    [on |-> on, sends |-> {0}, ctx |-> FALSE, eof |-> FALSE,
     ctxErr |-> "never", need |-> "nothing", keep |-> FALSE,
     follow |-> FALSE, cache |-> FALSE, parses |-> FALSE, nilOut |-> FALSE,
     leak |-> FALSE]

Sending(n, m) == [m EXCEPT !.sends = n]
WithContext(m) == [m EXCEPT !.ctx = TRUE]
FailOnEOF(m) == [m EXCEPT !.eof = TRUE]

(* What comes after Switch: when the end of ctx replaces its result, and   *)
(* what a result without an answer becomes.                                *)
CtxErr(m) == [m EXCEPT !.ctxErr = "always"]
CtxErrIfFailed(m) == [m EXCEPT !.ctxErr = "failed"]
CtxErrIfUnanswered(m) == [m EXCEPT !.ctxErr = "unanswered"]
NeedValue(m) == [m EXCEPT !.need = "value"]
NeedEOS(m) == [m EXCEPT !.need = "eos"]
NeedIdentity(m) == [m EXCEPT !.need = "identity"]
NeedType(m) == [m EXCEPT !.need = "notNil"]
Dereferences(m) == [m EXCEPT !.need = "deref"]
KeepsChannel(m) == [m EXCEPT !.keep = TRUE]
LeaksChannel(m) == [m EXCEPT !.leak = TRUE]
Caches(m) == [m EXCEPT !.cache = TRUE]
Parses(m) == [m EXCEPT !.parses = TRUE]
NilOnFailure(m) == [m EXCEPT !.nilOut = TRUE]
Follows(m) == [m EXCEPT !.follow = TRUE]

(* Shapes most packages share. *)
Get == Ask(<<Expect, PassErrors>>)
Do == Ask(<<ExpectAck, PassErrors>>)
DoMessage == Ask(<<ExpectAck, OnErrorMessage>>)
List == Ask(<<Collect, BreakOnEOS, PassErrors>>)
ListMessage == Ask(<<Collect, BreakOnEOS, OnErrorMessage>>)
Stream == WithContext(Ask(<<SigSend, BreakOnEOS, PassErrors>>))
StreamNonZero == WithContext(Ask(<<SigSendNonZero, BreakOnEOS, PassErrors>>))

--------------------------------------------------------------------------
(* api/objects/client *)
objects_Blueprints == WithContext(List)
objects_Contains == Get
objects_Create == KeepsChannel(WithContext(Do))
objects_Delete == WithContext(Do)
objects_Describe == NilOnFailure(Stream)
objects_Find == NilOnFailure(StreamNonZero)
objects_GetBlueprint == CtxErrIfUnanswered(FailOnEOF(WithContext(Get)))
objects_Load == Ask(<<PassErrors, ExpectAny>>)
objects_New == NeedType(Ask(<<PassErrors, ExpectAny>>))
objects_NewMem == WithContext(Do)
objects_Probe == WithContext(Get)
objects_Purge == NilOnFailure(StreamNonZero)
objects_Push == Sending({1}, WithContext(Ask(<<AcceptBool, PassErrors>>)))
objects_Register == CtxErrIfUnanswered(Sending({1}, WithContext(Get)))
objects_RegisterDescriber == WithContext(Get)
objects_RegisterFinder == WithContext(Get)
objects_RegisterSearcher == WithContext(Get)
objects_RemoveRepository == Do
objects_Repositories == WithContext(List)
objects_Scan == NilOnFailure(WithContext(Ask(<<Chan, BreakOnEOS, PassErrors>>)))
objects_ScanFollow == Follows(objects_Scan)
objects_Search == NilOnFailure(Stream)
objects_Store == Sending({1}, Get)

(* api/apphost/client *)
apphost_Bind == KeepsChannel(Do)
apphost_Cancel == Do
apphost_CreateToken == Get
apphost_DeleteToken == WithContext(Do)
apphost_expectAck == CtxErrIfFailed(FailOnEOF(WithContext(Do)))
apphost_Grant == Sending({1}, apphost_expectAck)
apphost_HoldObject == WithContext(Do)
apphost_Hosts == StreamNonZero
apphost_ListGrants == CtxErrIfFailed(FailOnEOF(WithContext(List)))
apphost_ListHeldObjects == NilOnFailure(StreamNonZero)
apphost_ListTokens == List
apphost_readAccessToken == NeedValue(CtxErrIfUnanswered(WithContext(Get)))
apphost_RegisterWith == Sending({1}, apphost_readAccessToken)
apphost_RegisterHandler == Do
apphost_RequestGrant == Sending({1}, apphost_expectAck)
apphost_RevokeGrant == apphost_expectAck
apphost_RevokeAction == apphost_expectAck
apphost_UnholdObject == WithContext(Do)
apphost_Whoami == NeedIdentity(CtxErrIfUnanswered(WithContext(Get)))

(* api/user/client *)
user_AcceptContract == Sending({1}, CtxErr(WithContext(Do)))
user_AcceptMembership == Sending({2}, CtxErr(WithContext(Get)))
user_AddAsset == CtxErr(WithContext(Do))
user_Adopt == CtxErr(WithContext(Get))
user_Assets == CtxErr(WithContext(List))
user_Bootstrap == Sending({0, 1}, CtxErr(WithContext(Get)))
user_Contract == CtxErr(WithContext(Get))
user_DeriveIdentity == Sending({0, 1}, CtxErr(WithContext(Get)))
user_Expel == CtxErr(WithContext(Get))
user_Info == CtxErr(WithContext(Get))
user_Introduce == CtxErr(WithContext(Do))
user_Join == CtxErr(WithContext(Get))
user_ListExpelled == CtxErr(WithContext(List))
user_ListSiblings == CtxErr(WithContext(ListMessage))
user_NewContract == CtxErr(WithContext(Get))
user_RemoveAsset == CtxErr(WithContext(Do))
user_RequestMembership == CtxErr(WithContext(Get))
user_SwarmStatus == CtxErr(WithContext(ListMessage))
user_SyncAssets == CtxErr(WithContext(Ask(<<Collect, Expect, PassErrors>>)))
user_SyncWith == CtxErr(WithContext(Do))

(* api/messaging/client *)
messaging_Archive == NeedValue(Get)
messaging_CreateMailbox == NeedValue(Get)
messaging_DeleteMailbox == NeedValue(Get)
messaging_ListMessages == NeedEOS(Ask(<<Collect, PassErrors, MarkEOS>>))
messaging_Mailbox == NeedValue(Get)
messaging_read == Sending({1}, NeedValue(Get))
messaging_SendMessage == Sending({1}, NeedValue(Get))
messaging_Wait == NeedValue(CtxErrIfUnanswered(WithContext(Get)))

(* api/inference/client *)
inference_Models == CtxErrIfFailed(FailOnEOF(WithContext(Get)))

(* api/dir/client *)
dir_AliasMap == CtxErr(WithContext(Get))
dir_ApplyFilters == NeedValue(CtxErr(WithContext(Get)))
dir_Filters == CtxErr(WithContext(List))
dir_GetAlias == Caches(CtxErr(WithContext(Ask(<<ExpectString, PassErrors>>))))
dir_ResolveIdentity == Parses(Caches(CtxErr(WithContext(Get))))
dir_SetAlias == CtxErr(WithContext(Do))

(* api/crypto/client *)
crypto_PublicKey == Sending({1}, Get)
crypto_SignHash == Get
crypto_SignText == Get
crypto_VerifyHashSignature == Sending({1}, Do)
crypto_VerifyTextSignature == Sending({1}, Do)

(* api/nat/client *)
nat_ListHoles == ListMessage
nat_SetEnabled == DoMessage
nat_Punch == WithContext(Ask(<<Expect, OnErrorMessage>>))

(* api/indexing/client *)
indexing_setRepoIndexing == Get
indexing_RegisterIndexer == NeedValue(Get)
indexing_UnregisterIndexer == Get

(* api/mcp/client *)
mcp_Agent == Get
mcp_CreateAgent == Get
mcp_DeleteAgent == Do
mcp_ListAgents == List

(* api/kcp/client *)
kcp_CloseEphemeralListener == DoMessage
kcp_CreateEphemeralListener == DoMessage
kcp_ListEndpointLocalMappings == ListMessage
kcp_RemoveEndpointLocalPort == DoMessage
kcp_SetEndpointLocalPort == DoMessage

(* api/tcp/client *)
tcp_CloseEphemeralListener == DoMessage
tcp_CreateEphemeralListener == DoMessage

(* api/gateway/client *)
gateway_Connect == Get
gateway_List == List
gateway_Register == Get
gateway_Unregister == Do

(* api/bip137sig/client *)
bip137sig_DeriveKey == Sending({1}, Get)
bip137sig_EntropyToMnemonic == Dereferences(Sending({1}, Get))
bip137sig_MnemonicToSeed == Sending({1}, Get)
bip137sig_NewEntropy == Get

(* api/nearby/client *)
nearby_Broadcast == Do
nearby_List == List
nearby_Scan == Do

(* api/nodes/client *)
nodes_Links == ListMessage
nodes_ResolveEndpoints == LeaksChannel(ListMessage)

(* api/sys/client *)
sys_readAccessToken == NeedValue(CtxErrIfUnanswered(WithContext(Get)))
sys_RegisterManager == Sending({1}, sys_readAccessToken)

(* api/auth/client *)
auth_SignContract == Sending({1}, Get)

(* api/secp256k1/client *)
secp256k1_NewKey == Get

(* Every method.  Methods that make the same choices are the same record. *)
AllMethods ==
    {objects_Blueprints, objects_Contains, objects_Create, objects_Delete,
     objects_Describe, objects_Find, objects_GetBlueprint, objects_Load,
     objects_New, objects_NewMem, objects_Probe, objects_Purge,
     objects_Push, objects_Register, objects_RegisterDescriber,
     objects_RegisterFinder, objects_RegisterSearcher,
     objects_RemoveRepository, objects_Repositories, objects_Scan,
     objects_ScanFollow, objects_Search, objects_Store, apphost_Bind,
     apphost_Cancel, apphost_CreateToken, apphost_DeleteToken,
     apphost_expectAck, apphost_Grant, apphost_HoldObject, apphost_Hosts,
     apphost_ListGrants, apphost_ListHeldObjects, apphost_ListTokens,
     apphost_readAccessToken, apphost_RegisterWith, apphost_RegisterHandler,
     apphost_RequestGrant, apphost_RevokeGrant, apphost_RevokeAction,
     apphost_UnholdObject, apphost_Whoami, user_AcceptContract,
     user_AcceptMembership, user_AddAsset, user_Adopt, user_Assets,
     user_Bootstrap, user_Contract, user_DeriveIdentity, user_Expel,
     user_Info, user_Introduce, user_Join, user_ListExpelled,
     user_ListSiblings, user_NewContract, user_RemoveAsset,
     user_RequestMembership, user_SwarmStatus, user_SyncAssets,
     user_SyncWith, messaging_Archive, messaging_CreateMailbox,
     messaging_DeleteMailbox, messaging_ListMessages, messaging_Mailbox,
     messaging_read, messaging_SendMessage, messaging_Wait,
     inference_Models, dir_AliasMap, dir_ApplyFilters, dir_Filters,
     dir_GetAlias, dir_ResolveIdentity, dir_SetAlias, crypto_PublicKey,
     crypto_SignHash, crypto_SignText, crypto_VerifyHashSignature,
     crypto_VerifyTextSignature, nat_ListHoles, nat_SetEnabled, nat_Punch,
     indexing_setRepoIndexing, indexing_RegisterIndexer,
     indexing_UnregisterIndexer, mcp_Agent, mcp_CreateAgent,
     mcp_DeleteAgent, mcp_ListAgents, kcp_CloseEphemeralListener,
     kcp_CreateEphemeralListener, kcp_ListEndpointLocalMappings,
     kcp_RemoveEndpointLocalPort, kcp_SetEndpointLocalPort,
     tcp_CloseEphemeralListener, tcp_CreateEphemeralListener,
     gateway_Connect, gateway_List, gateway_Register, gateway_Unregister,
     bip137sig_DeriveKey, bip137sig_EntropyToMnemonic,
     bip137sig_MnemonicToSeed, bip137sig_NewEntropy, nearby_Broadcast,
     nearby_List, nearby_Scan, nodes_Links, nodes_ResolveEndpoints,
     sys_readAccessToken, sys_RegisterManager, auth_SignContract,
     secp256k1_NewKey}
=============================================================================
