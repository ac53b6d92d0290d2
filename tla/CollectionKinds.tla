--------------------------- MODULE CollectionKinds ---------------------------
(***************************************************************************)
(* The soft-deleted collections that the administrators keep, told apart   *)
(* by what their own files say: the query hook and the unique index of the *)
(* model (schema), the writes of the repository (store), the lookups,      *)
(* checks and cache of the service (service) and the calls its routes      *)
(* offer (routes).  Collections is the machine that they all run.          *)
(***************************************************************************)
EXTENDS FiniteSets

(* Calls on one document, and on a list of ids. *)
Edits == {"create", "update", "delete", "purge", "restore"}
Bulk == {"updateMany", "deleteMany", "purgeMany", "restoreMany"}
Writes == Edits \cup Bulk
CallNames == Writes \cup {"read"}
Trash == {"delete", "deleteMany", "purge", "purgeMany", "restore", "restoreMany"}

(* hook: when the find hook hides the deleted documents: unless a query    *)
(* asks otherwise by its option or its filter, unless its filter does,     *)
(* always (and so does the update hook), never.                            *)
Hooks == {"optional", "filter", "always", "none"}
Schemas == [hook : Hooks, unique : BOOLEAN]

(* erase: a soft delete loads and saves, or is one update; remove: what a  *)
(* permanent delete of one finds; removeMany: of many; idles: a soft       *)
(* delete or a restore leaves the document inactive.                       *)
Stores == [erase : {"save", "update"}, remove : {"plain", "bypass"},
           removeMany : {"ids", "deleted"}, idles : BOOLEAN]

(* checks: calls that look for the value among the others; looks: those    *)
(* that look the documents up first; strict: those that answer 404 when    *)
(* their write finds none; purge, purgeMany: how these look (unselected:   *)
(* they keep of what they find those with is_deleted, which the model does *)
(* not select); history: when the row of the old version is written (in a  *)
(* transaction, that also makes one document the initial one); keys: what  *)
(* is cached; defaults: so is the answer that nothing was found;           *)
(* clearsAll, clearsOwn: calls that clear every key, or those of the       *)
(* document's value and "initial".                                         *)
Services ==
  [checks : SUBSET Edits, looks : SUBSET Writes, strict : SUBSET Edits,
   purge : {"none", "plain", "bypass"},
   purgeMany : {"plain", "bypass", "deleted", "unselected"},
   history : {"none", "after", "transaction"},
   keys : SUBSET {"public", "id", "value", "initial", "total"}, defaults : BOOLEAN,
   clearsAll : SUBSET Writes, clearsOwn : SUBSET Writes]

CollectionKinds ==
  [schema : Schemas, store : Stores, service : Services, routes : SUBSET CallNames]

-----------------------------------------------------------------------------
(* Models *)

(* Hidden unless bypassDeleted or a filter on is_deleted.  The unique      *)
(* index on value of features, endpoints, popups and payment methods is    *)
(* partial on is_deleted: {$ne: true}, an expression MongoDB does not      *)
(* accept in an index: there is none.                                      *)
FeatureSchema == [hook |-> "optional", unique |-> FALSE]
FeatureEndpointSchema == FeatureSchema
FeaturePopupSchema == FeatureSchema
PaymentMethodSchema == FeatureSchema
FeatureFeedbackSchema == FeatureSchema
ContactSchema == FeatureSchema
IntervalSchema == FeatureSchema
BillingSettingSchema == FeatureSchema
AiModelHistorySchema == FeatureSchema
BillingSettingHistorySchema == FeatureSchema
CreditsProfitHistorySchema == FeatureSchema
PackageHistorySchema == FeatureSchema

(* Unique indexes that count deleted documents. *)
CreditsProfitSchema == [hook |-> "optional", unique |-> TRUE]
CouponSchema == CreditsProfitSchema
PackageFeatureConfigSchema == CreditsProfitSchema

AiModelSchema == [hook |-> "filter", unique |-> TRUE]

NotificationSchema == [hook |-> "always", unique |-> FALSE]
NotificationRecipientSchema == [hook |-> "always", unique |-> TRUE]

UsageSchema == [hook |-> "none", unique |-> FALSE]

-----------------------------------------------------------------------------
(* Repositories *)

FeatureStore ==
  [erase |-> "save", remove |-> "bypass", removeMany |-> "deleted", idles |-> FALSE]
FeatureEndpointStore == FeatureStore
FeaturePopupStore == FeatureStore
CreditsProfitStore == FeatureStore
FeatureFeedbackStore == FeatureStore
PackageFeatureConfigStore == FeatureStore
BillingSettingStore == [FeatureStore EXCEPT !.idles = TRUE]
PaymentMethodStore == [FeatureStore EXCEPT !.removeMany = "ids"]
NotificationStore == [FeatureStore EXCEPT !.remove = "plain"]
NotificationRecipientStore == NotificationStore

AiModelStore == [FeatureStore EXCEPT !.erase = "update"]
IntervalStore == AiModelStore
CouponStore == AiModelStore
CreditsUsageStore == AiModelStore

(* findByIdAndDelete without the option; deleteMany by the ids alone. *)
ContactStore ==
  [erase |-> "update", remove |-> "plain", removeMany |-> "ids", idles |-> FALSE]
AiModelHistoryStore == ContactStore
BillingSettingHistoryStore == ContactStore
CreditsProfitHistoryStore == ContactStore
PackageHistoryStore == ContactStore
FeatureUsageLogStore == ContactStore

-----------------------------------------------------------------------------
(* Services *)

Listed == {"updateMany", "deleteMany", "purgeMany"}
Uncached(checks, looks, purge, purgeMany) ==
  [checks |-> checks, looks |-> looks \cup Listed, strict |-> {}, purge |-> purge,
   purgeMany |-> purgeMany, history |-> "none", keys |-> {}, defaults |-> FALSE,
   clearsAll |-> {}, clearsOwn |-> {}]

(* clearFeatureCache clears feature:* and features:public:*. *)
FeatureService ==
  [Uncached({"create", "update"}, {"update", "delete"}, "plain", "unselected") EXCEPT
     !.keys = {"public"}, !.clearsAll = Writes]

(* It does not match feature-endpoint:public:<id or value>, which keeps    *)
(* what it has until its 24 hours are over.                                *)
FeatureEndpointService ==
  [FeatureService EXCEPT !.keys = {"public", "value"}, !.clearsAll = {}]

FeaturePopupService ==
  Uncached({"create", "update"}, {"update", "delete"}, "bypass", "unselected")
FeatureFeedbackService ==
  [Uncached({}, {}, "none", "plain") EXCEPT
     !.looks = {"delete"}, !.strict = {"update"}]
ContactService == Uncached({}, {"delete"}, "bypass", "plain")
PaymentMethodService == Uncached({}, {"update"}, "plain", "bypass")
IntervalService ==
  [Uncached({}, {"update"}, "bypass", "deleted") EXCEPT
     !.keys = {"id"}, !.clearsAll = Writes]
PackageFeatureConfigService ==
  [Uncached({}, {"update", "delete"}, "bypass", "plain") EXCEPT
     !.keys = {"value"}, !.clearsAll = Writes]
CouponService ==
  [Uncached({}, {}, "none", "plain") EXCEPT !.strict = {"delete"}]
CreditsUsageService == Uncached({}, {"delete"}, "none", "plain")
AiModelHistoryService == Uncached({}, {"delete"}, "bypass", "plain")
BillingSettingHistoryService == AiModelHistoryService
CreditsProfitHistoryService == AiModelHistoryService
PackageHistoryService == AiModelHistoryService
FeatureUsageLogService == AiModelHistoryService
NotificationService == Uncached({}, {"update", "delete"}, "bypass", "deleted")
NotificationRecipientService == NotificationService

(* The settings that a charge reads. *)
AiModelService ==
  [Uncached({"create"}, {"update"}, "none", "deleted") EXCEPT
     !.strict = {"update", "delete", "purge"}, !.history = "transaction",
     !.keys = {"value", "initial"}, !.defaults = TRUE,
     !.clearsOwn = {"create", "update", "delete"}, !.clearsAll = {"purge"}]
BillingSettingService ==
  [Uncached({}, {"update"}, "none", "unselected") EXCEPT
     !.strict = {"update", "delete", "purge"}, !.history = "transaction",
     !.keys = {"initial"}, !.defaults = TRUE,
     !.clearsAll = {"create", "update", "delete", "purge"}]
CreditsProfitService ==
  [Uncached({}, {"update", "delete"}, "bypass", "unselected") EXCEPT
     !.history = "after", !.keys = {"total"}, !.defaults = TRUE,
     !.clearsAll = Writes]

-----------------------------------------------------------------------------
(* Routes: the writes they offer, and the cached reads of the system *)

FeatureRoutes == CallNames
FeatureEndpointRoutes == CallNames
FeaturePopupRoutes == Writes \ {"updateMany"}
FeatureFeedbackRoutes == {"create", "update", "updateMany", "delete", "deleteMany"}
ContactRoutes == {"create"} \cup Trash
PaymentMethodRoutes == Writes
IntervalRoutes == CallNames
PackageFeatureConfigRoutes == {"create", "update", "delete", "purge", "read"}
AiModelRoutes == CallNames \ {"updateMany"}
BillingSettingRoutes == CallNames \ {"updateMany"}
CreditsProfitRoutes == CallNames
CouponRoutes == {"create", "update", "delete"}
CreditsUsageRoutes == {"create", "delete"}
AiModelHistoryRoutes == Trash
BillingSettingHistoryRoutes == Trash
CreditsProfitHistoryRoutes == Trash
PackageHistoryRoutes == Trash
FeatureUsageLogRoutes == {"create", "delete", "deleteMany", "purge", "purgeMany"}
NotificationRoutes == Writes
NotificationRecipientRoutes == Writes

Kind(schema, store, service, routes) ==
  [schema |-> schema, store |-> store, service |-> service, routes |-> routes]

(* Collections whose files say the same are one kind. *)
AllKinds ==
  {Kind(FeatureSchema, FeatureStore, FeatureService, FeatureRoutes),
   Kind(FeatureEndpointSchema, FeatureEndpointStore, FeatureEndpointService,
        FeatureEndpointRoutes),
   Kind(FeaturePopupSchema, FeaturePopupStore, FeaturePopupService,
        FeaturePopupRoutes),
   Kind(FeatureFeedbackSchema, FeatureFeedbackStore, FeatureFeedbackService,
        FeatureFeedbackRoutes),
   Kind(ContactSchema, ContactStore, ContactService, ContactRoutes),
   Kind(PaymentMethodSchema, PaymentMethodStore, PaymentMethodService,
        PaymentMethodRoutes),
   Kind(IntervalSchema, IntervalStore, IntervalService, IntervalRoutes),
   Kind(PackageFeatureConfigSchema, PackageFeatureConfigStore,
        PackageFeatureConfigService, PackageFeatureConfigRoutes),
   Kind(AiModelSchema, AiModelStore, AiModelService, AiModelRoutes),
   Kind(BillingSettingSchema, BillingSettingStore, BillingSettingService,
        BillingSettingRoutes),
   Kind(CreditsProfitSchema, CreditsProfitStore, CreditsProfitService,
        CreditsProfitRoutes),
   Kind(CouponSchema, CouponStore, CouponService, CouponRoutes),
   Kind(UsageSchema, CreditsUsageStore, CreditsUsageService, CreditsUsageRoutes),
   Kind(AiModelHistorySchema, AiModelHistoryStore, AiModelHistoryService,
        AiModelHistoryRoutes),
   Kind(BillingSettingHistorySchema, BillingSettingHistoryStore,
        BillingSettingHistoryService, BillingSettingHistoryRoutes),
   Kind(CreditsProfitHistorySchema, CreditsProfitHistoryStore,
        CreditsProfitHistoryService, CreditsProfitHistoryRoutes),
   Kind(PackageHistorySchema, PackageHistoryStore, PackageHistoryService,
        PackageHistoryRoutes),
   Kind(UsageSchema, FeatureUsageLogStore, FeatureUsageLogService,
        FeatureUsageLogRoutes),
   Kind(NotificationSchema, NotificationStore, NotificationService,
        NotificationRoutes),
   Kind(NotificationRecipientSchema, NotificationRecipientStore,
        NotificationRecipientService, NotificationRecipientRoutes)}
=============================================================================
