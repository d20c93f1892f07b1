-------------------------------- MODULE Push --------------------------------
(***************************************************************************)
(* push.rs, the sender of waker.rs and build_waker of bin/trail-stash.rs:  *)
(* the request that goes to a push provider for one subscription.          *)
(*                                                                         *)
(* PushEnv is the push environment of the process: None is unset and ""    *)
(* set to nothing.                                                         *)
(***************************************************************************)
CONSTANTS PushEnv, None

\* env::var(..).ok().filter(|s| !s.is_empty()), and unwrap_or_default()
NonEmpty(value)  == IF value = "" THEN None ELSE value
OrDefault(value) == IF value = None THEN "" ELSE value

\* build_waker: without any routing id the waker does nothing.
IsNoop == NonEmpty(PushEnv.APNS_BUNDLE_ID) = None /\ NonEmpty(PushEnv.FCM_PROJECT_ID) = None

\* PushConfig
PushConfig == [bundle_id      |-> OrDefault(PushEnv.APNS_BUNDLE_ID),
               fcm_project_id |-> OrDefault(PushEnv.FCM_PROJECT_ID)]

\* Faulty variant: one credential for both providers.
BearerOfApns(platform) == NonEmpty(PushEnv.APNS_BEARER)

\* EnvCredentials
Bearer(platform) == NonEmpty(IF platform = "apns" THEN PushEnv.APNS_BEARER ELSE PushEnv.FCM_BEARER)

\* Silent, data only: a hint which namespace changed, and nothing of it.
ApnsRequest(token, ns) ==
    [provider |-> "apns", to |-> token, topic |-> PushConfig.bundle_id, priority |-> "background", ns |-> ns]
FcmRequest(token, ns) ==
    [provider |-> "fcm", to |-> token, topic |-> PushConfig.fcm_project_id, priority |-> "high", ns |-> ns]

\* HttpPushWaker::build: None without a credential of the platform.
Build(ns, sub) ==
    IF Bearer(sub.platform) = None THEN None
    ELSE [request |-> IF sub.platform = "apns" THEN ApnsRequest(sub.token, ns) ELSE FcmRequest(sub.token, ns),
          bearer  |-> Bearer(sub.platform)]

=============================================================================
