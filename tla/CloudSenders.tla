---------------------------- MODULE CloudSenders ----------------------------
(* Senders to cloud messaging, voice and device services.                  *)
EXTENDS SendPlans

(* To, cc and bcc are one recipient each; one post has them all.           *)
SESParseURL(u) == HasHost(u) /\ HasAll(u, {"from", "to"})
SESProcessAttachments == Local
SESSend(u) ==
  Plan(<<SESProcessAttachments, Post(1..1 + Cardinality(u.query \cap {"cc", "bcc"}))>>)

SNSParseURL(u) == HasHost(u) /\ (Has(u, "topic_arn") \/ Has(u, "topic"))
SNSSend(u) == One(1)

PubSubParseURL(u) == HasHost(u) /\ HasAll(u, {"project_id", "topic"})
PubSubSend(u) == One(1)

AzureSBParseURL(u) ==
  /\ HasHost(u)
  /\ \/ Has(u, "connection_string")
     \/ Has(u, "namespace") /\ (Has(u, "sas_key") \/ Username(u))
  /\ Has(u, "queue") \/ Has(u, "topic")
AzureSBSend(u) == One(1)

(* The next four take their credentials from the query for a webhook, else *)
(* from the user.  Three of them have nothing but the webhook: the direct  *)
(* form says that a signature is missing.                                  *)
AWSIoTParseURL(u) ==
  /\ IF u.hook THEN HasAll(u, {"access_key", "secret_key", "endpoint", "topic"})
                    /\ ~Bad(u, "region")
     ELSE Username(u) /\ Password(u) /\ HasHost(u) /\ u.path > 0
  /\ ~Bad(u, "qos")
AWSIoTSendViaWebhook(u) == ToHost(u, One(1))
AWSIoTSendDirectly(u) == Hopeless
AWSIoTSend(u) == IF u.hook THEN AWSIoTSendViaWebhook(u) ELSE AWSIoTSendDirectly(u)

(* /projects/<id>/locations/<region>/registries/<id>                       *)
GCPIoTPath == 6
GCPIoTParseURL(u) ==
  /\ IF u.hook
     THEN /\ HasAll(u, {"project_id", "registry_id", "service_account", "private_key"})
          /\ ~Bad(u, "region")
     ELSE Username(u) /\ Password(u) /\ u.path >= GCPIoTPath /\ ~Bad(u, "path")
  /\ ~Bad(u, "message_type")
GCPIoTSendViaWebhook(u) == ToHost(u, One(1))
GCPIoTSendDirectly(u) == Hopeless
GCPIoTSend(u) == IF u.hook THEN GCPIoTSendViaWebhook(u) ELSE GCPIoTSendDirectly(u)

PollyParseURL(u) ==
  /\ IF u.hook THEN HasAll(u, {"access_key", "secret_key"}) /\ ~Bad(u, "region")
     ELSE Username(u) /\ Password(u)
  /\ ~Bad(u, "voice") /\ ~Bad(u, "format") /\ ~Bad(u, "language")
PollySendViaWebhook(u) == ToHost(u, One(1))
PollySendDirectly(u) == Hopeless
PollySend(u) == IF u.hook THEN PollySendViaWebhook(u) ELSE PollySendDirectly(u)

(* The first segment is the caller, the others are called, and so is ?to;  *)
(* a webhook calls ?to only, whatever it is.                               *)
TwilioVoiceCallees(u) == Plus(IF u.hook \/ u.path = 0 THEN 0 ELSE u.path - 1, Has(u, "to"))
TwilioVoiceParseURL(u) ==
  /\ IF u.hook THEN HasAll(u, {"account_sid", "auth_token", "from"})
     ELSE /\ Username(u) /\ Password(u)
          /\ u.path > 0 /\ ~Bad(u, "path") /\ ~Bad(u, "to")
  /\ ~Bad(u, "language") /\ ~Bad(u, "gender")
  /\ TwilioVoiceCallees(u) > 0
TwilioVoiceSendViaWebhook(u) == ToHost(u, One(TwilioVoiceCallees(u)))
TwilioVoiceSendCallsDirectly(u) == EachOrReturn(TwilioVoiceCallees(u))
TwilioVoiceSend(u) ==
  IF u.hook THEN TwilioVoiceSendViaWebhook(u) ELSE TwilioVoiceSendCallsDirectly(u)
=============================================================================
