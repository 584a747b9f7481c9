----------------------------- MODULE PushSenders -----------------------------
(* Senders to phones and browsers through a push service.                  *)
EXTENDS SendPlans

(* Without devices one post reaches them all; with devices it is enough    *)
(* that one post went well.  Only the body of an answer counts.            *)
PushoverParseURL(u) ==
  Username(u) /\ (IF HasPassword(u) THEN Password(u) ELSE HasHost(u))
PushoverSendToDevice(i) == BodyOnly(Post({i}))
PushoverSend(u) ==
  IF u.path = 0 THEN Plan(<<PushoverSendToDevice(1)>>)
  ELSE SomeOf([i \in 1..u.path |-> Noting(PushoverSendToDevice(i))])

(* Targets come from the path, three keys of the query and the fragment.   *)
PushbulletTargets(u) ==
  Plus(u.path + Cardinality(u.query \cap {"device", "email", "channel"}), u.frag)
PushbulletParseURL(u) == HasHost(u)
PushbulletSendPush(i) == Flagged(Post({i}))
PushbulletSend(u) ==
  IF PushbulletTargets(u) = 0 THEN Plan(<<PushbulletSendPush(1)>>)
  ELSE SomeOf([i \in 1..PushbulletTargets(u) |-> Noting(PushbulletSendPush(i))])

NtfyParseURL(u) == HasHost(u) /\ u.path > 0 /\ ~Bad(u, "priority")
NtfySend(u) == One(1)

GotifyParseURL(u) == u.path > 0
GotifySend(u) == One(1)      \* without a host, the local one at the default port

FCMParseURL(u) ==
  Has(u, "project_id") /\ (Has(u, "server_key") \/ Has(u, "service_account"))
FCMSend(u) == ToHost(u, One(1))

APNSParseURL(u) ==
  /\ Has(u, "bundle_id") /\ ~Bad(u, "environment")
  /\ \/ HasAll(u, {"key_id", "team_id", "key_path"})
     \/ Has(u, "cert_path") /\ ~HasAll(u, {"key_id", "team_id"})
APNSSend(u) == ToHost(u, One(1))

(* sendWebhookRequest prints the request and returns nil without making    *)
(* it.  A platform that fails does not keep the other from its turn.       *)
RichMobilePushParseURL(u) == u.user \in {"ios", "both"} /\ HasHost(u)
RichMobilePushSendTo(i) == Noting(Feigned(Post({i})))
RichMobilePushSend(u) ==
  Plan([i \in 1..(IF u.user = "both" THEN 2 ELSE 1) |-> RichMobilePushSendTo(i)])
=============================================================================
