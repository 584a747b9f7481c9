----------------------------- MODULE OpsSenders -----------------------------
(* Senders to alerting, monitoring and issue tracking services.  Those with *)
(* a webhook form take their credentials from the query then, else from    *)
(* the user; Send posts to the webhook, which may have no host.            *)
EXTENDS SendPlans

(* With a user, the host is the region unless the query has one.           *)
PagerDutyParseURL(u) ==
  /\ IF HasUser(u) THEN Username(u) /\ (Has(u, "region") \/ u.host # "given")
     ELSE HasHost(u)
  /\ ~Bad(u, "region")
PagerDutySend(u) == Plan(<<Flagged(Post({1}))>>)

OpsgenieParseURL(u) ==
  /\ IF HasUser(u) THEN Username(u) /\ u.host # "given" ELSE HasHost(u)
  /\ ~Bad(u, "region") /\ ~Bad(u, "priority")
OpsgenieSend(u) == One(1)

GitHubParseURL(u) ==
  IF u.hook THEN HasAll(u, {"token", "owner", "repo"}) ELSE Username(u) /\ u.path >= 2
GitHubSendViaWebhook(u) == ToHost(u, One(1))
GitHubSendDirectly(u) == One(1)
GitHubSend(u) == IF u.hook THEN GitHubSendViaWebhook(u) ELSE GitHubSendDirectly(u)

GitLabParseURL(u) ==
  IF u.hook THEN HasAll(u, {"token", "project_id"}) ELSE Username(u) /\ u.path > 0
GitLabSendViaWebhook(u) == ToHost(u, One(1))
GitLabSendDirectly(u) == One(1)
GitLabSend(u) == IF u.hook THEN GitLabSendViaWebhook(u) ELSE GitLabSendDirectly(u)

(* Notify leaves the request without a URL: Send creates an issue, and     *)
(* comments on none.                                                       *)
JiraParseURL(u) ==
  /\ IF u.hook THEN HasAll(u, {"username", "token", "server_url"})
     ELSE Username(u) /\ Password(u)
  /\ ~Bad(u, "priority")
JiraSendViaWebhook(u) == ToHost(u, One(1))
JiraSendIssueDirectly(u) == ToHost(u, One(1))
JiraSend(u) == IF u.hook THEN JiraSendViaWebhook(u) ELSE JiraSendIssueDirectly(u)

(* An event, a metric and a log: one post to the webhook, or one post each.*)
Kinds == 3

DatadogParseURL(u) ==
  (IF u.hook THEN Has(u, "api_key") ELSE Username(u)) /\ ~Bad(u, "region")
DatadogSendViaWebhook(u) == ToHost(u, One(Kinds))
DatadogSendDirectly(u) == EachOrReturn(Kinds)
DatadogSend(u) == IF u.hook THEN DatadogSendViaWebhook(u) ELSE DatadogSendDirectly(u)

NewRelicParseURL(u) ==
  /\ Has(u, "account_id") /\ (IF u.hook THEN Has(u, "api_key") ELSE Username(u))
  /\ ~Bad(u, "region")
NewRelicSendViaWebhook(u) == ToHost(u, One(Kinds))
NewRelicSendDirectly(u) == EachOrReturn(Kinds)
NewRelicSend(u) == IF u.hook THEN NewRelicSendViaWebhook(u) ELSE NewRelicSendDirectly(u)
=============================================================================
