----------------------------- MODULE WebSenders -----------------------------
(* Senders to automation services, social networks and mail APIs that are  *)
(* a request or a request per recipient.                                   *)
EXTENDS SendPlans

IFTTTParseURL(u) == Username(u) /\ HasHost(u)
IFTTTSend(u) == One(1)

ZapierParseURL(u) == HasHost(u)
ZapierSend(u) == One(1)

NodeREDParseURL(u) == HasHost(u)
NodeREDSend(u) == One(1)

HomeAssistantParseURL(u) == Username(u) /\ HasHost(u)
HomeAssistantSend(u) == One(1)

FacebookParseURL(u) == Username(u) /\ HasHost(u)
FacebookSend(u) == One(1)

(* Posts these networks have no API for: Send always fails.                *)
InstagramParseURL(u) == Username(u) /\ HasHost(u)
InstagramSend(u) == Hopeless
YouTubeParseURL(u) == Username(u) /\ HasHost(u)
YouTubeSend(u) == Hopeless
TikTokParseURL(u) == Username(u) /\ HasHost(u)
TikTokSend(u) == Hopeless

MastodonParseURL(u) == Username(u) /\ HasHost(u) /\ "visibility" \notin u.bad
MastodonSend(u) == One(1)

SendGridParseURL(u) == Username(u) /\ Has(u, "from") /\ u.path > 0
SendGridSend(u) == One(u.path)

MailgunParseURL(u) == Username(u) /\ HasHost(u) /\ u.path > 0
MailgunSend(u) == EachOrReturn(u.path)

WebhookParseURL(u) == TRUE
WebhookSend(u) == ToHost(u, One(1))

(* A login for every Send: its token is not kept, and not looked at.       *)
RedditParseURL(u) == HasPassword(u) /\ HasAll(u, {"username", "password"}) /\ u.path > 0
RedditAuthenticate == Trusting(Login(Flagged(Only200(Call))))
RedditSend(u) == Plan(<<RedditAuthenticate, Post({1})>>)

(* A webhook has its credentials in the query.  Else the password holds    *)
(* them, or the user is the token, unless it looks like half of the others.*)
TwitterParseURL(u) ==
  IF u.hook
  THEN /\ HasAll(u, {"api_key", "api_secret"})
       /\ Has(u, "access_token") \/ Has(u, "bearer_token")
  ELSE Username(u) /\ (u.pass = "parts" \/ (~HasPassword(u) /\ u.user # "key"))
TwitterSendViaWebhook(u) == ToHost(u, One(1))
TwitterSendDirectly(u) == One(1)
TwitterSend(u) == IF u.hook THEN TwitterSendViaWebhook(u) ELSE TwitterSendDirectly(u)

LinkedInParseURL(u) ==
  IF u.hook THEN Has(u, "access_token")
  ELSE Username(u) /\ (u.pass = "parts" \/ ~HasPassword(u))
LinkedInSendViaWebhook(u) == ToHost(u, One(1))
LinkedInSendDirectly(u) == One(1)
LinkedInSend(u) == IF u.hook THEN LinkedInSendViaWebhook(u) ELSE LinkedInSendDirectly(u)
=============================================================================
