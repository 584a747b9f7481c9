------------------------------ MODULE Senders ------------------------------
(* The registry of apprise.go: what ParseURL and Send of the service with  *)
(* the scheme of a URL make of it.                                         *)
EXTENDS ChatSenders, SmsSenders, WebSenders, PushSenders, OpsSenders, CloudSenders,
        LocalSenders

ParseURL(u) ==
  CASE u.scheme = "discord" -> DiscordParseURL(u)
    [] u.scheme = "slack" -> SlackParseURL(u)
    [] u.scheme \in {"telegram", "tgram"} -> TelegramParseURL(u)
    [] u.scheme = "matrix" -> MatrixParseURL(u)
    [] u.scheme \in {"mattermost", "mmosts"} -> MattermostParseURL(u)
    [] u.scheme \in {"rocketchat", "rocket"} -> RocketChatParseURL(u)
    [] u.scheme = "msteams" -> MSTeamsParseURL(u)
    [] u.scheme \in {"mailto", "mailtos"} -> EmailParseURL(u)
    [] u.scheme = "sendgrid" -> SendGridParseURL(u)
    [] u.scheme = "mailgun" -> MailgunParseURL(u)
    [] u.scheme \in {"webhook", "webhooks", "json"} -> WebhookParseURL(u)
    [] u.scheme = "ifttt" -> IFTTTParseURL(u)
    [] u.scheme = "zapier" -> ZapierParseURL(u)
    [] u.scheme = "nodered" -> NodeREDParseURL(u)
    [] u.scheme \in {"homeassistant", "hass"} -> HomeAssistantParseURL(u)
    [] u.scheme = "facebook" -> FacebookParseURL(u)
    [] u.scheme = "instagram" -> InstagramParseURL(u)
    [] u.scheme = "youtube" -> YouTubeParseURL(u)
    [] u.scheme = "tiktok" -> TikTokParseURL(u)
    [] u.scheme = "mastodon" -> MastodonParseURL(u)
    [] u.scheme = "reddit" -> RedditParseURL(u)
    [] u.scheme = "twitter" -> TwitterParseURL(u)
    [] u.scheme = "linkedin" -> LinkedInParseURL(u)
    [] u.scheme \in {"pushover", "pover"} -> PushoverParseURL(u)
    [] u.scheme \in {"pushbullet", "pball"} -> PushbulletParseURL(u)
    [] u.scheme \in {"ntfy", "ntfys"} -> NtfyParseURL(u)
    [] u.scheme \in {"gotify", "gotifys"} -> GotifyParseURL(u)
    [] u.scheme = "fcm" -> FCMParseURL(u)
    [] u.scheme = "apns" -> APNSParseURL(u)
    [] u.scheme \in {"rich-mobile-push", "batch-mobile-push"} -> RichMobilePushParseURL(u)
    [] u.scheme = "twilio" -> TwilioParseURL(u)
    [] u.scheme \in {"nexmo", "vonage"} -> NexmoParseURL(u)
    [] u.scheme = "plivo" -> PlivoParseURL(u)
    [] u.scheme = "bulksms" -> BulkSMSParseURL(u)
    [] u.scheme = "clicksend" -> ClickSendParseURL(u)
    [] u.scheme = "messagebird" -> MessageBirdParseURL(u)
    [] u.scheme = "textmagic" -> TextMagicParseURL(u)
    [] u.scheme = "aws-sns-sms" -> AWSSNSSMSParseURL(u)
    [] u.scheme = "signal" -> SignalParseURL(u)
    [] u.scheme = "whatsapp" -> WhatsAppParseURL(u)
    [] u.scheme = "twilio-voice" -> TwilioVoiceParseURL(u)
    [] u.scheme = "polly" -> PollyParseURL(u)
    [] u.scheme = "aws-iot" -> AWSIoTParseURL(u)
    [] u.scheme = "gcp-iot" -> GCPIoTParseURL(u)
    [] u.scheme = "sns" -> SNSParseURL(u)
    [] u.scheme = "ses" -> SESParseURL(u)
    [] u.scheme = "azuresb" -> AzureSBParseURL(u)
    [] u.scheme = "pubsub" -> PubSubParseURL(u)
    [] u.scheme = "pagerduty" -> PagerDutyParseURL(u)
    [] u.scheme = "opsgenie" -> OpsgenieParseURL(u)
    [] u.scheme = "datadog" -> DatadogParseURL(u)
    [] u.scheme = "newrelic" -> NewRelicParseURL(u)
    [] u.scheme = "github" -> GitHubParseURL(u)
    [] u.scheme = "gitlab" -> GitLabParseURL(u)
    [] u.scheme = "jira" -> JiraParseURL(u)
    [] OTHER -> DesktopParseURL(u)

(* `in` says whether the service is logged in from an earlier Send.        *)
Send(u, in) ==
  CASE u.scheme = "discord" -> DiscordSend(u)
    [] u.scheme = "slack" -> SlackSend(u)
    [] u.scheme \in {"telegram", "tgram"} -> TelegramSend(u)
    [] u.scheme = "matrix" -> MatrixSend(u, in)
    [] u.scheme \in {"mattermost", "mmosts"} -> MattermostSend(u, in)
    [] u.scheme \in {"rocketchat", "rocket"} -> RocketChatSend(u, in)
    [] u.scheme = "msteams" -> MSTeamsSend(u)
    [] u.scheme \in {"mailto", "mailtos"} -> EmailSend(u)
    [] u.scheme = "sendgrid" -> SendGridSend(u)
    [] u.scheme = "mailgun" -> MailgunSend(u)
    [] u.scheme \in {"webhook", "webhooks", "json"} -> WebhookSend(u)
    [] u.scheme = "ifttt" -> IFTTTSend(u)
    [] u.scheme = "zapier" -> ZapierSend(u)
    [] u.scheme = "nodered" -> NodeREDSend(u)
    [] u.scheme \in {"homeassistant", "hass"} -> HomeAssistantSend(u)
    [] u.scheme = "facebook" -> FacebookSend(u)
    [] u.scheme = "instagram" -> InstagramSend(u)
    [] u.scheme = "youtube" -> YouTubeSend(u)
    [] u.scheme = "tiktok" -> TikTokSend(u)
    [] u.scheme = "mastodon" -> MastodonSend(u)
    [] u.scheme = "reddit" -> RedditSend(u)
    [] u.scheme = "twitter" -> TwitterSend(u)
    [] u.scheme = "linkedin" -> LinkedInSend(u)
    [] u.scheme \in {"pushover", "pover"} -> PushoverSend(u)
    [] u.scheme \in {"pushbullet", "pball"} -> PushbulletSend(u)
    [] u.scheme \in {"ntfy", "ntfys"} -> NtfySend(u)
    [] u.scheme \in {"gotify", "gotifys"} -> GotifySend(u)
    [] u.scheme = "fcm" -> FCMSend(u)
    [] u.scheme = "apns" -> APNSSend(u)
    [] u.scheme \in {"rich-mobile-push", "batch-mobile-push"} -> RichMobilePushSend(u)
    [] u.scheme = "twilio" -> TwilioSend(u)
    [] u.scheme \in {"nexmo", "vonage"} -> NexmoSend(u)
    [] u.scheme = "plivo" -> PlivoSend(u)
    [] u.scheme = "bulksms" -> BulkSMSSend(u)
    [] u.scheme = "clicksend" -> ClickSendSend(u)
    [] u.scheme = "messagebird" -> MessageBirdSend(u)
    [] u.scheme = "textmagic" -> TextMagicSend(u)
    [] u.scheme = "aws-sns-sms" -> AWSSNSSMSSend(u)
    [] u.scheme = "signal" -> SignalSend(u)
    [] u.scheme = "whatsapp" -> WhatsAppSend(u)
    [] u.scheme = "twilio-voice" -> TwilioVoiceSend(u)
    [] u.scheme = "polly" -> PollySend(u)
    [] u.scheme = "aws-iot" -> AWSIoTSend(u)
    [] u.scheme = "gcp-iot" -> GCPIoTSend(u)
    [] u.scheme = "sns" -> SNSSend(u)
    [] u.scheme = "ses" -> SESSend(u)
    [] u.scheme = "azuresb" -> AzureSBSend(u)
    [] u.scheme = "pubsub" -> PubSubSend(u)
    [] u.scheme = "pagerduty" -> PagerDutySend(u)
    [] u.scheme = "opsgenie" -> OpsgenieSend(u)
    [] u.scheme = "datadog" -> DatadogSend(u)
    [] u.scheme = "newrelic" -> NewRelicSend(u)
    [] u.scheme = "github" -> GitHubSend(u)
    [] u.scheme = "gitlab" -> GitLabSend(u)
    [] u.scheme = "jira" -> JiraSend(u)
    [] u.scheme \in {"desktop", "macosx", "windows", "linux"} -> DesktopSend(u)
    [] u.scheme \in DBus -> LinuxDBusSend(u)
    [] u.scheme \in {"desktop-advanced", "desktop-interactive"} -> AdvancedDesktopSend(u)
    [] OTHER -> PersistentDesktopSend(u)
=============================================================================
