----------------------------- MODULE MCSendLoop -----------------------------
(* Every registered scheme, with the URLs its ParseURL and Send tell apart.*)
EXTENDS SendLoop, Senders

(* The values of the parts of a URL: these where nothing else is said.     *)
Parts == [user |-> {"none", "empty", "given"}, pass |-> {"none", "empty", "given"},
          host |-> {"empty", "given"}, path |-> 0..2, hook |-> {FALSE},
          frag |-> {FALSE}, query |-> {{}}, bad |-> {{}}]
Query(keys) == [Parts EXCEPT !.query = SUBSET keys]
Checked(keys, checked) == [Query(keys \cup checked) EXCEPT !.bad = SUBSET checked]
Hook(p) == [p EXCEPT !.hook = BOOLEAN, !.path = 0..1]

(* A webhook is told by host or path, a password comes with a user, a bad  *)
(* value needs a value.                                                    *)
UrlsOf(schemes, p) ==
  {u \in [scheme : schemes, user : p.user, pass : p.pass, host : p.host, path : p.path,
          hook : p.hook, frag : p.frag, query : p.query, bad : p.bad] :
     /\ u.hook => HasHost(u) \/ u.path > 0
     /\ HasPassword(u) => HasUser(u)
     /\ "path" \in u.bad => u.path > 0
     /\ u.bad \ {"path"} \subseteq u.query}

MCRecipients == 1..4
MCUrls == UNION {
  UrlsOf({"discord", "telegram", "tgram", "mailgun", "webhook", "webhooks", "json",
          "ifttt", "zapier", "nodered", "homeassistant", "hass", "facebook",
          "instagram", "youtube", "tiktok", "pushover", "pover", "gotify", "gotifys",
          "twilio", "nexmo", "vonage", "plivo", "bulksms", "clicksend", "messagebird",
          "textmagic", "aws-sns-sms", "signal", "whatsapp", "desktop", "macosx",
          "windows", "linux", "dbus", "gnome", "kde", "glib", "qt"}, Parts),
  UrlsOf({"slack", "msteams"}, [Parts EXCEPT !.path = 0..3]),
  UrlsOf({"matrix", "mattermost", "mmosts"}, [Query({"token"}) EXCEPT !.frag = BOOLEAN]),
  UrlsOf({"rocketchat", "rocket"},
         [Hook(Query({"username", "password", "user_id", "auth_token", "channel"}))
            EXCEPT !.user = @ \cup {"key"}, !.frag = BOOLEAN]),
  UrlsOf({"mailto", "mailtos"},
         [Query({"cc", "bcc", "no_tls"}) EXCEPT !.bad = {{}, {"path"}, {"cc"}}]),
  UrlsOf({"sendgrid"}, Query({"from"})),
  UrlsOf({"mastodon"}, Checked({}, {"visibility"})),
  UrlsOf({"reddit"}, Query({"username", "password"})),
  UrlsOf({"twitter"},
         [Hook(Query({"api_key", "api_secret", "access_token", "bearer_token"}))
            EXCEPT !.user = @ \cup {"key"}, !.pass = @ \cup {"parts"}]),
  UrlsOf({"linkedin"}, [Hook(Query({"access_token"})) EXCEPT !.pass = @ \cup {"parts"}]),
  UrlsOf({"pushbullet", "pball"},
         [Parts EXCEPT !.frag = BOOLEAN, !.query = {{}, {"device"}, {"email"}}]),
  UrlsOf({"ntfy", "ntfys"}, Checked({}, {"priority"})),
  UrlsOf({"fcm"}, Query({"project_id", "server_key", "service_account"})),
  UrlsOf({"apns"}, [Checked({"bundle_id", "key_id", "team_id", "key_path", "cert_path"},
                            {"environment"}) EXCEPT !.path = {0}]),
  UrlsOf({"rich-mobile-push", "batch-mobile-push"},
         [Parts EXCEPT !.user = {"none", "ios", "both", "given"}]),
  UrlsOf({"twilio-voice"},
         [Hook(Checked({"account_sid", "auth_token", "from"}, {"to", "language"}))
            EXCEPT !.path = 0..3, !.bad = @ \cup {{"path"}}]),
  UrlsOf({"polly"}, Hook(Checked({"access_key", "secret_key"}, {"region", "voice"}))),
  UrlsOf({"aws-iot"},
         Hook(Checked({"access_key", "secret_key", "endpoint", "topic"}, {"region", "qos"}))),
  UrlsOf({"gcp-iot"},
         [Hook(Checked({"project_id", "registry_id", "service_account", "private_key"},
                       {"region"}))
            EXCEPT !.path = {0, GCPIoTPath - 1, GCPIoTPath}, !.bad = @ \cup {{"path"}}]),
  UrlsOf({"sns"}, Query({"topic_arn", "topic"})),
  UrlsOf({"ses"}, Query({"from", "to", "cc", "bcc"})),
  UrlsOf({"azuresb"}, Query({"connection_string", "namespace", "sas_key", "queue", "topic"})),
  UrlsOf({"pubsub"}, Query({"project_id", "topic"})),
  UrlsOf({"pagerduty"}, [Checked({}, {"region"}) EXCEPT !.host = @ \cup {"region"}]),
  UrlsOf({"opsgenie"},
         [Checked({}, {"region", "priority"}) EXCEPT !.host = @ \cup {"region"}]),
  UrlsOf({"datadog"}, Hook(Checked({"api_key"}, {"region"}))),
  UrlsOf({"newrelic"}, Hook(Checked({"api_key", "account_id"}, {"region"}))),
  UrlsOf({"github"}, [Hook(Query({"token", "owner", "repo"})) EXCEPT !.path = 0..2]),
  UrlsOf({"gitlab"}, Hook(Query({"token", "project_id"}))),
  UrlsOf({"jira"}, Hook(Checked({"username", "token", "server_url"}, {"priority"}))),
  UrlsOf({"desktop-advanced", "desktop-interactive", "desktop-persistent"}, Query({"action"}))}
=============================================================================
