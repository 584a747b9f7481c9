----------------------------- MODULE ChatSenders -----------------------------
(* Senders to team chats.  What a login returns is kept by the service, so *)
(* a later Send of the same service makes no other login (`in`).           *)
EXTENDS SendPlans

(* Three segments are a webhook, fewer a bot's token and channel.  The bot *)
(* does not look at the status of the answer.                              *)
SlackParseURL(u) == u.path > 0
SlackSendPayload == Flagged(Post({1}))
SlackSendBotPayload == BodyOnly(Post({1}))
SlackSend(u) == Plan(<<IF u.path >= 3 THEN SlackSendPayload ELSE SlackSendBotPayload>>)

DiscordParseURL(u) == HasHost(u) /\ u.path > 0
DiscordSend(u) == One(1)

(* The bot's token is the host or, without one, the user.  Only the body   *)
(* of an answer counts.                                                    *)
TelegramParseURL(u) == (HasHost(u) \/ Username(u)) /\ u.path > 0
TelegramSend(u) == SomeOf([i \in 1..u.path |-> Noting(BodyOnly(Post({i})))])

(* A user without a password, or ?token, is an access token.               *)
TokenGiven(u) == Has(u, "token") \/ (Username(u) /\ ~Password(u))
RoomsOf(u) == Plus(u.path, u.frag)

MatrixParseURL(u) ==
  HasHost(u) /\ (TokenGiven(u) \/ (Username(u) /\ Password(u))) /\ RoomsOf(u) > 0
MatrixLogin(u, in) == When(~TokenGiven(u) /\ ~in, <<Trusting(Login(Flagged(Call)))>>)
MatrixSendToRoom(i) == Noting(Flagged(Post({i})))
MatrixSend(u, in) ==
  SomeOf(MatrixLogin(u, in) \o [i \in 1..RoomsOf(u) |-> MatrixSendToRoom(i)])

MattermostParseURL(u) ==
  HasHost(u) /\ (TokenGiven(u) \/ (Username(u) /\ Password(u))) /\ RoomsOf(u) > 0

(* A mistake for the runs to catch: a login that fails is noted.           *)
NotedAuthenticate(u, in) == When(~TokenGiven(u) /\ ~in, <<Noting(Login(Call))>>)

(* The one login of the four that an answer without a token fails.         *)
MattermostAuthenticate(u, in) == When(~TokenGiven(u) /\ ~in, <<Login(Call)>>)

(* A mistake for the runs to catch: the error of the lookup is dropped.    *)
ForgivingGetChannelID == Skipping(Forgiving(Flagged(Call)), 1)

(* A channel's id is looked up before its post, which is left out if that  *)
(* fails.                                                                  *)
MattermostGetChannelID == Skipping(Noting(Flagged(Call)), 1)
MattermostSendToChannel(i) == Noting(Post({i}))
MattermostSend(u, in) ==
  SomeOf(MattermostAuthenticate(u, in) \o
         [i \in 1..2 * RoomsOf(u) |-> IF i % 2 = 1 THEN MattermostGetChannelID
                                      ELSE MattermostSendToChannel(i \div 2)])

(* A path with /hooks/ is a webhook, with #general for a channel.  With a  *)
(* password, a user that looks like an id makes it an auth token.          *)
RocketChatAuthToken(u) == Has(u, "auth_token") \/ (u.user = "key" /\ Password(u))
RocketChatUserID(u) == Has(u, "user_id") \/ (u.user = "key" /\ HasPassword(u))
RocketChatUsername(u) ==
  Has(u, "username") \/ (Username(u) /\ u.user # "key" /\ HasPassword(u))
RocketChatPassword(u) == Has(u, "password") \/ (u.user # "key" /\ Password(u))
RocketChatParseURL(u) ==
  /\ u.scheme \in {"rocket", "rockets"}
  /\ \/ u.hook
     \/ /\ \/ RocketChatUserID(u) /\ RocketChatAuthToken(u)
           \/ RocketChatUsername(u) /\ RocketChatPassword(u)
        /\ u.path > 0 \/ u.frag \/ Has(u, "channel")

(* An auth token makes a login needless, with a user id or not.            *)
RocketChatSendViaWebhook == <<Post({1})>>
RocketChatLogin(u, in) ==
  When(~RocketChatAuthToken(u) /\ ~in, <<Trusting(Login(Flagged(Only200(Call))))>>)
RocketChatSendViaAPI(u, in) == RocketChatLogin(u, in) \o <<Flagged(Post({1}))>>
RocketChatSend(u, in) ==
  Plan(IF u.hook THEN RocketChatSendViaWebhook ELSE RocketChatSendViaAPI(u, in))

(* Teams answers 1.                                                        *)
MSTeamsParseURL(u) == u.path >= 3
MSTeamsSend(u) == Plan(<<Local, Flagged(Post({1}))>>)
=============================================================================
