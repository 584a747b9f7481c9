----------------------------- MODULE SmsSenders -----------------------------
(* Senders to telephones: SMS, WhatsApp, Signal.                           *)
EXTENDS SendPlans

(* The recipients of several of them: the host and the path.               *)
HostAndPath(u) == Plus(u.path, HasHost(u))

(* A phone waits for a tick, one every five seconds from the moment the    *)
(* service was made; a Send whose context ends at a tick returns at once,  *)
(* whoever was served.                                                     *)
TwilioParseURL(u) == Username(u) /\ Password(u) /\ HasHost(u) /\ u.path > 0
TwilioSend(u) ==
  SomeOf([i \in 1..2 * u.path |-> IF i % 2 = 1 THEN Tick ELSE Noting(Post({i \div 2}))])

(* A mistake for the runs to catch: no phone number is asked for.          *)
PhonelessNexmoParseURL(u) == HasPassword(u)
NexmoParseURL(u) == HasPassword(u) /\ u.path > 0
NexmoSend(u) == EachOrReturn(u.path)

PlivoParseURL(u) == HasPassword(u) /\ u.path > 0
PlivoSend(u) == EachOrReturn(u.path)

BulkSMSParseURL(u) == HasPassword(u) /\ HostAndPath(u) > 0
BulkSMSSend(u) == EachNoted(HostAndPath(u))

MessageBirdParseURL(u) == Username(u) /\ HostAndPath(u) > 0
MessageBirdSend(u) == One(HostAndPath(u))

ClickSendParseURL(u) == HasPassword(u) /\ HostAndPath(u) > 0
ClickSendSend(u) == One(HostAndPath(u))

TextMagicParseURL(u) == HasPassword(u) /\ u.path > 0
TextMagicSend(u) == One(u.path)

(* The host is the access token, the user the phone number id.             *)
WhatsAppParseURL(u) == HasHost(u) /\ Username(u) /\ u.path > 0
WhatsAppSend(u) == EachOrReturn(u.path)

SignalParseURL(u) == HasHost(u) /\ Username(u) /\ u.path > 0
SignalSend(u) == EachOrReturn(u.path)

(* sendSMS only says that the AWS SDK is missing.                          *)
AWSSNSSMSParseURL(u) == HasPassword(u) /\ u.path > 0
AWSSNSSMSSend(u) == Hopeless
=============================================================================
