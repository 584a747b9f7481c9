---------------------------- MODULE LocalSenders ----------------------------
(* Senders that talk to a mail server themselves, or to the desktop of the *)
(* machine they run on.                                                    *)
EXTENDS SendPlans

CONSTANTS Platform,   \* runtime.GOOS
          Tools       \* the commands that are in the PATH

(* Segments that are no address are dropped.                               *)
EmailRecipients(u) == u.path + Cardinality((u.query \ u.bad) \cap {"cc", "bcc"})
EmailParseURL(u) == HasHost(u) /\ u.path > 0 /\ ~Bad(u, "path")

(* Only the dial knows a context, and with TLS not even that, but its own  *)
(* timeout.  The connection gets no deadline: each of the commands on it   *)
(* may wait for ever.                                                      *)
EmailCommand == Deaf(Call)
EmailConnectSMTP(u) ==
  <<IF u.scheme = "mailtos" THEN OwnTimeout(Call) ELSE Call, EmailCommand>>
    \o When(u.scheme = "mailto" /\ ~Has(u, "no_tls"), <<EmailCommand>>)
EmailAuth(u) == When(Username(u) /\ Password(u), <<EmailCommand>>)
EmailEnvelope(u) == [i \in 1..EmailRecipients(u) + 2 |-> EmailCommand]
EmailCreateMessage == <<Local>>
EmailSend(u) ==
  Plan(EmailCreateMessage \o EmailConnectSMTP(u) \o EmailAuth(u) \o EmailEnvelope(u)
         \o <<Deaf(Post(1..EmailRecipients(u)))>>)

-----------------------------------------------------------------------------
(* A command that shows the notification and is killed with the context.   *)
Command == Post({1})
Need(tools) == IF Tools \cap tools # {} THEN Plan(<<Command>>) ELSE Hopeless

DBus == {"dbus", "gnome", "kde", "glib", "qt"}
PlatformOf(u) == CASE u.scheme = "macosx" -> "darwin"
                   [] u.scheme = "windows" -> "windows"
                   [] u.scheme \in DBus \cup {"linux"} -> "linux"
                   [] OTHER -> Platform

DesktopParseURL(u) == TRUE
DesktopSend(u) ==
  CASE PlatformOf(u) = "darwin" -> Need({"terminal-notifier"})
    [] PlatformOf(u) = "windows" -> Need({"powershell"})
    [] PlatformOf(u) = "linux" -> Need({"notify-send", "zenity", "kdialog"})
    [] OTHER -> Hopeless
LinuxDBusSend(u) == DesktopSend([u EXCEPT !.scheme = "dbus"])

(* The command of the richer notification waits for the user; the answer   *)
(* may open a URL with a command that has no context.                      *)
OpenURL == Forgiving(Deaf(Call))
HandleInteraction(u) == When(Has(u, "action"), <<OpenURL>>)
Interactive(u) == Plan(<<Command>> \o HandleInteraction(u))
AdvancedDesktopSend(u) ==
  CASE PlatformOf(u) = "darwin" ->
         IF Tools \cap {"alerter", "terminal-notifier"} # {} THEN Interactive(u) ELSE Hopeless
    [] PlatformOf(u) = "windows" -> Need({"powershell"})
    [] PlatformOf(u) = "linux" /\ "dunstify" \in Tools -> Interactive(u)
    [] OTHER -> DesktopSend(u)

(* A notification is written to the history before it is sent.             *)
SaveHistory == Forgiving(Local)
PersistentDesktopSend(u) ==
  [AdvancedDesktopSend(u) EXCEPT !.requests = <<SaveHistory>> \o @]
=============================================================================
