------------------------ MODULE MCNotificationQueue ------------------------
(***************************************************************************)
(* Small instances of NotificationQueue.                                   *)
(***************************************************************************)
EXTENDS NotificationStream

CONSTANTS s1, s2, bad \* service URLs; Add rejects `bad`

(* The defaults (priority 1, three retries) on a job with one good URL of  *)
(* two; an urgent job, two services, with one of its two retries spent.    *)
ReqDefault == [priority |-> 0, maxRetries |-> 0, retryCount |-> 0, services |-> {s1, bad}]
ReqUrgent == [priority |-> 2, maxRetries |-> 2, retryCount |-> 1, services |-> {s1, s2}]

(* A negative max_retries asks for no retry; no URL of the second job is   *)
(* usable, and its retry_count is past its max_retries.                    *)
ReqNoRetry == [priority |-> 1, maxRetries |-> -1, retryCount |-> 0, services |-> {s1}]
ReqUnusable == [priority |-> 1, maxRetries |-> 1, retryCount |-> 2, services |-> {bad}]

(* More retries than an int has bits.                                      *)
ReqPatient == [priority |-> 1, maxRetries |-> 65, retryCount |-> 0, services |-> {s1}]

MCRequests == {ReqDefault, ReqUrgent, ReqNoRetry, ReqUnusable}
MCPatient == {ReqPatient}
=============================================================================
