------------------------------ MODULE ErrorMsg ------------------------------
(***************************************************************************)
(* Error reporting in libfsverity.  lib/utils.c formats a message and      *)
(* hands it to the program's error callback; error_msg_openssl() of        *)
(* lib/sign_digest.c goes on with one message per error that OpenSSL has   *)
(* queued.  Formatting, the callback and OpenSSL may leave anything in     *)
(* errno, which the function that failed may return after the report.      *)
(***************************************************************************)
EXTENDS Naturals

CONSTANTS
  Errnos,     \* the nonzero values of errno
  NoErrno,    \* errno 0
  MaxQueue    \* bounds the errors queued in OpenSSL

VARIABLES
  mpc,           \* where libfsverity_do_error_msg() is, or "idle"
  stage,         \* "plain", or how far error_msg_openssl() is: "first", "queue"
  errno,
  error_cb,      \* libfsverity_error_cb is set
  saved_errno,   \* the local of libfsverity_do_error_msg()
  openssl_saved, \* saved_errno of error_msg_openssl()
  queue,         \* how many errors OpenSSL has queued
  failure        \* history: errno when the report began

mvars == <<mpc, stage, errno, error_cb, saved_errno, openssl_saved, queue, failure>>

AnyErrno == Errnos \cup {NoErrno}

ErrorMsgInit ==
  /\ mpc = "idle" /\ stage = "plain" /\ error_cb \in BOOLEAN /\ queue = 0
  /\ errno = NoErrno /\ failure = NoErrno
  /\ saved_errno = NoErrno /\ openssl_saved = NoErrno

\* Something failed with errno e and is reported: by libfsverity_error_msg()
\* (s = "plain") or by error_msg_openssl() (s = "first").  OpenSSL may have
\* queued errors in either case.
Report(s, e) ==
  /\ mpc = "idle"
  /\ mpc' = "msg" /\ stage' = s /\ errno' = e /\ failure' = e
  /\ openssl_saved' = IF s = "first" THEN e ELSE openssl_saved
  /\ queue' \in queue .. MaxQueue
  /\ UNCHANGED <<error_cb, saved_errno>>

DoErrorMsg ==
  /\ mpc = "msg"
  /\ saved_errno' = errno
  /\ mpc' = IF error_cb THEN "format" ELSE "sent"
  /\ UNCHANGED <<stage, errno, error_cb, openssl_saved, queue, failure>>

\* vasprintf(), which may fail
Format ==
  /\ mpc = "format"
  /\ errno' \in AnyErrno /\ mpc' \in {"call", "restore"}
  /\ UNCHANGED <<stage, error_cb, saved_errno, openssl_saved, queue, failure>>

\* The callback may also remove itself with libfsverity_set_error_callback().
Callback ==
  /\ mpc = "call"
  /\ errno' \in AnyErrno /\ error_cb' \in {error_cb, FALSE} /\ mpc' = "restore"
  /\ UNCHANGED <<stage, saved_errno, openssl_saved, queue, failure>>

\* Mutant: errno stays as the callback left it.
RestoreNot ==
  /\ mpc = "restore"
  /\ mpc' = "sent"
  /\ UNCHANGED <<stage, errno, error_cb, saved_errno, openssl_saved, queue, failure>>

Restore ==
  /\ mpc = "restore"
  /\ errno' = saved_errno /\ mpc' = "sent"
  /\ UNCHANGED <<stage, error_cb, saved_errno, openssl_saved, queue, failure>>

\* The report is over after a plain message or if OpenSSL has nothing queued.
ReportDone ==
  /\ mpc = "sent" /\ (stage = "plain" \/ (stage = "first" /\ queue = 0))
  /\ mpc' = "idle"
  /\ UNCHANGED <<stage, errno, error_cb, saved_errno, openssl_saved, queue, failure>>

\* The line "OpenSSL library errors:"
QueueHeader ==
  /\ mpc = "sent" /\ stage = "first" /\ queue > 0
  /\ stage' = "queue" /\ mpc' = "msg"
  /\ UNCHANGED <<errno, error_cb, saved_errno, openssl_saved, queue, failure>>

\* ERR_print_errors_cb() takes the errors out of the queue one by one.
PrintQueued ==
  /\ mpc = "sent" /\ stage = "queue" /\ queue > 0
  /\ errno' \in AnyErrno /\ queue' = queue - 1 /\ mpc' = "msg"
  /\ UNCHANGED <<stage, error_cb, saved_errno, openssl_saved, failure>>

QueueDone ==
  /\ mpc = "sent" /\ stage = "queue" /\ queue = 0
  /\ errno' = openssl_saved /\ mpc' = "idle"
  /\ UNCHANGED <<stage, error_cb, saved_errno, openssl_saved, queue, failure>>

ReportStep ==
  \/ DoErrorMsg \/ Format \/ Callback \/ Restore
  \/ ReportDone \/ QueueHeader \/ PrintQueued \/ QueueDone

\* libfsverity_set_error_callback(), from the program's thread
SetErrorCallback ==
  /\ mpc = "idle"
  /\ error_cb' \in BOOLEAN
  /\ UNCHANGED <<mpc, stage, errno, saved_errno, openssl_saved, queue, failure>>

ErrorMsgNext ==
  \/ \E s \in {"plain", "first"}, e \in AnyErrno : Report(s, e)
  \/ ReportStep \/ SetErrorCallback

\* The thread that reports keeps running and the callback returns.
ErrorMsgSpec == ErrorMsgInit /\ [][ErrorMsgNext]_mvars /\ WF_mvars(ReportStep)

----------------------------------------------------------------------------
(***************************************************************************)
(* errno comes out of a report as it went in, however many messages were   *)
(* printed and whatever formatting, the callback or OpenSSL did to it:     *)
(* "return errno ? -errno : -EIO" after error_msg_openssl() returns the    *)
(* cause of the failure.                                                   *)
(***************************************************************************)
ErrnoPreserved == mpc = "idle" => errno = failure

(***************************************************************************)
(* No call goes through a null callback, although the callback may remove  *)
(* itself between two messages of one report.                              *)
(***************************************************************************)
CallbackInstalled == mpc = "call" => error_cb
=============================================================================
