------------------------------ MODULE Delivery ------------------------------
(***************************************************************************)
(* One SMTP attempt and what is said of its failure: Notifier.deliver      *)
(* (internal/adapter/out/smtp/smtp.go), deliveryError (diagnostics.go) and *)
(* the answer to POST /api/0/test-email/ (Handler.HandleTestEmail).        *)
(*                                                                         *)
(* The attempt ends by itself, at its deadline or when the notifier gives  *)
(* up draining, and the three race: the error of a failed operation and    *)
(* the state of the context are read at different moments.                 *)
(***************************************************************************)
EXTENDS Naturals

CONSTANT None

VARIABLES
  config,    \* what the operator configured
  notifier,  \* "open", "closing" or "stopped"
  stage,     \* the operation under way
  secure,    \* the connection is under TLS
  late,      \* the attempt's five seconds are over
  ctx,       \* of the attempt: "live", or how it ended
  hungUp,    \* context.AfterFunc closed the connection
  said,      \* the server's last answer: to which operation, and what
  dotSent,   \* the end of the message was written
  accepted,  \* the server took the message
  failure,   \* the error deliver holds: the operation and its kind
  answer     \* None, or status, code and hint

vars == <<config, notifier, stage, secure, late, ctx, hungUp, said, dotSent,
          accepted, failure, answer>>
own == <<config, notifier, late, ctx, hungUp, answer>>
link == <<secure, said, dotSent, accepted>>

Operations == {"connect", "greeting", "hello", "starttls", "handshake", "ehlo", "auth",
               "sender", "recipient", "data", "write", "completion", "quit"}

\* Replies, by what deliveryError makes of their codes: 535; 450, 550, 551 and
\* 553; any other.
Refusals == {"535", "550", "421"}

Errors == Refusals \cup {"eof", "timeout", "closed", "canceled", "untrusted", "alert", "local"}

Codes == {"notifications_not_configured", "notifications_unavailable", "smtp_timeout",
          "smtp_connection_failed", "smtp_tls_failed", "smtp_auth_failed", "smtp_auth_rejected",
          "smtp_sender_rejected", "smtp_recipient_rejected", "smtp_delivery_failed", "sent"}

\* An error is never mistaken for there being none.
DeliveryAssumption == None \notin Errors

TypeOK ==
  /\ config \in [enabled: BOOLEAN, auth: BOOLEAN, skipVerify: BOOLEAN, localhost: BOOLEAN]
  /\ notifier \in {"open", "closing", "stopped"}
  /\ stage \in Operations \cup {"request", "begin", "failed", "end"}
  /\ secure \in BOOLEAN /\ late \in BOOLEAN /\ hungUp \in BOOLEAN
  /\ ctx \in {"live", "canceled", "exceeded"}
  /\ said \in [to: Operations \cup {None}, reply: Refusals \cup {"ok", "untrusted", "alert", None}]
  /\ dotSent \in BOOLEAN /\ accepted \in BOOLEAN
  /\ failure \in [in: Operations \cup {"begin", "unavailable", None}, kind: Errors \cup {None}]
  /\ answer \in {None} \cup [status: {200, 502, 503}, code: Codes, uncertain: BOOLEAN]

Init ==
  /\ config \in [enabled: BOOLEAN, auth: BOOLEAN, skipVerify: BOOLEAN, localhost: BOOLEAN]
  /\ notifier = "open" /\ stage = "request"
  /\ secure = FALSE /\ late = FALSE /\ ctx = "live" /\ hungUp = FALSE
  /\ said = [to |-> None, reply |-> None]
  /\ dotSent = FALSE /\ accepted = FALSE
  /\ failure = [in |-> None, kind |-> None] /\ answer = None
-----------------------------------------------------------------------------
\* deliveryError.

NetworkFailure(kind) == kind \in {"eof", "timeout", "closed", "alert"}

\* What the operation is called when its error is classified.
StageOf(op) ==
  CASE op \in {"starttls", "handshake"} -> "tls"
    [] op \in {"completion", "quit"} -> "completion"
    [] op \in {"connect", "auth", "sender", "recipient", "unavailable"} -> op
    [] OTHER -> ""

\* Its clauses in order: the notifier ended the attempt, its time was over, the
\* network failed; only then what the operation says.
Unavailable(op, kind) ==
  \/ op = "unavailable"
  \/ kind = "canceled"
  \/ NetworkFailure(kind) /\ ctx = "canceled"

TimedOut(kind) == kind = "timeout" \/ (NetworkFailure(kind) /\ ctx = "exceeded")

CodeOfOperation(op, kind) ==
  CASE StageOf(op) = "tls" -> "smtp_tls_failed"
    [] op = "auth" /\ kind = "535" -> "smtp_auth_rejected"
    [] op = "auth" /\ kind # "535" -> "smtp_auth_failed"
    [] op = "sender" /\ kind = "550" -> "smtp_sender_rejected"
    [] op = "recipient" /\ kind = "550" -> "smtp_recipient_rejected"
    [] OTHER -> "smtp_delivery_failed"

Code(op, kind) ==
  IF Unavailable(op, kind) THEN "notifications_unavailable"
  ELSE IF TimedOut(kind) THEN "smtp_timeout"
  ELSE IF NetworkFailure(kind) \/ op = "connect" THEN "smtp_connection_failed"
  ELSE CodeOfOperation(op, kind)

\* Mutant: the hint follows the code alone.
UncertainByCode(op, code) == code = "smtp_delivery_failed"

\* The hint warns that the message may have been accepted.
Uncertain(op, code) == code = "smtp_delivery_failed" \/ StageOf(op) = "completion"
-----------------------------------------------------------------------------
\* The request.

Answer(status, code, uncertain) ==
  /\ stage' = "end"
  /\ answer' = [status |-> status, code |-> code, uncertain |-> uncertain]

Request ==
  /\ stage = "request"
  /\ IF ~config.enabled
     THEN Answer(503, "notifications_not_configured", FALSE) /\ UNCHANGED failure
     ELSE /\ UNCHANGED answer
          /\ IF notifier # "open"
             THEN stage' = "failed" /\ failure' = [in |-> "unavailable", kind |-> "local"]
             ELSE stage' = "begin" /\ UNCHANGED failure
  /\ UNCHANGED <<config, notifier, late, ctx, hungUp, link>>

\* HandleTestEmail tells what deliveryError found.
Diagnose ==
  /\ stage = "failed"
  /\ LET code == Code(failure.in, failure.kind)
     IN Answer(502, code, Uncertain(failure.in, code))
  /\ UNCHANGED <<config, notifier, late, ctx, hungUp, link, failure>>
-----------------------------------------------------------------------------
\* The attempt.

Fail(op, kind) ==
  /\ stage' = "failed"
  /\ failure' = [in |-> op, kind |-> kind]

Begin ==
  /\ stage = "begin"
  /\ IF ctx = "live"
     THEN stage' = "connect" /\ UNCHANGED failure
     ELSE Fail("begin", "canceled")
  /\ UNCHANGED <<own, link>>

Talking == stage \in Operations

\* After authentication the envelope, after the envelope the message.
Envelope == IF config.auth THEN "auth" ELSE "sender"

\* A server may offer STARTTLS; skipVerify insists on it.
AfterHello == IF config.skipVerify THEN {"starttls"} ELSE {"starttls", Envelope}

\* Where the exchange goes on when the operation succeeded.
Following(op) ==
  CASE op = "connect" -> {"greeting"}
    [] op = "greeting" -> {"hello"}
    [] op = "hello" -> AfterHello
    [] op = "starttls" -> {"handshake"}
    [] op = "handshake" -> {"ehlo"}
    [] op = "ehlo" -> {Envelope}
    [] op = "auth" -> {"sender"}
    [] op = "sender" -> {"recipient"}
    [] op = "recipient" -> {"data"}
    [] op = "data" -> {"write"}
    [] op = "write" -> {"completion"}
    [] op = "completion" -> {"quit"}

\* PlainAuth speaks over TLS or to the local host only.
MayAuthenticate == secure \/ config.localhost

\* The connection still answers.
Connected == ~late /\ ~hungUp

Succeed ==
  /\ Talking /\ Connected
  /\ stage = "auth" => MayAuthenticate
  /\ stage \in {"completion", "quit"} => accepted
  /\ IF stage = "quit"
     THEN Answer(200, "sent", FALSE)
     ELSE stage' \in Following(stage) /\ UNCHANGED answer
  /\ said' = [to |-> stage, reply |-> "ok"]
  /\ secure' = (secure \/ stage = "handshake")
  /\ dotSent' = (dotSent \/ stage = "write")
  /\ UNCHANGED <<config, notifier, late, ctx, hungUp, accepted, failure>>

\* The server answers with another code than expected.
Refused(reply) ==
  /\ Talking /\ Connected
  /\ stage \notin {"connect", "handshake", "write"}
  /\ stage = "auth" => MayAuthenticate
  /\ stage = "completion" => ~accepted
  /\ Fail(stage, reply)
  /\ said' = [to |-> stage, reply |-> reply]
  /\ UNCHANGED <<own, secure, dotSent, accepted>>

\* The certificate is not accepted, or the server ends the handshake by an
\* alert, which crypto/tls returns as a net.OpError.
HandshakeFails ==
  /\ stage = "handshake" /\ Connected
  /\ \E kind \in {"untrusted", "alert"} :
       /\ kind = "untrusted" => ~config.skipVerify
       /\ Fail(stage, kind)
       /\ said' = [to |-> stage, reply |-> kind]
  /\ UNCHANGED <<own, secure, dotSent, accepted>>

AuthRefusedLocally ==
  /\ stage = "auth" /\ ~MayAuthenticate
  /\ Fail(stage, "local")
  /\ UNCHANGED <<own, link>>

\* The connection fails, or cannot be made.
ConnectionLost ==
  /\ Talking
  /\ Fail(stage, "eof")
  /\ UNCHANGED <<own, link>>

\* Mutant: only dialing is bounded.
BrokenWhileDialing == stage = "connect" /\ (late \/ ctx # "live")

\* Dialing heeds the context, the exchange its deadline and the hang-up.
Broken == IF stage = "connect" THEN late \/ ctx # "live" ELSE late \/ hungUp

Interrupted ==
  /\ Talking /\ Broken
  /\ \E kind \in {"timeout", "closed", "canceled"} :
       /\ kind = "timeout" => late
       /\ kind = "closed" => hungUp
       /\ kind = "canceled" => stage = "connect" /\ ctx = "canceled"
       /\ Fail(stage, kind)
  /\ UNCHANGED <<own, link>>

\* The server takes the message, whether or not anybody waits for its answer.
Accept ==
  /\ dotSent /\ ~accepted
  /\ said.to # "completion"
  /\ accepted' = TRUE
  /\ UNCHANGED <<own, stage, secure, said, dotSent, failure>>
-----------------------------------------------------------------------------
\* Time and the notifier's end.

DeadlinePasses ==
  /\ Talking \/ (stage = "failed" /\ failure.in \in Operations)
  /\ ~late
  /\ late' = TRUE
  /\ UNCHANGED <<config, notifier, stage, ctx, hungUp, link, failure, answer>>

ContextExpires ==
  /\ late /\ ctx = "live" /\ stage # "end"
  /\ ctx' = "exceeded"
  /\ UNCHANGED <<config, notifier, stage, late, hungUp, link, failure, answer>>

\* Close, and the end of its patience.
NotifierCloses ==
  /\ notifier = "open"
  /\ notifier' = "closing"
  /\ UNCHANGED <<config, stage, late, ctx, hungUp, link, failure, answer>>

Cancel ==
  /\ notifier = "closing"
  /\ notifier' = "stopped"
  /\ ctx' = IF ctx = "live" THEN "canceled" ELSE ctx
  /\ UNCHANGED <<config, stage, late, hungUp, link, failure, answer>>

HangUp ==
  /\ ctx # "live" /\ ~hungUp /\ Talking /\ stage # "connect"
  /\ hungUp' = TRUE
  /\ UNCHANGED <<config, notifier, stage, late, ctx, link, failure, answer>>

Next ==
  \/ Request \/ Begin \/ Succeed \/ \E reply \in Refusals : Refused(reply)
  \/ HandshakeFails \/ AuthRefusedLocally \/ ConnectionLost \/ Interrupted \/ Accept
  \/ Diagnose
  \/ DeadlinePasses \/ ContextExpires \/ NotifierCloses \/ Cancel \/ HangUp

\* The server may stay silent for ever; the program and its timers may not.
Fairness ==
  /\ WF_vars(Request \/ Begin \/ AuthRefusedLocally \/ Interrupted \/ Diagnose)
  /\ WF_vars(DeadlinePasses)

Spec == Init /\ [][Next]_vars /\ Fairness
-----------------------------------------------------------------------------
Said(op, reply) == said = [to |-> op, reply |-> reply]
Answered(code) == answer # None /\ answer.code = code

\* A code that blames the server's policy or the operator's settings was proven
\* by an answer of the server: a connection lost during AUTH, MAIL or RCPT, for
\* whatever reason, never reads as a rejection.
BlameIsProven ==
  /\ Answered("smtp_auth_rejected") => Said("auth", "535")
  /\ Answered("smtp_sender_rejected") => Said("sender", "550")
  /\ Answered("smtp_recipient_rejected") => Said("recipient", "550")
  /\ Answered("smtp_tls_failed") => said.to \in {"starttls", "handshake"}

\* When Drillip itself ended the exchange, the answer says so: a connection it
\* hung up is not reported as a failure of the network, and only a notifier that
\* is closing is unavailable and only a late attempt timed out.
OwnEndIsTold ==
  /\ answer # None /\ failure.kind \in {"closed", "canceled"} =>
       answer.code \in {"smtp_timeout", "notifications_unavailable"}
  /\ Answered("notifications_unavailable") => notifier # "open"
  /\ Answered("smtp_timeout") => late

\* When the server has the message or may still take it, no failure suggests a
\* plain retry: the hint says that the message may have been accepted.
AcceptedIsUncertain ==
  answer # None /\ (accepted \/ dotSent) => answer.status = 200 \/ answer.uncertain

\* A test mail is reported as sent only when the server took it, under the
\* credentials and the protection the configuration asks for.
SentAsConfigured ==
  Answered("sent") =>
    /\ accepted
    /\ config.skipVerify => secure
    /\ config.auth => secure \/ config.localhost

\* Whatever the server does, the request is answered.
RequestAnswered == stage = "begin" ~> stage = "end"
=============================================================================
