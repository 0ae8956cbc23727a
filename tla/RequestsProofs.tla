--------------------------- MODULE RequestsProofs ----------------------------
(***************************************************************************)
(* Theorems about what one run of the server does for a request, a timer   *)
(* or a message, for any texts, ages and bounds: a mail diagnostic says    *)
(* what the server did, a pruning deletes nothing younger than it was      *)
(* asked to keep, and the stored rows are grouped as they were when the    *)
(* reports came in.                                                        *)
(***************************************************************************)
EXTENDS MCRequests, FiniteSetTheorems, SequenceTheorems, TLAPS

-----------------------------------------------------------------------------
(* Delivery: the inductive invariant                                       *)

\* After the server's greetings, and after authentication.
Named == {"ehlo", "auth", "sender", "recipient", "data", "write", "completion", "quit"}
Admitted == {"sender", "recipient", "data", "write", "completion", "quit"}

\* The context and the connection end only when time or the notifier does, and
\* the attempt has no time before it talks.
ContextInv ==
  /\ ctx = "canceled" => notifier = "stopped"
  /\ ctx = "exceeded" => late
  /\ hungUp => ctx # "live"
  /\ stage \in {"request", "begin"} => ~late

\* How far the exchange has come: what was sent, what protects it.
ExchangeInv ==
  /\ stage # "end" => answer = None
  /\ stage \notin {"failed", "end"} => failure = [in |-> None, kind |-> None]
  /\ dotSent => \/ stage \in {"completion", "quit", "end"}
                \/ stage = "failed" /\ failure.in \in {"completion", "quit"}
  /\ accepted => dotSent
  /\ stage = "quit" => accepted
  /\ stage = "ehlo" => secure
  /\ stage \in Named /\ config.skipVerify => secure
  /\ stage \in Admitted /\ config.auth => secure \/ config.localhost

\* An error that waits to be told is what it is because of what happened.
FailureInv ==
  stage = "failed" =>
    /\ failure.kind \in Delivery!Errors
    /\ failure.kind = "closed" => hungUp
    /\ failure.kind = "timeout" => late
    /\ failure.kind = "canceled" => ctx = "canceled"
    /\ failure.kind = "local" => failure.in \in {"auth", "unavailable"}
    /\ failure.in = "unavailable" => notifier # "open"
    /\ failure.kind \in Delivery!Refusals \cup {"untrusted", "alert"} =>
         said = [to |-> failure.in, reply |-> failure.kind]

\* What has been answered is true.
AnswerInv ==
  /\ Delivery!BlameIsProven /\ Delivery!OwnEndIsTold
  /\ Delivery!AcceptedIsUncertain /\ Delivery!SentAsConfigured

AttemptInv == Delivery!TypeOK /\ ContextInv /\ ExchangeInv /\ FailureInv /\ AnswerInv

\* The request is refused when nothing is configured and fails when the
\* notifier is closed.
LEMMA RequestKeeps ==
  ASSUME AttemptInv, Delivery!Request
  PROVE  AttemptInv'
<1> USE DeliveryAssumption DEF AttemptInv, Delivery!DeliveryAssumption
<1>1. CASE ~config.enabled
  <2>1. /\ stage' = "end" /\ UNCHANGED <<failure, config, notifier, late, ctx, hungUp, secure, said, dotSent, accepted>>
        /\ answer' = [status |-> 503, code |-> "notifications_not_configured", uncertain |-> FALSE]
        /\ stage = "request"
    BY <1>1 DEF Delivery!Request, Delivery!Answer, Delivery!link
  <2>2. Delivery!TypeOK'
    BY <2>1 DEF Delivery!TypeOK, Delivery!Codes
  <2>3. ContextInv' /\ ExchangeInv' /\ FailureInv'
    BY <2>1 DEF ContextInv, ExchangeInv, FailureInv, Named, Admitted
  <2>4. ~dotSent /\ ~accepted /\ failure.kind = None
    BY <2>1 DEF ExchangeInv
  <2>5. failure'.kind = None /\ ~dotSent' /\ ~accepted' /\ answer'.code = "notifications_not_configured"
    BY <2>1, <2>4
  <2>6. AnswerInv'
    BY <2>5 DEF AnswerInv, Delivery!Errors, Delivery!BlameIsProven, Delivery!OwnEndIsTold, Delivery!AcceptedIsUncertain, Delivery!SentAsConfigured, Delivery!Answered
  <2> QED
    BY <2>2, <2>3, <2>6
<1>2. CASE config.enabled
  <2>1. /\ UNCHANGED <<answer, config, notifier, late, ctx, hungUp, secure, said, dotSent, accepted>>
        /\ stage = "request" /\ answer = None
        /\ \/ stage' = "failed" /\ failure' = [in |-> "unavailable", kind |-> "local"] /\ notifier # "open"
           \/ stage' = "begin" /\ UNCHANGED failure
    BY <1>2 DEF Delivery!Request, Delivery!link, ExchangeInv
  <2>2. failure' \in [in : Delivery!Operations \cup {"begin", "unavailable", None}, kind : Delivery!Errors \cup {None}]
    BY <2>1 DEF Delivery!TypeOK, Delivery!Errors
  <2>3. Delivery!TypeOK'
    BY <2>1, <2>2 DEF Delivery!TypeOK
  <2>4. ContextInv' /\ ExchangeInv' /\ FailureInv'
    BY <2>1 DEF ContextInv, ExchangeInv, FailureInv, Named, Admitted, Delivery!Errors, Delivery!Refusals
  <2>5. AnswerInv'
    BY <2>1 DEF AnswerInv, Delivery!BlameIsProven, Delivery!OwnEndIsTold, Delivery!AcceptedIsUncertain, Delivery!SentAsConfigured, Delivery!Answered
  <2> QED
    BY <2>2, <2>3, <2>4, <2>5
<1> QED
  BY <1>1, <1>2

\* An attempt of which the context has ended ends before it talks.
LEMMA BeginKeeps ==
  ASSUME AttemptInv, Delivery!Begin
  PROVE  AttemptInv'
<1> USE DeliveryAssumption DEF AttemptInv, Delivery!DeliveryAssumption, Delivery!Begin, Delivery!Fail, Delivery!own, Delivery!link
<1>1. Delivery!TypeOK'
  BY DEF Delivery!TypeOK, Delivery!Errors, Delivery!Refusals, Delivery!Codes, Delivery!Operations
<1>2. ContextInv'
  BY DEF ContextInv, Delivery!TypeOK
<1>3. ExchangeInv'
  BY DEF ExchangeInv, ContextInv, Delivery!TypeOK, Named, Admitted
<1>4. FailureInv'
  BY DEF FailureInv, ContextInv, ExchangeInv, Delivery!TypeOK, Delivery!Errors, Delivery!Refusals
<1>5. AnswerInv'
  BY DEF AnswerInv, ContextInv, ExchangeInv, Delivery!TypeOK, Delivery!BlameIsProven, Delivery!OwnEndIsTold, Delivery!AcceptedIsUncertain, Delivery!SentAsConfigured, Delivery!Answered, Delivery!Said
<1> QED
  BY <1>1, <1>2, <1>3, <1>4, <1>5

\* Where the exchange goes on: the end of the message comes after its text,
\* QUIT after the server took it, and without TLS or credentials only where the
\* configuration allows it.
LEMMA Succession ==
  ASSUME Delivery!TypeOK, NEW op \in Delivery!Operations \ {"quit"},
         NEW next \in Delivery!Following(op)
  PROVE  /\ next \in Delivery!Operations \ {"connect"}
         /\ next = "completion" => op = "write"
         /\ op = "write" => next = "completion"
         /\ op = "completion" => next = "quit"
         /\ next = "quit" => op = "completion"
         /\ next = "ehlo" => op = "handshake"
         /\ next \in Named => op \in Named \/ op = "handshake" \/ (op = "hello" /\ ~config.skipVerify)
         /\ next \in Admitted => op \in Admitted \/ op = "auth" \/ ~config.auth
<1> DEFINE E == Delivery!Envelope
<1>1. /\ op = "connect" => Delivery!Following(op) = {"greeting"}
      /\ op = "greeting" => Delivery!Following(op) = {"hello"}
      /\ op = "hello" => Delivery!Following(op) = Delivery!AfterHello
      /\ op = "starttls" => Delivery!Following(op) = {"handshake"}
      /\ op = "handshake" => Delivery!Following(op) = {"ehlo"}
      /\ op = "ehlo" => Delivery!Following(op) = {Delivery!Envelope}
      /\ op = "auth" => Delivery!Following(op) = {"sender"}
      /\ op = "sender" => Delivery!Following(op) = {"recipient"}
      /\ op = "recipient" => Delivery!Following(op) = {"data"}
      /\ op = "data" => Delivery!Following(op) = {"write"}
      /\ op = "write" => Delivery!Following(op) = {"completion"}
      /\ op = "completion" => Delivery!Following(op) = {"quit"}
  BY Zenon DEF Delivery!Following
<1>2. Delivery!Envelope \in {"auth", "sender"} /\ (Delivery!Envelope = "sender" => ~config.auth)
  BY DEF Delivery!Envelope, Delivery!TypeOK
<1>3. /\ Delivery!AfterHello \subseteq {"starttls", Delivery!Envelope}
      /\ config.skipVerify => Delivery!AfterHello = {"starttls"}
  BY DEF Delivery!AfterHello
<1>4. CASE op \in {"connect", "greeting", "starttls", "handshake"}
  <2>1. /\ next \in {"greeting", "hello", "handshake", "ehlo"}
        /\ next = "ehlo" => op = "handshake"
        /\ op \notin {"write", "completion"}
    BY <1>1, <1>4
  <2> QED
    BY <2>1 DEF Delivery!Operations, Named, Admitted
<1>7. CASE op = "hello"
  <2>1. next \in {"starttls", Delivery!Envelope} /\ (config.skipVerify => next = "starttls")
    BY <1>1, <1>3, <1>7
  <2> QED
    BY <1>2, <1>7, <2>1 DEF Delivery!Operations, Named, Admitted
<1>5. CASE op \in {"ehlo", "auth", "sender", "recipient"}
  BY <1>1, <1>2, <1>5 DEF Delivery!Operations, Named, Admitted
<1>6. CASE op \in {"data", "write", "completion"}
  BY <1>1, <1>6 DEF Delivery!Operations, Named, Admitted
<1> QED
  BY <1>4, <1>5, <1>6, <1>7 DEF Delivery!Operations

\* An operation that succeeds leads to the next, the last one to "sent".
LEMMA SucceedKeeps ==
  ASSUME AttemptInv, Delivery!Succeed
  PROVE  AttemptInv'
<1> USE DeliveryAssumption DEF AttemptInv, Delivery!DeliveryAssumption
<1>1. /\ stage \in Delivery!Operations
      /\ stage = "auth" => secure \/ config.localhost
      /\ stage \in {"completion", "quit"} => accepted
      /\ said' = [to |-> stage, reply |-> "ok"]
      /\ secure' = (secure \/ stage = "handshake")
      /\ dotSent' = (dotSent \/ stage = "write")
      /\ UNCHANGED <<config, notifier, late, ctx, hungUp, accepted, failure>>
      /\ answer = None /\ failure = [in |-> None, kind |-> None]
  BY DEF Delivery!Succeed, Delivery!Talking, Delivery!MayAuthenticate, ExchangeInv, Delivery!Operations
<1>2. said' \in [to: Delivery!Operations \cup {None}, reply: Delivery!Refusals \cup {"ok", "untrusted", "alert", None}]
  BY <1>1
<1>3. CASE stage = "quit"
  <2>1. stage' = "end" /\ answer' = [status |-> 200, code |-> "sent", uncertain |-> FALSE]
    BY <1>3 DEF Delivery!Succeed, Delivery!Answer
  <2>2. Delivery!TypeOK'
    BY <1>1, <1>2, <2>1 DEF Delivery!TypeOK, Delivery!Codes
  <2>3. ContextInv' /\ ExchangeInv' /\ FailureInv'
    BY <1>1, <1>3, <2>1 DEF ContextInv, ExchangeInv, FailureInv, Named, Admitted
  <2>4. /\ accepted' /\ (config'.skipVerify => secure') /\ (config'.auth => secure' \/ config'.localhost)
        /\ answer'.code = "sent" /\ answer'.status = 200 /\ failure'.kind = None
    BY <1>1, <1>3, <2>1 DEF ExchangeInv, Named, Admitted
  <2>5. AnswerInv'
    BY <2>4 DEF AnswerInv, Delivery!BlameIsProven, Delivery!OwnEndIsTold, Delivery!AcceptedIsUncertain, Delivery!SentAsConfigured, Delivery!Answered, Delivery!Errors
  <2> QED
    BY <2>2, <2>3, <2>5
<1>4. CASE stage # "quit"
  <2>1. stage' \in Delivery!Following(stage) /\ answer' = None
    BY <1>1, <1>4 DEF Delivery!Succeed
  <2>2. PICK op \in Delivery!Operations \ {"quit"} : op = stage
    BY <1>1, <1>4
  <2>3. PICK next \in Delivery!Following(op) : next = stage'
    BY <2>1, <2>2
  <2> Delivery!TypeOK
    OBVIOUS
  <2>4. /\ stage' \in Delivery!Operations \ {"connect"}
        /\ stage' = "completion" => stage = "write"
        /\ stage = "write" => stage' = "completion"
        /\ stage = "completion" => stage' = "quit"
        /\ stage' = "quit" => stage = "completion"
        /\ stage' = "ehlo" => stage = "handshake"
        /\ stage' \in Named => stage \in Named \/ stage = "handshake" \/ (stage = "hello" /\ ~config.skipVerify)
        /\ stage' \in Admitted => stage \in Admitted \/ stage = "auth" \/ ~config.auth
    BY <2>2, <2>3, Succession
  <2>5. Delivery!TypeOK'
    BY <1>1, <1>2, <2>1, <2>4 DEF Delivery!TypeOK
  <2>6. stage' \notin {"request", "begin", "failed", "end"}
    BY <2>4 DEF Delivery!Operations
  <2>7. ContextInv' /\ FailureInv'
    BY <1>1, <2>6 DEF ContextInv, FailureInv
  <2>8. ExchangeInv'
    <3>1. /\ stage' # "end" => answer' = None
          /\ stage' \notin {"failed", "end"} => failure' = [in |-> None, kind |-> None]
      BY <1>1, <2>1
    <3>2. /\ dotSent' => stage' \in {"completion", "quit", "end"}
          /\ accepted' => dotSent'
          /\ stage' = "quit" => accepted'
      BY <1>1, <1>4, <2>4 DEF ExchangeInv, Delivery!Operations
    <3>3. /\ stage' = "ehlo" => secure'
          /\ stage' \in Named /\ config'.skipVerify => secure'
          /\ stage' \in Admitted /\ config'.auth => secure' \/ config'.localhost
      BY <1>1, <2>4 DEF ExchangeInv, Named, Admitted
    <3> QED
      BY <3>1, <3>2, <3>3 DEF ExchangeInv
  <2>9. AnswerInv'
    BY <2>1 DEF AnswerInv, Delivery!BlameIsProven, Delivery!OwnEndIsTold, Delivery!AcceptedIsUncertain, Delivery!SentAsConfigured, Delivery!Answered
  <2> QED
    BY <2>5, <2>7, <2>8, <2>9
<1> QED
  BY <1>3, <1>4

\* What the server refuses is what it said last.
LEMMA RefusedKeeps ==
  ASSUME NEW reply \in Delivery!Refusals, AttemptInv, Delivery!Refused(reply)
  PROVE  AttemptInv'
<1> USE DeliveryAssumption DEF AttemptInv, Delivery!DeliveryAssumption, Delivery!Refused, Delivery!Fail, Delivery!MayAuthenticate, Delivery!Connected, Delivery!Talking, Delivery!Operations, Delivery!own, Delivery!link
<1>1. Delivery!TypeOK'
  BY DEF Delivery!TypeOK, Delivery!Errors, Delivery!Refusals, Delivery!Codes, Delivery!Operations
<1>2. ContextInv'
  BY DEF ContextInv, Delivery!TypeOK
<1>3. ExchangeInv'
  BY DEF ExchangeInv, ContextInv, Delivery!TypeOK, Named, Admitted
<1>4. FailureInv'
  BY DEF FailureInv, ContextInv, ExchangeInv, Delivery!TypeOK, Delivery!Errors, Delivery!Refusals
<1>5. AnswerInv'
  BY DEF AnswerInv, ContextInv, ExchangeInv, Delivery!TypeOK, Delivery!BlameIsProven, Delivery!OwnEndIsTold, Delivery!AcceptedIsUncertain, Delivery!SentAsConfigured, Delivery!Answered, Delivery!Said
<1> QED
  BY <1>1, <1>2, <1>3, <1>4, <1>5

\* So is what ends the handshake.
LEMMA HandshakeFailsKeeps ==
  ASSUME AttemptInv, Delivery!HandshakeFails
  PROVE  AttemptInv'
<1> USE DeliveryAssumption DEF AttemptInv, Delivery!DeliveryAssumption, Delivery!HandshakeFails, Delivery!Fail, Delivery!Operations, Delivery!own, Delivery!link
<1>1. Delivery!TypeOK'
  BY DEF Delivery!TypeOK, Delivery!Errors, Delivery!Refusals, Delivery!Codes, Delivery!Operations
<1>2. ContextInv'
  BY DEF ContextInv, Delivery!TypeOK
<1>3. ExchangeInv'
  BY DEF ExchangeInv, ContextInv, Delivery!TypeOK, Named, Admitted
<1>4. FailureInv'
  BY DEF FailureInv, ContextInv, ExchangeInv, Delivery!TypeOK, Delivery!Errors, Delivery!Refusals
<1>5. AnswerInv'
  BY DEF AnswerInv, ContextInv, ExchangeInv, Delivery!TypeOK, Delivery!BlameIsProven, Delivery!OwnEndIsTold, Delivery!AcceptedIsUncertain, Delivery!SentAsConfigured, Delivery!Answered, Delivery!Said
<1> QED
  BY <1>1, <1>2, <1>3, <1>4, <1>5

\* Credentials are not sent in the open; nobody said anything.
LEMMA AuthRefusedLocallyKeeps ==
  ASSUME AttemptInv, Delivery!AuthRefusedLocally
  PROVE  AttemptInv'
<1> USE DeliveryAssumption DEF AttemptInv, Delivery!DeliveryAssumption, Delivery!AuthRefusedLocally, Delivery!Fail, Delivery!Operations, Delivery!own, Delivery!link
<1>1. Delivery!TypeOK'
  BY DEF Delivery!TypeOK, Delivery!Errors, Delivery!Refusals, Delivery!Codes, Delivery!Operations
<1>2. ContextInv'
  BY DEF ContextInv, Delivery!TypeOK
<1>3. ExchangeInv'
  BY DEF ExchangeInv, ContextInv, Delivery!TypeOK, Named, Admitted
<1>4. FailureInv'
  BY DEF FailureInv, ContextInv, ExchangeInv, Delivery!TypeOK, Delivery!Errors, Delivery!Refusals
<1>5. AnswerInv'
  BY DEF AnswerInv, ContextInv, ExchangeInv, Delivery!TypeOK, Delivery!BlameIsProven, Delivery!OwnEndIsTold, Delivery!AcceptedIsUncertain, Delivery!SentAsConfigured, Delivery!Answered, Delivery!Said
<1> QED
  BY <1>1, <1>2, <1>3, <1>4, <1>5

\* A connection may be lost at any operation.
LEMMA ConnectionLostKeeps ==
  ASSUME AttemptInv, Delivery!ConnectionLost
  PROVE  AttemptInv'
<1> USE DeliveryAssumption DEF AttemptInv, Delivery!DeliveryAssumption, Delivery!ConnectionLost, Delivery!Fail, Delivery!Talking, Delivery!Operations, Delivery!own, Delivery!link
<1>1. Delivery!TypeOK'
  BY DEF Delivery!TypeOK, Delivery!Errors, Delivery!Refusals, Delivery!Codes, Delivery!Operations
<1>2. ContextInv'
  BY DEF ContextInv, Delivery!TypeOK
<1>3. ExchangeInv'
  BY DEF ExchangeInv, ContextInv, Delivery!TypeOK, Named, Admitted
<1>4. FailureInv'
  BY DEF FailureInv, ContextInv, ExchangeInv, Delivery!TypeOK, Delivery!Errors, Delivery!Refusals
<1>5. AnswerInv'
  BY DEF AnswerInv, ContextInv, ExchangeInv, Delivery!TypeOK, Delivery!BlameIsProven, Delivery!OwnEndIsTold, Delivery!AcceptedIsUncertain, Delivery!SentAsConfigured, Delivery!Answered, Delivery!Said
<1> QED
  BY <1>1, <1>2, <1>3, <1>4, <1>5

\* An operation is interrupted only by what has happened before: the deadline,
\* the hang-up or the end of the context.
LEMMA InterruptedKeeps ==
  ASSUME AttemptInv, Delivery!Interrupted
  PROVE  AttemptInv'
<1> USE DeliveryAssumption DEF AttemptInv, Delivery!DeliveryAssumption, Delivery!Interrupted, Delivery!Fail, Delivery!Talking, Delivery!Operations, Delivery!Broken, Delivery!own, Delivery!link
<1>1. Delivery!TypeOK'
  BY DEF Delivery!TypeOK, Delivery!Errors, Delivery!Refusals, Delivery!Codes, Delivery!Operations
<1>2. ContextInv'
  BY DEF ContextInv, Delivery!TypeOK
<1>3. ExchangeInv'
  BY DEF ExchangeInv, ContextInv, Delivery!TypeOK, Named, Admitted
<1>4. FailureInv'
  BY DEF FailureInv, ContextInv, ExchangeInv, Delivery!TypeOK, Delivery!Errors, Delivery!Refusals
<1>5. AnswerInv'
  BY DEF AnswerInv, ContextInv, ExchangeInv, Delivery!TypeOK, Delivery!BlameIsProven, Delivery!OwnEndIsTold, Delivery!AcceptedIsUncertain, Delivery!SentAsConfigured, Delivery!Answered, Delivery!Said
<1> QED
  BY <1>1, <1>2, <1>3, <1>4, <1>5

\* The server takes a message only after its end was written.
LEMMA AcceptKeeps ==
  ASSUME AttemptInv, Delivery!Accept
  PROVE  AttemptInv'
<1> USE DeliveryAssumption DEF AttemptInv, Delivery!DeliveryAssumption, Delivery!Accept, Delivery!own, Delivery!link
<1>1. Delivery!TypeOK'
  BY DEF Delivery!TypeOK, Delivery!Errors, Delivery!Refusals, Delivery!Codes, Delivery!Operations
<1>2. ContextInv'
  BY DEF ContextInv, Delivery!TypeOK
<1>3. ExchangeInv'
  BY DEF ExchangeInv, ContextInv, Delivery!TypeOK, Named, Admitted
<1>4. FailureInv'
  BY DEF FailureInv, ContextInv, ExchangeInv, Delivery!TypeOK, Delivery!Errors, Delivery!Refusals
<1>5. AnswerInv'
  BY DEF AnswerInv, ContextInv, ExchangeInv, Delivery!TypeOK, Delivery!BlameIsProven, Delivery!OwnEndIsTold, Delivery!AcceptedIsUncertain, Delivery!SentAsConfigured, Delivery!Answered, Delivery!Said
<1> QED
  BY <1>1, <1>2, <1>3, <1>4, <1>5

\* What each code that is told presupposes of the operation and its error.
LEMMA CodeOfKind ==
  ASSUME NEW op, NEW kind
  PROVE  /\ Delivery!Code(op, kind) \in Delivery!Codes \ {"sent"}
         /\ Delivery!Code(op, kind) = "notifications_unavailable" <=> Delivery!Unavailable(op, kind)
         /\ Delivery!Code(op, kind) = "smtp_timeout" => Delivery!TimedOut(kind)
         /\ kind \in {"closed", "canceled"} /\ (Delivery!Unavailable(op, kind) \/ Delivery!TimedOut(kind)) =>
              Delivery!Code(op, kind) \in {"smtp_timeout", "notifications_unavailable"}
         /\ Delivery!Code(op, kind) = "smtp_auth_rejected" => op = "auth" /\ kind = "535"
         /\ Delivery!Code(op, kind) = "smtp_sender_rejected" => op = "sender" /\ kind = "550"
         /\ Delivery!Code(op, kind) = "smtp_recipient_rejected" => op = "recipient" /\ kind = "550"
         /\ Delivery!Code(op, kind) = "smtp_tls_failed" =>
              op \in {"starttls", "handshake"} /\ ~Delivery!NetworkFailure(kind) /\ kind # "canceled"
<1> DEFINE tls == Delivery!StageOf(op) = "tls"
<1>1. tls => op \in {"starttls", "handshake"}
  <2>1. CASE op \in {"starttls", "handshake"}
    BY <2>1
  <2>2. CASE op \in {"completion", "quit"}
    BY <2>2, Zenon DEF Delivery!StageOf
  <2> QED
    BY DEF Delivery!StageOf
<1> QED
  BY <1>1 DEF Delivery!Code, Delivery!CodeOfOperation, Delivery!Unavailable, Delivery!TimedOut, Delivery!NetworkFailure, Delivery!Codes

\* The code, told later than the error happened and with the context as it is
\* by then, is true of both.
LEMMA DiagnoseKeeps ==
  ASSUME AttemptInv, Delivery!Diagnose
  PROVE  AttemptInv'
<1> DEFINE op == failure.in
           kind == failure.kind
           code == Delivery!Code(op, kind)
           uncertain == Delivery!Uncertain(op, code)
<1>0. Delivery!TypeOK /\ ContextInv /\ ExchangeInv /\ FailureInv /\ AnswerInv
  BY DEF AttemptInv
<1>1. /\ stage = "failed" /\ stage' = "end"
      /\ answer' = [status |-> 502, code |-> code, uncertain |-> uncertain]
      /\ UNCHANGED <<config, notifier, late, ctx, hungUp, secure, said, dotSent, accepted, failure>>
  BY DEF Delivery!Diagnose, Delivery!Answer, Delivery!link
<1>2. /\ code \in Delivery!Codes \ {"sent"}
      /\ code = "notifications_unavailable" <=> Delivery!Unavailable(op, kind)
      /\ code = "smtp_timeout" => Delivery!TimedOut(kind)
      /\ kind \in {"closed", "canceled"} /\ (Delivery!Unavailable(op, kind) \/ Delivery!TimedOut(kind)) =>
           code \in {"smtp_timeout", "notifications_unavailable"}
      /\ code = "smtp_auth_rejected" => op = "auth" /\ kind = "535"
      /\ code = "smtp_sender_rejected" => op = "sender" /\ kind = "550"
      /\ code = "smtp_recipient_rejected" => op = "recipient" /\ kind = "550"
      /\ code = "smtp_tls_failed" =>
           op \in {"starttls", "handshake"} /\ ~Delivery!NetworkFailure(kind) /\ kind # "canceled"
  BY CodeOfKind
<1>3. uncertain \in BOOLEAN
  BY DEF Delivery!Uncertain
<1>4. Delivery!TypeOK'
  BY <1>0, <1>1, <1>2, <1>3 DEF Delivery!TypeOK
<1>5. ContextInv' /\ ExchangeInv' /\ FailureInv'
  BY <1>0, <1>1 DEF ContextInv, ExchangeInv, FailureInv, Named, Admitted
<1> HIDE DEF op, kind, code, uncertain
<1>6. Delivery!BlameIsProven'
  <2>1. code = "smtp_auth_rejected" => said = [to |-> "auth", reply |-> "535"]
    BY <1>0, <1>1, <1>2 DEF FailureInv, Delivery!Refusals, op, kind
  <2>2. code = "smtp_sender_rejected" => said = [to |-> "sender", reply |-> "550"]
    BY <1>0, <1>1, <1>2 DEF FailureInv, Delivery!Refusals, op, kind
  <2>3. code = "smtp_recipient_rejected" => said = [to |-> "recipient", reply |-> "550"]
    BY <1>0, <1>1, <1>2 DEF FailureInv, Delivery!Refusals, op, kind
  <2>4. code = "smtp_tls_failed" => said.to \in {"starttls", "handshake"}
    <3>1. SUFFICES ASSUME code = "smtp_tls_failed" PROVE said.to = op
      BY <1>2
    <3>2. kind \in Delivery!Refusals \cup {"untrusted", "local"} /\ op \notin {"auth", "unavailable"}
      BY <1>0, <1>1, <1>2, <3>1 DEF FailureInv, Delivery!Errors, Delivery!NetworkFailure, kind
    <3>3. kind # "local"
      BY <1>0, <1>1, <3>2 DEF FailureInv, op, kind
    <3> QED
      BY <1>0, <1>1, <3>2, <3>3 DEF FailureInv, op, kind
  <2> QED
    BY <1>0, <1>1, <2>1, <2>2, <2>3, <2>4 DEF Delivery!BlameIsProven, Delivery!Answered, Delivery!Said
<1>7. Delivery!OwnEndIsTold'
  <2>1. kind \in {"closed", "canceled"} => Delivery!Unavailable(op, kind) \/ Delivery!TimedOut(kind)
    BY <1>0, <1>1 DEF FailureInv, ContextInv, Delivery!TypeOK, Delivery!Unavailable, Delivery!TimedOut, Delivery!NetworkFailure, op, kind
  <2>2. Delivery!Unavailable(op, kind) => notifier # "open"
    BY <1>0, <1>1 DEF FailureInv, ContextInv, Delivery!Unavailable, op, kind
  <2>3. Delivery!TimedOut(kind) => late
    BY <1>0, <1>1 DEF FailureInv, ContextInv, Delivery!TimedOut, kind
  <2> QED
    BY <1>0, <1>1, <1>2, <2>1, <2>2, <2>3 DEF Delivery!OwnEndIsTold, Delivery!Answered, kind
<1>8. Delivery!AcceptedIsUncertain'
  <2>1. dotSent \/ accepted => op \in {"completion", "quit"}
    BY <1>0, <1>1 DEF ExchangeInv, op
  <2>2. op \in {"completion", "quit"} => Delivery!StageOf(op) = "completion"
    BY DEF Delivery!StageOf
  <2> QED
    BY <1>0, <1>1, <2>1, <2>2 DEF Delivery!AcceptedIsUncertain, Delivery!Uncertain, uncertain
<1>9. Delivery!SentAsConfigured'
  BY <1>0, <1>1, <1>2 DEF Delivery!SentAsConfigured, Delivery!Answered
<1>10. AnswerInv'
  BY <1>6, <1>7, <1>8, <1>9 DEF AnswerInv
<1> QED
  BY <1>4, <1>5, <1>10 DEF AttemptInv

\* The deadline passes while the attempt talks or waits to be told.
LEMMA DeadlinePassesKeeps ==
  ASSUME AttemptInv, Delivery!DeadlinePasses
  PROVE  AttemptInv'
<1> USE DEF AttemptInv, Delivery!DeadlinePasses, Delivery!Talking, Delivery!link
<1>1. Delivery!TypeOK'
  BY DEF Delivery!TypeOK
<1>2. ContextInv'
  BY DEF ContextInv, Delivery!Operations
<1>3. ExchangeInv' /\ FailureInv'
  BY DEF ExchangeInv, FailureInv, Named, Admitted
<1>4. AnswerInv'
  BY DEF AnswerInv, ExchangeInv, Delivery!Operations, Delivery!BlameIsProven, Delivery!OwnEndIsTold, Delivery!AcceptedIsUncertain, Delivery!SentAsConfigured, Delivery!Answered, Delivery!Said
<1> QED
  BY <1>1, <1>2, <1>3, <1>4

\* The context ends after the deadline it bears.
LEMMA ContextExpiresKeeps ==
  ASSUME AttemptInv, Delivery!ContextExpires
  PROVE  AttemptInv'
<1> USE DeliveryAssumption DEF AttemptInv, Delivery!DeliveryAssumption, Delivery!ContextExpires, Delivery!own, Delivery!link
<1>1. Delivery!TypeOK'
  BY DEF Delivery!TypeOK, Delivery!Errors, Delivery!Refusals, Delivery!Codes, Delivery!Operations
<1>2. ContextInv'
  BY DEF ContextInv, Delivery!TypeOK
<1>3. ExchangeInv'
  BY DEF ExchangeInv, ContextInv, Delivery!TypeOK, Named, Admitted
<1>4. FailureInv'
  BY DEF FailureInv, ContextInv, ExchangeInv, Delivery!TypeOK, Delivery!Errors, Delivery!Refusals
<1>5. AnswerInv'
  BY DEF AnswerInv, ContextInv, ExchangeInv, Delivery!TypeOK, Delivery!BlameIsProven, Delivery!OwnEndIsTold, Delivery!AcceptedIsUncertain, Delivery!SentAsConfigured, Delivery!Answered, Delivery!Said
<1> QED
  BY <1>1, <1>2, <1>3, <1>4, <1>5

\* The notifier begins to close.
LEMMA NotifierClosesKeeps ==
  ASSUME AttemptInv, Delivery!NotifierCloses
  PROVE  AttemptInv'
<1> USE DeliveryAssumption DEF AttemptInv, Delivery!DeliveryAssumption, Delivery!NotifierCloses, Delivery!own, Delivery!link
<1>1. Delivery!TypeOK'
  BY DEF Delivery!TypeOK, Delivery!Errors, Delivery!Refusals, Delivery!Codes, Delivery!Operations
<1>2. ContextInv'
  BY DEF ContextInv, Delivery!TypeOK
<1>3. ExchangeInv'
  BY DEF ExchangeInv, ContextInv, Delivery!TypeOK, Named, Admitted
<1>4. FailureInv'
  BY DEF FailureInv, ContextInv, ExchangeInv, Delivery!TypeOK, Delivery!Errors, Delivery!Refusals
<1>5. AnswerInv'
  BY DEF AnswerInv, ContextInv, ExchangeInv, Delivery!TypeOK, Delivery!BlameIsProven, Delivery!OwnEndIsTold, Delivery!AcceptedIsUncertain, Delivery!SentAsConfigured, Delivery!Answered, Delivery!Said
<1> QED
  BY <1>1, <1>2, <1>3, <1>4, <1>5

\* When it gives up it ends the context, unless that has ended.
LEMMA CancelKeeps ==
  ASSUME AttemptInv, Delivery!Cancel
  PROVE  AttemptInv'
<1> USE DeliveryAssumption DEF AttemptInv, Delivery!DeliveryAssumption, Delivery!Cancel, Delivery!own, Delivery!link
<1>1. Delivery!TypeOK'
  BY DEF Delivery!TypeOK, Delivery!Errors, Delivery!Refusals, Delivery!Codes, Delivery!Operations
<1>2. ContextInv'
  BY DEF ContextInv, Delivery!TypeOK
<1>3. ExchangeInv'
  BY DEF ExchangeInv, ContextInv, Delivery!TypeOK, Named, Admitted
<1>4. FailureInv'
  BY DEF FailureInv, ContextInv, ExchangeInv, Delivery!TypeOK, Delivery!Errors, Delivery!Refusals
<1>5. AnswerInv'
  BY DEF AnswerInv, ContextInv, ExchangeInv, Delivery!TypeOK, Delivery!BlameIsProven, Delivery!OwnEndIsTold, Delivery!AcceptedIsUncertain, Delivery!SentAsConfigured, Delivery!Answered, Delivery!Said
<1> QED
  BY <1>1, <1>2, <1>3, <1>4, <1>5

\* Only an ended context makes Drillip hang up.
LEMMA HangUpKeeps ==
  ASSUME AttemptInv, Delivery!HangUp
  PROVE  AttemptInv'
<1> USE DeliveryAssumption DEF AttemptInv, Delivery!DeliveryAssumption, Delivery!HangUp, Delivery!own, Delivery!link
<1>1. Delivery!TypeOK'
  BY DEF Delivery!TypeOK, Delivery!Errors, Delivery!Refusals, Delivery!Codes, Delivery!Operations
<1>2. ContextInv'
  BY DEF ContextInv, Delivery!TypeOK
<1>3. ExchangeInv'
  BY DEF ExchangeInv, ContextInv, Delivery!TypeOK, Named, Admitted
<1>4. FailureInv'
  BY DEF FailureInv, ContextInv, ExchangeInv, Delivery!TypeOK, Delivery!Errors, Delivery!Refusals
<1>5. AnswerInv'
  BY DEF AnswerInv, ContextInv, ExchangeInv, Delivery!TypeOK, Delivery!BlameIsProven, Delivery!OwnEndIsTold, Delivery!AcceptedIsUncertain, Delivery!SentAsConfigured, Delivery!Answered, Delivery!Said
<1> QED
  BY <1>1, <1>2, <1>3, <1>4, <1>5

\* Nothing has been said when a request comes.
LEMMA AttemptInitially ==
  ASSUME Delivery!Init
  PROVE  AttemptInv
<1> USE DEF Delivery!Init
<1>1. Delivery!TypeOK
  BY DEF Delivery!TypeOK
<1>2. ContextInv /\ FailureInv
  BY DEF ContextInv, FailureInv
<1>3. ExchangeInv
  BY DEF ExchangeInv, Named, Admitted
<1>4. AnswerInv
  BY DEF AnswerInv, Delivery!BlameIsProven, Delivery!OwnEndIsTold, Delivery!AcceptedIsUncertain,
         Delivery!SentAsConfigured, Delivery!Answered
<1> QED
  BY <1>1, <1>2, <1>3, <1>4 DEF AttemptInv

\* Every step keeps the invariant of the attempt, those of the other two
\* components because they leave it alone.
LEMMA AttemptKept ==
  ASSUME AttemptInv, [Next]_vars
  PROVE  AttemptInv'
<1>1. CASE Delivery!Next
  BY <1>1, RequestKeeps, BeginKeeps, SucceedKeeps, RefusedKeeps, HandshakeFailsKeeps,
     AuthRefusedLocallyKeeps, ConnectionLostKeeps, InterruptedKeeps, AcceptKeeps, DiagnoseKeeps,
     DeadlinePassesKeeps, ContextExpiresKeeps, NotifierClosesKeeps, CancelKeeps, HangUpKeeps
     DEF Delivery!Next
<1>2. CASE UNCHANGED delivery
  BY <1>2 DEF delivery, AttemptInv, Delivery!TypeOK, ContextInv, ExchangeInv, FailureInv, AnswerInv,
       Delivery!BlameIsProven, Delivery!OwnEndIsTold, Delivery!AcceptedIsUncertain,
       Delivery!SentAsConfigured, Delivery!Answered, Delivery!Said, Named, Admitted
<1> QED
  BY <1>1, <1>2 DEF Next, vars

\* What a failed test mail is answered with is so, in whatever order the
\* server, the deadline, the closing notifier and the hang-up come: BlameIsProven,
\* OwnEndIsTold, AcceptedIsUncertain and SentAsConfigured.
THEOREM AnswerAlwaysTrue == Spec => []AnswerIsTrue
<1>1. Init => AttemptInv
  BY AttemptInitially DEF Init
<1>2. AttemptInv /\ [Next]_vars => AttemptInv'
  BY AttemptKept
<1>3. AttemptInv => AnswerIsTrue
  BY DEF AttemptInv, AnswerInv, AnswerIsTrue
<1> QED
  BY <1>1, <1>2, <1>3, PTL DEF Spec
-----------------------------------------------------------------------------
(* Retention: the inductive invariant                                      *)

Deadline == [cut: Int, meant: Int, sound: BOOLEAN, waited: Nat]

\* A cutoff is not later than what was meant, if that can be represented.  It
\* may be earlier: the longest duration back is one tick too long to be negated.
Careful(cutoff) == cutoff \in Deadline /\ (cutoff.sound => cutoff.cut >= cutoff.meant)

RetentionInv ==
  /\ age \in [Occurrences -> {None} \cup 0 .. MaxAge]
  /\ phase \in 0 .. Second - 1
  /\ retain.text \in Settings /\ retain.for = Retention!RetainFor(retain.text)
  /\ query # None =>
       /\ query \in [before: {query.before}, olderThan: Texts \cup {None}, waited: Nat]
       /\ query.before # None => Careful(query.before)
  /\ cutting \in [Retention!Callers -> {cutting[c] : c \in Retention!Callers}]
  /\ \A c \in Retention!Callers : cutting[c] # None => Careful(cutting[c])

-----------------------------------------------------------------------------
(* Durations                                                               *)

Half == Word \div 2

\* The word is even.
LEMMA HalfWord == Half \in Nat /\ Word = 2 * Half /\ Half > 0
  BY RetentionAssumption DEF Retention!RetentionAssumption, Half

\* A number is wrapped to a duration, and is itself if it is one.
LEMMA Wrapped ==
  ASSUME NEW n \in Int
  PROVE  Retention!Wrap(n) \in Retention!Durations /\ (n \in Retention!Durations => Retention!Wrap(n) = n)
<1>1. Word \in Nat \ {0} /\ Half \in Nat /\ Word = 2 * Half
  BY RetentionAssumption, HalfWord DEF Retention!RetentionAssumption
<1>2. (n + Half) % Word \in 0 .. Word - 1
  BY <1>1
<1>3. n \in Retention!Durations => (n + Half) % Word = n + Half
  <2>1. SUFFICES ASSUME n \in -Half .. Half - 1 PROVE (n + Half) % Word = n + Half
    BY DEF Retention!Durations, Half
  <2>2. n + Half \in 0 .. Word - 1
    BY <1>1, <2>1
  <2> HIDE DEF Half
  <2> QED
    BY <1>1, <2>2
<1> QED
  BY <1>1, <1>2, <1>3 DEF Retention!Wrap, Retention!Durations, Half

\* The instant a duration ago is at least as old as the duration; it is older,
\* by a whole word, for the one duration that cannot be negated.
LEMMA AgoIsOlder ==
  ASSUME NEW d \in Retention!Durations
  PROVE  Retention!Ago(d) \in Int /\ Retention!Ago(d) >= d
<1>1. Half \in Nat /\ d \in Int /\ d >= -Half /\ d <= Half - 1
  BY HalfWord DEF Retention!Durations, Half
<1>2. CASE d = -Half
  <2>1. -d \in Int
    BY <1>1
  <2>2. Retention!Wrap(-d) \in -Half .. Half - 1
    BY <2>1, Wrapped DEF Retention!Durations, Half
  <2> QED
    BY <1>1, <1>2, <2>2 DEF Retention!Ago
<1>3. CASE d # -Half
  <2>1. -d \in Retention!Durations /\ -d \in Int
    BY <1>1, <1>3 DEF Retention!Durations, Half
  <2>2. Retention!Wrap(-d) = -d
    BY <2>1, Wrapped
  <2> QED
    BY <1>1, <2>2 DEF Retention!Ago
<1> QED
  BY <1>2, <1>3

\* Cutting off the fraction of a second keeps the order of two instants.
LEMMA WholeSecondsGrow ==
  ASSUME phase \in Int, NEW x \in Int, NEW y \in Int, x <= y
  PROVE  Retention!WholeSeconds(x) <= Retention!WholeSeconds(y)
<1>1. Second \in Nat \ {0}
  BY RetentionAssumption DEF Retention!RetentionAssumption
<1> QED
  BY <1>1 DEF Retention!WholeSeconds

\* A duration that can be represented is understood as it was meant.
LEMMA TextUnderstood ==
  ASSUME NEW text \in (Texts \cup Settings) \ {None}
  PROVE  /\ Retention!Meant(text) \in Int
         /\ Retention!ParseDuration(text) \in Retention!Durations
         /\ Retention!Ago(Retention!ParseDuration(text)) \in Int
         /\ Retention!Representable(text) =>
              Retention!Ago(Retention!ParseDuration(text)) >= Retention!Meant(text)
<1>1. text.number \in Int /\ Hours[text.unit] \in Nat /\ Hour \in Nat
  BY RetentionAssumption DEF Retention!RetentionAssumption
<1>2. text.number * Hours[text.unit] \in Int
  BY <1>1
<1>3. Retention!Meant(text) \in Int
  BY <1>1, <1>2 DEF Retention!Meant
<1>4. Retention!ParseDuration(text) \in Retention!Durations
  BY <1>3, Wrapped DEF Retention!ParseDuration
<1>5. /\ Retention!Ago(Retention!ParseDuration(text)) \in Int
      /\ Retention!Ago(Retention!ParseDuration(text)) >= Retention!ParseDuration(text)
  BY <1>4, AgoIsOlder
<1> QED
  BY <1>3, <1>4, <1>5 DEF Retention!Representable

\* So is the cutoff of `drillip gc`, by the client's clock.
LEMMA CarefulOfText ==
  ASSUME NEW text \in (Texts \cup Settings) \ {None}, NEW ahead \in Nat
  PROVE  Careful(Retention!Cutoff(Retention!Ago(Retention!ParseDuration(text)) - ahead,
                                  Retention!Meant(text) - ahead, Retention!Representable(text)))
<1> DEFINE cut == Retention!Ago(Retention!ParseDuration(text))
           meant == Retention!Meant(text)
           sound == Retention!Representable(text)
<1>1. cut \in Int /\ meant \in Int /\ (sound => cut >= meant)
  BY TextUnderstood
<1>2. sound \in BOOLEAN
  BY DEF Retention!Representable
<1> HIDE DEF cut, meant, sound
<1>3. cut - ahead \in Int /\ meant - ahead \in Int /\ (sound => cut - ahead >= meant - ahead)
  BY <1>1
<1>4. Careful(Retention!Cutoff(cut - ahead, meant - ahead, sound))
  BY <1>2, <1>3 DEF Careful, Deadline, Retention!Cutoff
<1> QED
  BY <1>4 DEF cut, meant, sound

\* So is the cutoff that the server computes.
LEMMA CarefulOnArrival ==
  ASSUME NEW text \in (Texts \cup Settings) \ {None}
  PROVE  Careful(Retention!Cutoff(Retention!Ago(Retention!ParseDuration(text)),
                                  Retention!Meant(text), Retention!Representable(text)))
<1> DEFINE cut == Retention!Ago(Retention!ParseDuration(text))
           meant == Retention!Meant(text)
           sound == Retention!Representable(text)
<1>1. cut \in Int /\ meant \in Int /\ (sound => cut >= meant)
  BY TextUnderstood
<1>2. sound \in BOOLEAN
  BY DEF Retention!Representable
<1> HIDE DEF cut, meant, sound
<1>4. Careful(Retention!Cutoff(cut, meant, sound))
  BY <1>1, <1>2 DEF Careful, Deadline, Retention!Cutoff
<1> QED
  BY <1>4 DEF cut, meant, sound

\* Time moves the cutoff and what was meant of it alike.
LEMMA LaterIsCareful ==
  ASSUME NEW cutoff, cutoff # None, Careful(cutoff)
  PROVE  Careful(Retention!Later(cutoff))
<1>1. /\ cutoff.cut \in Int /\ cutoff.meant \in Int /\ cutoff.sound \in BOOLEAN /\ cutoff.waited \in Nat
      /\ cutoff.sound => cutoff.cut >= cutoff.meant
      /\ cutoff = [cut |-> cutoff.cut, meant |-> cutoff.meant, sound |-> cutoff.sound, waited |-> cutoff.waited]
  BY DEF Careful, Deadline
<1>2. Retention!Later(cutoff) =
        [cut |-> cutoff.cut + 1, meant |-> cutoff.meant + 1, sound |-> cutoff.sound, waited |-> cutoff.waited + 1]
  BY <1>1 DEF Retention!Later
<1>3. cutoff.cut + 1 \in Int /\ cutoff.meant + 1 \in Int /\ cutoff.waited + 1 \in Nat
      /\ (cutoff.sound => cutoff.cut + 1 >= cutoff.meant + 1)
  BY <1>1
<1> QED
  BY <1>1, <1>2, <1>3 DEF Careful, Deadline

\* At first nothing is stored and nothing is being deleted.
LEMMA RetentionInitially ==
  ASSUME Retention!Init
  PROVE  RetentionInv
<1>1. Second \in Nat \ {0}
  BY RetentionAssumption DEF Retention!RetentionAssumption
<1>2. age \in [Occurrences -> {None} \cup 0 .. MaxAge] /\ phase \in 0 .. Second - 1
  BY <1>1 DEF Retention!Init
<1>3. retain.text \in Settings /\ retain.for = Retention!RetainFor(retain.text)
  BY DEF Retention!Init
<1>4. cutting = [c \in Retention!Callers |-> None] /\ query = None
  BY DEF Retention!Init
<1> QED
  BY <1>2, <1>3, <1>4 DEF RetentionInv

\* A new occurrence has no age yet.
LEMMA StoreEventKeeps ==
  ASSUME RetentionInv, NEW o \in Occurrences, Retention!StoreEvent(o)
  PROVE  RetentionInv'
<1>1. MaxAge \in Nat
  BY RetentionAssumption DEF Retention!RetentionAssumption
<1>2. /\ age' = [age EXCEPT ![o] = 0]
      /\ UNCHANGED <<phase, retain, query, cutting>>
  BY DEF Retention!StoreEvent
<1>3. age' \in [Occurrences -> {None} \cup 0 .. MaxAge]
  BY <1>1, <1>2 DEF RetentionInv
<1> QED
  BY <1>2, <1>3 DEF RetentionInv, Retention!RetainFor, Retention!ParseDuration, Retention!Wrap, Retention!Meant

\* `drillip gc` sends a careful cutoff.
LEMMA RunGCKeeps ==
  ASSUME RetentionInv, NEW text \in Texts, NEW ahead \in Ahead, Retention!RunGC(text, ahead)
  PROVE  RetentionInv'
<1> DEFINE before == Retention!Cutoff(Retention!Ago(Retention!ParseDuration(text)) - ahead,
                       Retention!Meant(text) - ahead, Retention!Representable(text))
<1>1. /\ query' = [Retention!NoQuery EXCEPT !.before = before]
      /\ text # None
      /\ UNCHANGED <<age, phase, retain, cutting>>
  BY DEF Retention!RunGC
<1>2. ahead \in Nat
  BY RetentionAssumption DEF Retention!RetentionAssumption
<1>3. Careful(before)
  BY <1>1, <1>2, CarefulOfText
<1> HIDE DEF before
<1>4. query' = [before |-> before, olderThan |-> None, waited |-> 0]
  BY <1>1 DEF Retention!NoQuery
<1>5. /\ query' \in [before: {query'.before}, olderThan: Texts \cup {None}, waited: Nat]
      /\ Careful(query'.before)
  BY <1>3, <1>4
<1>6. Careful(query.before)'
  BY <1>5 DEF Careful, Deadline
<1> QED
  BY <1>1, <1>5, <1>6 DEF RetentionInv, Retention!RetainFor, Retention!ParseDuration, Retention!Wrap, Retention!Meant

\* So does anyone else who sends one.
LEMMA AskKeeps ==
  ASSUME RetentionInv, NEW text \in Texts,
         NEW before \in {None, Retention!Cutoff(0, 0, TRUE)}, Retention!Ask(text, before)
  PROVE  RetentionInv'
<1>1. /\ query' = [Retention!NoQuery EXCEPT !.olderThan = text, !.before = before]
      /\ UNCHANGED <<age, phase, retain, cutting>>
  BY DEF Retention!Ask
<1>2. query' = [before |-> before, olderThan |-> text, waited |-> 0]
  BY <1>1 DEF Retention!NoQuery
<1>3. before # None => Careful(before)
  <2>1. SUFFICES ASSUME before # None PROVE Careful(before)
    OBVIOUS
  <2>2. before = [cut |-> 0, meant |-> 0, sound |-> TRUE, waited |-> 0]
    BY <2>1 DEF Retention!Cutoff
  <2>3. before \in Deadline
    BY <2>2 DEF Deadline
  <2> QED
    BY <2>2, <2>3 DEF Careful
<1>4. /\ query' \in [before: {query'.before}, olderThan: Texts \cup {None}, waited: Nat]
      /\ query'.before # None => Careful(query'.before)
  BY <1>2, <1>3
<1>5. (query.before # None => Careful(query.before))'
  BY <1>4 DEF Careful, Deadline
<1> QED
  BY <1>1, <1>4, <1>5 DEF RetentionInv, Retention!RetainFor, Retention!ParseDuration, Retention!Wrap, Retention!Meant

\* A caller that begins to delete does so with a cutoff that is careful.
LEMMA BeginsToCut ==
  ASSUME RetentionInv, NEW c \in Retention!Callers, NEW cutoff, Careful(cutoff),
         cutting' = [cutting EXCEPT ![c] = cutoff]
  PROVE  /\ cutting' \in [Retention!Callers -> {cutting'[d] : d \in Retention!Callers}]
         /\ \A d \in Retention!Callers : cutting'[d] # None => Careful(cutting'[d])
  BY DEF RetentionInv

\* The handler uses the cutoff that came, or computes one.
LEMMA HandleGCKeeps ==
  ASSUME RetentionInv, Retention!HandleGC
  PROVE  RetentionInv'
<1>1. query # None /\ query' = None /\ UNCHANGED <<age, phase, retain>>
  BY DEF Retention!HandleGC
<1>2. /\ cutting' \in [Retention!Callers -> {cutting'[d] : d \in Retention!Callers}]
      /\ \A d \in Retention!Callers : cutting'[d] # None => Careful(cutting'[d])
  <2>1. CASE query.before # None /\ query.olderThan = None
    <3>1. PICK b : b = query.before
      OBVIOUS
    <3>2. cutting' = [cutting EXCEPT !["handler"] = [b EXCEPT !.waited = 0]]
      BY <2>1, <3>1 DEF Retention!HandleGC
    <3>3. Careful(b)
      BY <1>1, <2>1, <3>1 DEF RetentionInv
    <3>4. Careful([b EXCEPT !.waited = 0])
      BY <3>3 DEF Careful, Deadline
    <3> QED
      BY <3>2, <3>4, BeginsToCut DEF Retention!Callers
  <2>2. CASE query.before = None /\ query.olderThan # None
    <3>1. PICK text \in (Texts \cup Settings) \ {None} : text = query.olderThan
      BY <1>1, <2>2 DEF RetentionInv
    <3>2. cutting' = [cutting EXCEPT !["handler"] =
            Retention!Cutoff(Retention!Ago(Retention!ParseDuration(text)), Retention!Meant(text), Retention!Representable(text))]
      BY <2>2, <3>1 DEF Retention!HandleGC
    <3> QED
      BY <3>2, CarefulOnArrival, BeginsToCut DEF Retention!Callers
  <2>3. CASE (query.before = None) = (query.olderThan = None)
    <3>1. cutting' = cutting
      BY <2>3 DEF Retention!HandleGC
    <3> QED
      BY <3>1 DEF RetentionInv
  <2> QED
    BY <2>1, <2>2, <2>3
<1>3. (\A d \in Retention!Callers : cutting[d] # None => Careful(cutting[d]))'
  BY <1>2 DEF Careful, Deadline, Retention!Callers
<1> QED
  BY <1>1, <1>2, <1>3 DEF RetentionInv, Retention!RetainFor, Retention!ParseDuration, Retention!Wrap, Retention!Meant

\* The chore computes the cutoff of the retention that is configured.
LEMMA GcOccurrencesKeeps ==
  ASSUME RetentionInv, Retention!GcOccurrences
  PROVE  RetentionInv'
<1>1. UNCHANGED <<age, phase, retain, query>>
  BY DEF Retention!GcOccurrences
<1>2. Careful(Retention!Retained)
  <2>1. CASE retain.text = None
    <3>1. Default \in Retention!Durations /\ Default \in Int
      BY RetentionAssumption, HalfWord DEF Retention!RetentionAssumption, Retention!Durations, Half
    <3>2. Retention!Ago(Default) \in Int /\ Retention!Ago(Default) >= Default
      BY <3>1, AgoIsOlder
    <3> QED
      BY <2>1, <3>1, <3>2 DEF Retention!Retained, Retention!Cutoff, Careful, Deadline
  <2>2. CASE retain.text # None
    <3>1. PICK text \in (Texts \cup Settings) \ {None} : text = retain.text
      BY <2>2 DEF RetentionInv
    <3>2. retain.for = Retention!ParseDuration(text)
      BY <2>2, <3>1 DEF RetentionInv, Retention!RetainFor
    <3>3. Retention!Retained =
            Retention!Cutoff(Retention!Ago(Retention!ParseDuration(text)), Retention!Meant(text), Retention!Representable(text))
      BY <2>2, <3>1, <3>2 DEF Retention!Retained
    <3> QED
      BY <3>3, CarefulOnArrival
  <2> QED
    BY <2>1, <2>2
<1>3. \/ cutting' = [cutting EXCEPT !["loop"] = Retention!Retained]
      \/ cutting' = cutting
  BY DEF Retention!GcOccurrences
<1>4. PICK cutoff : cutoff = Retention!Retained
  OBVIOUS
<1>5. /\ cutting' \in [Retention!Callers -> {cutting'[d] : d \in Retention!Callers}]
      /\ \A d \in Retention!Callers : cutting'[d] # None => Careful(cutting'[d])
  <2>1. CASE cutting' = [cutting EXCEPT !["loop"] = cutoff]
    BY <1>2, <1>4, <2>1, BeginsToCut DEF Retention!Callers
  <2>2. CASE cutting' = cutting
    BY <2>2 DEF RetentionInv
  <2> QED
    BY <1>3, <1>4, <2>1, <2>2
<1>6. (\A d \in Retention!Callers : cutting[d] # None => Careful(cutting[d]))'
  BY <1>5 DEF Careful, Deadline, Retention!Callers
<1> QED
  BY <1>1, <1>5, <1>6 DEF RetentionInv, Retention!RetainFor, Retention!ParseDuration, Retention!Wrap, Retention!Meant

\* A chore that panics deletes nothing.
LEMMA PanicKeeps ==
  ASSUME RetentionInv, Retention!Panic
  PROVE  RetentionInv'
<1>1. UNCHANGED <<age, phase, retain, query, cutting>>
  BY DEF Retention!Panic
<1> QED
  BY <1>1 DEF RetentionInv, Retention!RetainFor, Retention!ParseDuration, Retention!Wrap, Retention!Meant, Careful, Deadline

\* A caller that has deleted, or failed to, holds no cutoff.
LEMMA StopsCutting ==
  ASSUME RetentionInv, NEW c \in Retention!Callers,
         age' \in [Occurrences -> {None} \cup 0 .. MaxAge],
         cutting' = [cutting EXCEPT ![c] = None], UNCHANGED <<phase, retain, query>>
  PROVE  RetentionInv'
<1>1. /\ cutting' \in [Retention!Callers -> {cutting'[d] : d \in Retention!Callers}]
      /\ \A d \in Retention!Callers : cutting'[d] # None => Careful(cutting'[d])
  BY DEF RetentionInv
<1>2. (\A d \in Retention!Callers : cutting[d] # None => Careful(cutting[d]))'
  BY <1>1 DEF Careful, Deadline, Retention!Callers
<1> QED
  BY <1>1, <1>2 DEF RetentionInv, Retention!RetainFor, Retention!ParseDuration, Retention!Wrap, Retention!Meant, Careful, Deadline

\* Deleting leaves the other caller's cutoff alone.
LEMMA GCOccurrencesKeeps ==
  ASSUME RetentionInv, NEW c \in Retention!Callers, Retention!GCOccurrences(c)
  PROVE  RetentionInv'
<1>1. age' = [o \in Occurrences |-> IF Retention!Old(o, cutting[c].cut) THEN None ELSE age[o]]
  BY DEF Retention!GCOccurrences
<1>2. age' \in [Occurrences -> {None} \cup 0 .. MaxAge]
  BY <1>1 DEF RetentionInv
<1> QED
  BY <1>2, StopsCutting DEF Retention!GCOccurrences

\* So does failing to.
LEMMA FailKeeps ==
  ASSUME RetentionInv, NEW c \in Retention!Callers, Retention!Fail(c)
  PROVE  RetentionInv'
<1>1. age' = age
  BY DEF Retention!Fail
<1>2. age' \in [Occurrences -> {None} \cup 0 .. MaxAge]
  BY <1>1 DEF RetentionInv
<1> QED
  BY <1>2, StopsCutting DEF Retention!Fail

\* A restart forgets the cutoffs.
LEMMA RestartKeeps ==
  ASSUME RetentionInv, Retention!Restart
  PROVE  RetentionInv'
<1>1. cutting' = [c \in Retention!Callers |-> None] /\ UNCHANGED <<age, phase, retain, query>>
  BY DEF Retention!Restart
<1>2. (\A d \in Retention!Callers : cutting[d] # None => Careful(cutting[d]))'
  BY <1>1
<1>3. cutting' \in [Retention!Callers -> {cutting'[d] : d \in Retention!Callers}]
  BY <1>1
<1> QED
  BY <1>1, <1>2, <1>3 DEF RetentionInv, Retention!RetainFor, Retention!ParseDuration, Retention!Wrap, Retention!Meant, Careful, Deadline

\* Time passes for the occurrences, the request and both callers alike.
LEMMA TickKeeps ==
  ASSUME RetentionInv, Retention!Tick
  PROVE  RetentionInv'
<1>1. MaxAge \in Nat /\ Second \in Nat \ {0}
  BY RetentionAssumption DEF Retention!RetentionAssumption
<1>2. retain' = retain
  BY DEF Retention!Tick
<1>3. age' \in [Occurrences -> {None} \cup 0 .. MaxAge]
  <2>1. age' = [o \in Occurrences |-> IF age[o] \in {None, MaxAge} THEN age[o] ELSE age[o] + 1]
    BY DEF Retention!Tick
  <2>2. \A o \in Occurrences : age[o] \in {None} \cup 0 .. MaxAge
    BY DEF RetentionInv
  <2> QED
    BY <1>1, <2>1, <2>2
<1>4. phase' \in 0 .. Second - 1
  <2>1. phase' = (phase + 1) % Second /\ phase \in Int
    BY <1>1 DEF Retention!Tick, RetentionInv
  <2> QED
    BY <1>1, <2>1
<1>5. /\ query' # None => query' \in [before: {query'.before}, olderThan: Texts \cup {None}, waited: Nat]
      /\ query' # None /\ query'.before # None => Careful(query'.before)
  <2>1. SUFFICES ASSUME query' # None
                 PROVE  /\ query' \in [before: {query'.before}, olderThan: Texts \cup {None}, waited: Nat]
                        /\ query'.before # None => Careful(query'.before)
    OBVIOUS
  <2>2. query # None /\ query' = [query EXCEPT !.before = Retention!Later(@), !.waited = @ + 1]
    BY <2>1 DEF Retention!Tick
  <2>3. PICK b, later : b = query.before /\ later = Retention!Later(b)
    OBVIOUS
  <2>4. /\ query = [before |-> b, olderThan |-> query.olderThan, waited |-> query.waited]
        /\ query.olderThan \in Texts \cup {None} /\ query.waited \in Nat /\ query.waited + 1 \in Nat
        /\ b # None => Careful(b)
    BY <2>2, <2>3 DEF RetentionInv
  <2>5. query' = [before |-> later, olderThan |-> query.olderThan, waited |-> query.waited + 1]
    BY <2>2, <2>3, <2>4
  <2>6. later # None => Careful(later)
    <3>1. b = None => later = None
      BY <2>3 DEF Retention!Later
    <3> QED
      BY <2>3, <2>4, <3>1, LaterIsCareful
  <2> QED
    BY <2>4, <2>5, <2>6
<1>6. /\ cutting' \in [Retention!Callers -> {cutting'[d] : d \in Retention!Callers}]
      /\ \A d \in Retention!Callers : cutting'[d] # None => Careful(cutting'[d])
  <2>1. cutting' = [c \in Retention!Callers |-> Retention!Later(cutting[c])]
    BY DEF Retention!Tick
  <2>2. ASSUME NEW d \in Retention!Callers, cutting'[d] # None PROVE Careful(cutting'[d])
    <3>1. PICK cutoff : cutoff = cutting[d]
      OBVIOUS
    <3>2. cutting'[d] = Retention!Later(cutoff)
      BY <2>1, <3>1
    <3>3. cutoff # None
      BY <2>2, <3>2 DEF Retention!Later
    <3>4. Careful(cutoff)
      BY <3>1, <3>3 DEF RetentionInv
    <3> QED
      BY <3>2, <3>3, <3>4, LaterIsCareful
  <2> QED
    BY <2>1, <2>2
<1>7. (query # None /\ query.before # None => Careful(query.before))'
  BY <1>5 DEF Careful, Deadline
<1>8. (\A d \in Retention!Callers : cutting[d] # None => Careful(cutting[d]))'
  BY <1>6 DEF Careful, Deadline, Retention!Callers
<1>9. (retain.text \in Settings /\ retain.for = Retention!RetainFor(retain.text))'
  BY <1>2 DEF RetentionInv, Retention!RetainFor, Retention!ParseDuration, Retention!Wrap, Retention!Meant
<1> QED
  BY <1>3, <1>4, <1>5, <1>6, <1>7, <1>8, <1>9 DEF RetentionInv, Retention!Callers

\* Every step keeps the invariant of retention.
LEMMA RetentionKept ==
  ASSUME RetentionInv, [Next]_vars
  PROVE  RetentionInv'
<1>1. CASE Retention!Next
  BY <1>1, StoreEventKeeps, RunGCKeeps, AskKeeps, HandleGCKeeps, GcOccurrencesKeeps, PanicKeeps,
     GCOccurrencesKeeps, FailKeeps, RestartKeeps, TickKeeps DEF Retention!Next
<1>2. CASE UNCHANGED retention
  BY <1>2 DEF retention, RetentionInv, Careful, Deadline, Retention!RetainFor,
       Retention!ParseDuration, Retention!Wrap, Retention!Meant
<1> QED
  BY <1>1, <1>2 DEF Next, vars

\* The chore's cutoff is at least as old as the retention, which is positive.
ChoreInv ==
  cutting["loop"] # None =>
    /\ retain.for \in Int /\ retain.for > 0
    /\ cutting["loop"].cut \in Int /\ cutting["loop"].cut >= retain.for

\* What the chore computes is, however the configured duration wrapped.
LEMMA ChoreBegins ==
  ASSUME RetentionInv, Retention!GcOccurrences
  PROVE  ChoreInv'
<1>1. retain' = retain
  BY DEF Retention!GcOccurrences
<1>2. CASE retain.for > 0
  <2>1. cutting' = [cutting EXCEPT !["loop"] = Retention!Retained]
    BY <1>2 DEF Retention!GcOccurrences
  <2>2. cutting'["loop"] = Retention!Retained
    BY <2>1 DEF RetentionInv, Retention!Callers
  <2>3. retain.for \in Retention!Durations /\ Retention!Retained.cut = Retention!Ago(retain.for)
    <3>1. CASE retain.text = None
      <4>1. retain.for = Default
        BY <3>1 DEF RetentionInv, Retention!RetainFor
      <4>2. Default \in Retention!Durations
        BY RetentionAssumption, HalfWord DEF Retention!RetentionAssumption, Retention!Durations, Half
      <4> QED
        BY <3>1, <4>1, <4>2 DEF Retention!Retained, Retention!Cutoff
    <3>2. CASE retain.text # None
      <4>1. PICK text \in (Texts \cup Settings) \ {None} : text = retain.text
        BY <3>2 DEF RetentionInv
      <4>2. retain.for = Retention!ParseDuration(text)
        BY <3>2, <4>1 DEF RetentionInv, Retention!RetainFor
      <4> QED
        BY <3>2, <4>2, TextUnderstood DEF Retention!Retained, Retention!Cutoff
    <3> QED
      BY <3>1, <3>2
  <2>4. /\ retain.for \in Int /\ Retention!Ago(retain.for) \in Int
        /\ Retention!Ago(retain.for) >= retain.for
    BY <2>3, AgoIsOlder, HalfWord DEF Retention!Durations, Half
  <2> QED
    BY <1>1, <1>2, <2>2, <2>3, <2>4 DEF ChoreInv
<1>3. CASE ~(retain.for > 0)
  BY <1>3 DEF Retention!GcOccurrences, ChoreInv
<1> QED
  BY <1>2, <1>3

\* It stays so while it waits.
LEMMA ChoreWaits ==
  ASSUME RetentionInv, ChoreInv, Retention!Tick
  PROVE  ChoreInv'
<1>1. retain' = retain /\ cutting'["loop"] = Retention!Later(cutting["loop"])
  BY DEF Retention!Tick, Retention!Callers
<1>2. CASE cutting["loop"] = None
  BY <1>1, <1>2 DEF ChoreInv, Retention!Later
<1>3. CASE cutting["loop"] # None
  <2>1. PICK cutoff : cutoff = cutting["loop"]
    OBVIOUS
  <2>2. cutoff \in Deadline
    BY <1>3, <2>1 DEF RetentionInv, Careful, Retention!Callers
  <2>3. Retention!Later(cutoff).cut = cutoff.cut + 1
    BY <1>3, <2>1, <2>2 DEF Retention!Later, Deadline
  <2> QED
    BY <1>1, <1>3, <2>1, <2>3 DEF ChoreInv
<1> QED
  BY <1>2, <1>3

\* Nobody else touches it.
LEMMA ChoreKept ==
  ASSUME RetentionInv, ChoreInv, [Next]_vars
  PROVE  ChoreInv'
<1>1. CASE UNCHANGED retention
  BY <1>1 DEF retention, ChoreInv
<1>2. CASE /\ retain' = retain
           /\ cutting'["loop"] = cutting["loop"] \/ cutting'["loop"] = None
  BY <1>2 DEF ChoreInv
<1>3. CASE \E c \in Retention!Callers : Retention!GCOccurrences(c) \/ Retention!Fail(c)
  <2>1. PICK c \in Retention!Callers : cutting' = [cutting EXCEPT ![c] = None] /\ retain' = retain
    BY <1>3 DEF Retention!GCOccurrences, Retention!Fail
  <2> QED
    BY <1>2, <2>1 DEF RetentionInv, Retention!Callers
<1>4. CASE Retention!HandleGC
  <2>1. retain' = retain /\ cutting'["loop"] = cutting["loop"]
    BY <1>4 DEF Retention!HandleGC, RetentionInv, Retention!Callers
  <2> QED
    BY <1>2, <2>1
<1>5. CASE Retention!Restart
  <2>1. retain' = retain /\ cutting'["loop"] = None
    BY <1>5 DEF Retention!Restart, Retention!Callers
  <2> QED
    BY <1>2, <2>1
<1>6. CASE \/ \E o \in Occurrences : Retention!StoreEvent(o)
           \/ \E text \in Texts, ahead \in Ahead : Retention!RunGC(text, ahead)
           \/ \E text \in Texts, before \in {None, Retention!Cutoff(0, 0, TRUE)} : Retention!Ask(text, before)
           \/ Retention!Panic
  <2>1. retain' = retain /\ cutting' = cutting
    BY <1>6 DEF Retention!StoreEvent, Retention!RunGC, Retention!Ask, Retention!Panic
  <2> QED
    BY <1>2, <2>1
<1> QED
  BY <1>1, <1>3, <1>4, <1>5, <1>6, ChoreBegins, ChoreWaits DEF Next, vars, Retention!Next

\* What the database compares as older, of two instants cut to the second, is
\* older than what was meant, and for the chore than the retention.
LEMMA OldIsOlder ==
  ASSUME RetentionInv, ChoreInv, NEW c \in Retention!Callers, cutting[c] # None,
         NEW o \in Occurrences, Retention!Old(o, cutting[c].cut)
  PROVE  Retention!Due(c, age[o])
<1>1. Second \in Nat \ {0} /\ MaxAge \in Nat
  BY RetentionAssumption DEF Retention!RetentionAssumption
<1>2. /\ phase \in Int /\ age[o] \in Int
      /\ cutting[c].cut \in Int /\ cutting[c].meant \in Int
      /\ cutting[c].sound => cutting[c].cut >= cutting[c].meant
  BY <1>1 DEF RetentionInv, Careful, Deadline, Retention!Old
<1>3. Retention!WholeSeconds(age[o]) > Retention!WholeSeconds(cutting[c].cut)
  BY DEF Retention!Old, Retention!Threshold
<1>4. ~(age[o] <= cutting[c].cut)
  <2>1. SUFFICES ASSUME age[o] <= cutting[c].cut PROVE FALSE
    OBVIOUS
  <2>2. Retention!WholeSeconds(age[o]) <= Retention!WholeSeconds(cutting[c].cut)
    BY <1>2, <2>1, WholeSecondsGrow
  <2>3. Retention!WholeSeconds(age[o]) \in Int /\ Retention!WholeSeconds(cutting[c].cut) \in Int
    BY <1>1, <1>2 DEF Retention!WholeSeconds
  <2> QED
    BY <1>3, <2>2, <2>3
<1>5. cutting[c].sound => age[o] > cutting[c].meant
  BY <1>2, <1>4
<1>6. c = "loop" => retain.for > 0 /\ age[o] > retain.for
  BY <1>2, <1>4 DEF ChoreInv
<1> QED
  BY <1>5, <1>6 DEF Retention!Due

\* Only Store.GCOccurrences deletes, by a cutoff somebody held.
LEMMA DeletedIsOld ==
  ASSUME RetentionInv, ChoreInv, [Next]_vars, NEW o \in Occurrences, Retention!Deleted(o)
  PROVE  \E c \in Retention!Callers : Retention!By(c) /\ Retention!Due(c, age[o])
<1>1. age[o] # None /\ age'[o] = None /\ age' # age
  BY DEF Retention!Deleted
<1>2. Retention!Next
  BY <1>1 DEF Next, vars, retention
<1>3. CASE \E q \in Occurrences : Retention!StoreEvent(q)
  BY <1>1, <1>3 DEF Retention!StoreEvent, RetentionInv
<1>4. CASE Retention!Tick
  <2>1. MaxAge \in Nat /\ None \notin 0 .. MaxAge /\ age[o] \in 0 .. MaxAge
    BY <1>1, RetentionAssumption DEF Retention!RetentionAssumption, RetentionInv
  <2>2. age'[o] = IF age[o] \in {None, MaxAge} THEN age[o] ELSE age[o] + 1
    BY <1>4 DEF Retention!Tick
  <2>3. age'[o] \in 0 .. MaxAge
    BY <2>1, <2>2
  <2> QED
    BY <1>1, <2>1, <2>3
<1>5. CASE \E c \in Retention!Callers : Retention!GCOccurrences(c)
  <2>1. PICK c \in Retention!Callers : Retention!GCOccurrences(c)
    BY <1>5
  <2>2. Retention!By(c)
    BY <2>1 DEF Retention!By, Retention!GCOccurrences, RetentionInv
  <2>3. Retention!Old(o, cutting[c].cut)
    BY <1>1, <2>1 DEF Retention!GCOccurrences
  <2> QED
    BY <2>1, <2>2, <2>3, OldIsOlder DEF Retention!By
<1> QED
  <2>1. ~UNCHANGED age
    BY <1>1
  <2> QED
    BY <1>2, <1>3, <1>4, <1>5, <2>1 DEF Retention!Next, Retention!RunGC, Retention!Ask, Retention!HandleGC,
      Retention!GcOccurrences, Retention!Panic, Retention!Fail, Retention!Restart

\* Whoever deletes, on whatever clock, across the delays of the request and of
\* the database and the rounding of both instants, an occurrence goes only when
\* it is older than the duration that was asked for, as far as that can be
\* represented, and than the one the chore understands, which is never nothing.
THEOREM OnlyOldAlwaysDeleted == Spec => OnlyOldDeleted
<1> DEFINE Rightly ==
             \A o \in Occurrences : Retention!Deleted(o) =>
               \E c \in Retention!Callers : Retention!By(c) /\ Retention!Due(c, age[o])
<1>1. Init => RetentionInv /\ ChoreInv
  BY RetentionInitially DEF Init, Retention!Init, ChoreInv, Retention!Callers
<1>2. RetentionInv /\ ChoreInv /\ [Next]_vars => (RetentionInv /\ ChoreInv)'
  BY RetentionKept, ChoreKept
<1>3. RetentionInv /\ ChoreInv /\ [Next]_vars => [Rightly]_Retention!vars
  BY DeletedIsOld
<1> QED
  BY <1>1, <1>2, <1>3, PTL DEF Spec, OnlyOldDeleted, Retention!OnlyOldDeleted
-----------------------------------------------------------------------------
(* Strings                                                                 *)

\* The instance counts as this module does.
LEMMA SameCount == ASSUME NEW S PROVE Reports!Cardinality(S) = Cardinality(S)
  BY Zenon DEF Reports!Cardinality, Cardinality

\* Of n numbers exactly one has j of them up to it, for every j from 1 to n.
LEMMA RanksExist ==
  ASSUME NEW S \in SUBSET Nat, IsFiniteSet(S), NEW j \in 1 .. Cardinality(S)
  PROVE  \E i \in S : Cardinality({h \in S : h <= i}) = j
<1>. DEFINE n == Cardinality(S)
            UpTo(i) == {h \in S : h <= i}
            rank == [i \in S |-> Cardinality(UpTo(i))]
<1>1. n \in Nat /\ IsFiniteSet(1 .. n) /\ Cardinality(1 .. n) = n
  BY FS_CardinalityType, FS_Interval
<1>2. ASSUME NEW i \in S
      PROVE  IsFiniteSet(UpTo(i)) /\ Cardinality(UpTo(i)) \in 1 .. n
  <2>1. UpTo(i) \in SUBSET S /\ i \in UpTo(i)
    OBVIOUS
  <2>2. IsFiniteSet(UpTo(i)) /\ Cardinality(UpTo(i)) <= n
    BY <2>1, FS_Subset
  <2>3. Cardinality(UpTo(i)) \in Nat /\ Cardinality(UpTo(i)) # 0
    BY <2>1, <2>2, FS_CardinalityType, FS_EmptySet
  <2>. HIDE DEF n, UpTo
  <2>. QED
    BY <1>1, <2>2, <2>3
<1>3. ASSUME NEW i \in S, NEW k \in S, i < k
      PROVE  rank[i] # rank[k]
  <2>1. UpTo(i) \in SUBSET UpTo(k) /\ k \in UpTo(k) /\ k \notin UpTo(i)
    <3>1. i \in Nat /\ k \in Nat /\ \A h \in S : h \in Nat
      OBVIOUS
    <3>2. \A h \in S : h <= i => h <= k
      BY <1>3, <3>1
    <3>3. UpTo(i) \in SUBSET UpTo(k)
      BY <3>2, Zenon
    <3>4. k <= k /\ ~(k <= i)
      BY <1>3, <3>1
    <3>. QED
      BY <3>3, <3>4, Zenon
  <2>2. IsFiniteSet(UpTo(k))
    BY <1>2
  <2>. HIDE DEF UpTo
  <2>. QED
    BY <2>1, <2>2, FS_Subset
<1>4. rank \in [S -> 1 .. n]
  BY <1>2
<1>. HIDE DEF n, rank
<1>5. \A i, k \in S : rank[i] = rank[k] => i = k
  <2>. SUFFICES ASSUME NEW i \in S, NEW k \in S, rank[i] = rank[k], i # k PROVE FALSE
    OBVIOUS
  <2>1. i < k \/ k < i
    OBVIOUS
  <2>. QED
    BY <1>3, <2>1
<1>6. rank \in Injection(S, 1 .. n)
  BY <1>4, <1>5 DEF Injection, IsInjective
<1>7. rank \in Surjection(S, 1 .. n)
  BY <1>1, <1>6, FS_Injection DEF n
<1>8. PICK i \in S : rank[i] = j
  BY <1>7 DEF Surjection, n
<1>. QED
  BY <1>8 DEF rank

\* A finite set of numbers has a smallest one.
LEMMA SmallestExists ==
  ASSUME NEW S \in SUBSET Nat, IsFiniteSet(S), S # {}
  PROVE  \E i \in S : \A j \in S : i <= j
<1>1. Cardinality(S) \in Nat /\ Cardinality(S) # 0
  BY FS_CardinalityType, FS_EmptySet
<1>2. 1 \in 1 .. Cardinality(S)
  BY <1>1
<1>3. PICK i \in S : Cardinality({h \in S : h <= i}) = 1
  BY <1>2, RanksExist
<1>4. {h \in S : h <= i} \in SUBSET S
  OBVIOUS
<1>5. IsFiniteSet({h \in S : h <= i})
  BY <1>4, FS_Subset
<1>6. PICK x : {h \in S : h <= i} = {x}
  BY <1>3, <1>5, FS_Singleton
<1>7. ASSUME NEW j \in S, ~(i <= j) PROVE FALSE
  <2>1. j <= i /\ i <= i /\ i # j
    BY <1>7
  <2>2. j \in {h \in S : h <= i} /\ i \in {h \in S : h <= i}
    BY <2>1
  <2>. QED
    BY <1>6, <2>1, <2>2
<1>. QED
  BY <1>7

\* Cutting keeps the front: all of what fits, and nothing but of nothing.
LEMMA CutProperties ==
  ASSUME NEW S, NEW s \in Seq(S), NEW n \in Nat \ {0}
  PROVE  /\ Reports!Cut(s, n) \in Seq(S)
         /\ Len(s) <= n => Reports!Cut(s, n) = s
         /\ Len(s) > n => Len(Reports!Cut(s, n)) = n
         /\ \A i \in 1 .. Len(Reports!Cut(s, n)) : Reports!Cut(s, n)[i] = s[i]
         /\ Reports!Cut(s, n) = <<>> <=> s = <<>>
         /\ Len(Reports!Cut(s, n)) <= Len(s)
<1>. DEFINE m == IF Len(s) < n THEN Len(s) ELSE n
<1>1. Len(s) \in Nat /\ m \in 0 .. Len(s) /\ m \in Int /\ (Len(s) <= n => m = Len(s)) /\ (Len(s) > n => m = n)
      /\ (m = 0 => Len(s) = 0)
  BY LenProperties
<1>. HIDE DEF m
<1>2. \A i \in 1 .. m : s[i] \in S
  BY <1>1, ElementOfSeq
<1>3. Reports!Cut(s, n) = SubSeq(s, 1, m)
  BY DEF Reports!Cut, m
<1>4. /\ SubSeq(s, 1, m) \in Seq(S)
      /\ Len(SubSeq(s, 1, m)) = IF 1 <= m THEN m - 1 + 1 ELSE 0
      /\ \A i \in 1 .. m - 1 + 1 : SubSeq(s, 1, m)[i] = s[1 + i - 1]
  BY <1>1, <1>2, SubSeqProperties
<1>5. Len(SubSeq(s, 1, m)) = m
  BY <1>1, <1>4
<1>6. ASSUME NEW i \in 1 .. m PROVE SubSeq(s, 1, m)[i] = s[i]
  BY <1>1, <1>4
<1>7. Len(s) <= n => SubSeq(s, 1, m) = s
  BY <1>1, SubSeqFull
<1>8. SubSeq(s, 1, m) = <<>> <=> s = <<>>
  BY <1>1, <1>4, <1>5, EmptySeq
<1>. QED
  BY <1>1, <1>3, <1>4, <1>5, <1>6, <1>7, <1>8

\* stripCRLF returns a string without line breaks.
LEMMA StrippedOfBreaks ==
  ASSUME NEW s \in Reports!String
  PROVE  /\ Reports!StripCRLF(s) \in Reports!String
         /\ \A j \in DOMAIN Reports!StripCRLF(s) : Reports!StripCRLF(s)[j] # "\n"
<1>. DEFINE kept == {i \in DOMAIN s : s[i] # "\n"}
            n == Cardinality(kept)
            Place(j) == CHOOSE i \in kept : Cardinality({h \in kept : h <= i}) = j
<1>1. Len(s) \in Nat /\ DOMAIN s = 1 .. Len(s) /\ s \in [1 .. Len(s) -> Characters]
  BY LenProperties DEF Reports!String
<1>2. IsFiniteSet(kept) /\ kept \in SUBSET Nat
  <2>1. IsFiniteSet(1 .. Len(s)) /\ kept \in SUBSET (1 .. Len(s))
    BY <1>1, FS_Interval
  <2>. QED
    BY <1>1, <2>1, FS_Subset
<1>3. n \in Nat
  BY <1>2, FS_CardinalityType
<1>4. Reports!StripCRLF(s) = [j \in 1 .. n |-> s[Place(j)]]
  BY Zenon DEF Reports!StripCRLF, Reports!Cardinality, Cardinality
<1>5. \A j \in 1 .. n : Place(j) \in kept
  BY <1>2, RanksExist
<1>. HIDE DEF n, Place
<1>6. \A j \in 1 .. n : s[Place(j)] \in Characters /\ s[Place(j)] # "\n"
  BY <1>1, <1>5
<1>7. [j \in 1 .. n |-> s[Place(j)]] \in Seq(Characters)
  BY <1>3, <1>6
<1>. QED
  BY <1>4, <1>6, <1>7 DEF Reports!String

-----------------------------------------------------------------------------
(* Sanitizing                                                              *)

\* The limits allow something to be kept.
LEMMA Limits ==
  /\ MaxText \in Nat \ {0} /\ MaxFrames \in Nat \ {0} /\ MaxValues \in Nat \ {0}
  /\ MaxReports \in Nat
  BY ReportsAssumption DEF Reports!ReportsAssumption

\* A frame is one after Sanitize.
LEMMA FrameSanitized ==
  ASSUME NEW f \in Reports!Frame
  PROVE  Reports!SanitizedFrame(f) \in Reports!Frame
<1>1. f.file \in Reports!String /\ f.func \in Reports!String /\ f.line \in Reports!String
  BY DEF Reports!Frame
<1>2. Reports!Cut(f.file, MaxText) \in Reports!String /\ Reports!Cut(f.func, MaxText) \in Reports!String
  BY <1>1, Limits, CutProperties DEF Reports!String
<1> QED
  BY <1>1, <1>2 DEF Reports!SanitizedFrame, Reports!Frame

\* An exception is one after Sanitize.
LEMMA ValueSanitized ==
  ASSUME NEW v \in [type: Reports!String, frames: Seq(Reports!Frame)]
  PROVE  Reports!SanitizedValue(v) \in [type: Reports!String, frames: Seq(Reports!Frame)]
<1> DEFINE kept == Reports!Cut(v.frames, MaxFrames)
           frames == [i \in DOMAIN kept |-> Reports!SanitizedFrame(kept[i])]
           type == Reports!Cut(Reports!StripCRLF(v.type), MaxText)
<1>1. v.type \in Reports!String /\ v.frames \in Seq(Reports!Frame)
  OBVIOUS
<1>2. type \in Reports!String
  <2>1. Reports!StripCRLF(v.type) \in Reports!String
    BY <1>1, StrippedOfBreaks
  <2> QED
    BY <2>1, Limits, CutProperties DEF Reports!String
<1>3. kept \in Seq(Reports!Frame)
  BY <1>1, Limits, CutProperties
<1>4. frames \in Seq(Reports!Frame)
  <2> HIDE DEF kept
  <2>1. Len(kept) \in Nat /\ DOMAIN kept = 1 .. Len(kept) /\ \A i \in DOMAIN kept : kept[i] \in Reports!Frame
    BY <1>3, LenProperties, ElementOfSeq
  <2>2. \A i \in 1 .. Len(kept) : Reports!SanitizedFrame(kept[i]) \in Reports!Frame
    BY <2>1, FrameSanitized
  <2> QED
    BY <2>1, <2>2
<1>5. Reports!SanitizedValue(v) = [type |-> type, frames |-> frames]
  BY DEF Reports!SanitizedValue
<1> HIDE DEF type, frames
<1> QED
  BY <1>2, <1>4, <1>5

\* Sanitize makes no exception of a message and no message of an exception.
LEMMA ValuesSanitized ==
  ASSUME NEW e \in Reports!Event
  PROVE  /\ Reports!Sanitize(e).values = <<>> <=> e.values = <<>>
         /\ e.values # <<>> =>
              Reports!Sanitize(e).values[1] \in [type: Reports!String, frames: Seq(Reports!Frame)]
<1> DEFINE V == [type: Reports!String, frames: Seq(Reports!Frame)]
           kept == Reports!Cut(e.values, MaxValues)
           values == [i \in DOMAIN kept |-> Reports!SanitizedValue(kept[i])]
<1>1. e.values \in Seq(V)
  BY DEF Reports!Event
<1>2. Reports!Sanitize(e).values = values
  BY DEF Reports!Sanitize
<1>3. kept \in Seq(V) /\ (kept = <<>> <=> e.values = <<>>)
  <2> HIDE DEF V
  <2>1. MaxValues \in Nat \ {0}
    BY Limits
  <2>2. PICK vs \in Seq(V) : vs = e.values
    BY <1>1
  <2>3. Reports!Cut(vs, MaxValues) \in Seq(V) /\ (Reports!Cut(vs, MaxValues) = <<>> <=> vs = <<>>)
    BY <2>1, CutProperties
  <2> QED
    BY <2>2, <2>3
<1> HIDE DEF kept
<1>4. /\ Len(kept) \in Nat /\ DOMAIN kept = 1 .. Len(kept) /\ \A i \in DOMAIN kept : kept[i] \in V
      /\ kept # <<>> => Len(kept) # 0
      /\ Len(<<>>) = 0
  BY <1>3, LenProperties, ElementOfSeq, EmptySeq
<1>5. values \in Seq(V) /\ Len(values) = Len(kept)
  <2>1. \A i \in 1 .. Len(kept) : Reports!SanitizedValue(kept[i]) \in V
    BY <1>4, ValueSanitized
  <2> HIDE DEF V
  <2> QED
    BY <1>4, <2>1
<1> HIDE DEF values, V
<1>6. values = <<>> <=> kept = <<>>
  BY <1>3, <1>4, <1>5, EmptySeq
<1>7. kept # <<>> => values[1] \in V
  BY <1>4, <1>5, ElementOfSeq
<1> QED
  BY <1>2, <1>3, <1>6, <1>7 DEF V

\* What Sanitize makes of the message, the log entry and the level.
LEMMA EntrySanitized ==
  ASSUME NEW e \in Reports!Event
  PROVE  LET z == Reports!Sanitize(e) IN
         /\ z.message = Reports!Cut(e.message, MaxText)
         /\ e.entry = None => z.entry = None
         /\ e.entry # None =>
              /\ z.entry # None
              /\ z.entry.formatted = Reports!Cut(e.entry.formatted, MaxText)
              /\ z.entry.message = Reports!Cut(e.entry.message, MaxText)
         /\ z.level = Reports!SanitizedLevel(e.level)
<1>1. e.entry # None => e.entry.formatted \in Reports!String /\ e.entry.message \in Reports!String
  BY DEF Reports!Event
<1>2. e.entry # None =>
        [formatted |-> Reports!Cut(e.entry.formatted, MaxText), message |-> Reports!Cut(e.entry.message, MaxText)] # None
  <2>1. SUFFICES ASSUME e.entry # None
                 PROVE  [formatted |-> Reports!Cut(e.entry.formatted, MaxText), message |-> Reports!Cut(e.entry.message, MaxText)]
                          \in [formatted: Reports!String, message: Reports!String]
    BY ReportsAssumption DEF Reports!ReportsAssumption
  <2>2. Reports!Cut(e.entry.formatted, MaxText) \in Reports!String /\ Reports!Cut(e.entry.message, MaxText) \in Reports!String
    BY <1>1, <2>1, Limits, CutProperties DEF Reports!String
  <2> QED
    BY <2>2
<1> QED
  BY <1>2 DEF Reports!Sanitize, Reports!SanitizedEntry

\* Cutting does not change which text a message is worded by.
LEMMA WordingSanitized ==
  ASSUME NEW e \in Reports!Event
  PROVE  /\ Reports!Wording(e) \in Reports!String
         /\ Reports!Wording(Reports!Sanitize(e)) = Reports!Cut(Reports!Wording(e), MaxText)
<1> DEFINE z == Reports!Sanitize(e)
<1>1. /\ e.message \in Reports!String
      /\ e.entry # None => e.entry.formatted \in Reports!String /\ e.entry.message \in Reports!String
  BY DEF Reports!Event
<1>2. \A s \in Reports!String : Reports!Cut(s, MaxText) = <<>> <=> s = <<>>
  BY Limits, CutProperties DEF Reports!String
<1>3. /\ z.message = Reports!Cut(e.message, MaxText)
      /\ e.entry = None => z.entry = None
      /\ e.entry # None =>
           /\ z.entry # None
           /\ z.entry.formatted = Reports!Cut(e.entry.formatted, MaxText)
           /\ z.entry.message = Reports!Cut(e.entry.message, MaxText)
  BY EntrySanitized
<1> HIDE DEF z
<1>4. Reports!Wording(z) = Reports!Cut(Reports!Wording(e), MaxText)
  BY <1>1, <1>2, <1>3 DEF Reports!Wording, Reports!MessageText
<1>5. Reports!Wording(e) \in Reports!String
  BY <1>1 DEF Reports!Wording, Reports!MessageText
<1> QED
  BY <1>4, <1>5 DEF z

\* The level that is stored is a valid one.
LEMMA LevelSanitized ==
  ASSUME NEW e \in Reports!Event
  PROVE  Reports!EffectiveLevel(Reports!Sanitize(e)) \in Levels
<1>1. Reports!Sanitize(e).level = Reports!SanitizedLevel(e.level)
  BY EntrySanitized
<1> QED
  BY <1>1, ReportsAssumption DEF Reports!ReportsAssumption, Reports!EffectiveLevel, Reports!SanitizedLevel

-----------------------------------------------------------------------------
(* Groups                                                                  *)

\* What is stored is what StoreEvent makes of what came.
StoredInv == \A s \in stored : s.came \in Reports!Event /\ s = Reports!Stored(s.came)

\* The group of an exception follows from its row.
LEMMA GroupOfException ==
  ASSUME StoredInv, NEW s \in stored, s.came.values # <<>>
  PROVE  /\ s.row.type \in Reports!String
         /\ s.row.frame \in Reports!Frame \cup {None}
         /\ s.fingerprint = s.row.type \o Reports!Location(s.row.frame)
<1> DEFINE z == Reports!Sanitize(s.came)
           v == z.values[1]
<1>1. s.came \in Reports!Event /\ s = Reports!Stored(s.came)
  BY DEF StoredInv
<1>2. z.values # <<>> /\ v.type \in Reports!String /\ v.frames \in Seq(Reports!Frame)
  BY <1>1, ValuesSanitized
<1>3. s.row = Reports!Row(z) /\ s.fingerprint = Reports!Fingerprint(z)
  <2>1. PICK e : e = s.came
    OBVIOUS
  <2>2. s = [came |-> e, row |-> Reports!Row(Reports!Sanitize(e)),
             fingerprint |-> Reports!Fingerprint(Reports!Sanitize(e))]
    BY <1>1, <2>1 DEF Reports!Stored
  <2> QED
    BY <2>1, <2>2
<1> HIDE DEF z
<1>4. s.row.type = v.type /\ s.row.frame = Reports!TopFrame(v.frames)
  BY <1>2, <1>3 DEF Reports!Row
<1>5. s.fingerprint = v.type \o Reports!Location(Reports!TopFrame(v.frames))
  BY <1>2, <1>3 DEF Reports!Fingerprint
<1> HIDE DEF v
<1>6. Reports!TopFrame(v.frames) \in Reports!Frame \cup {None}
  BY <1>2, LenProperties, EmptySeq, ElementOfSeq DEF Reports!TopFrame
<1> QED
  BY <1>2, <1>4, <1>5, <1>6

\* The group of a message follows from its wording as it is cut, and without a
\* template from its row.
LEMMA GroupOfMessage ==
  ASSUME StoredInv, NEW s \in stored, s.came.values = <<>>
  PROVE  /\ Reports!Wording(s.came) \in Reports!String
         /\ s.fingerprint =
              <<"message:">> \o Reports!StripLogPrefix(Reports!Cut(Reports!Wording(s.came), MaxText))
         /\ ~Reports!Templated(s) => s.fingerprint = <<"message:">> \o s.row.text
<1> DEFINE z == Reports!Sanitize(s.came)
<1>1. s.came \in Reports!Event /\ s = Reports!Stored(s.came)
  BY DEF StoredInv
<1>2. z.values = <<>>
  BY <1>1, ValuesSanitized
<1>3. s.row = Reports!Row(z) /\ s.fingerprint = Reports!Fingerprint(z)
  <2>1. PICK e : e = s.came
    OBVIOUS
  <2>2. s = [came |-> e, row |-> Reports!Row(Reports!Sanitize(e)),
             fingerprint |-> Reports!Fingerprint(Reports!Sanitize(e))]
    BY <1>1, <2>1 DEF Reports!Stored
  <2> QED
    BY <2>1, <2>2
<1>4. /\ Reports!Wording(s.came) \in Reports!String
      /\ Reports!Wording(z) = Reports!Cut(Reports!Wording(s.came), MaxText)
  BY <1>1, WordingSanitized
<1>5. ~Reports!Templated(s) => Reports!Wording(z) = Reports!MessageText(z)
  <2>1. SUFFICES ASSUME ~Reports!Templated(s), s.came.entry # None
                 PROVE  z.entry.message = <<>>
    BY <1>1, EntrySanitized DEF Reports!Wording
  <2>2. s.came.entry.message = <<>> /\ s.came.entry.message \in Reports!String
    BY <1>1, <2>1 DEF Reports!Templated, Reports!Event
  <2>3. z.entry.message = Reports!Cut(s.came.entry.message, MaxText)
    BY <1>1, <2>1, EntrySanitized
  <2>4. PICK text \in Seq(Characters) : text = s.came.entry.message
    BY <2>2 DEF Reports!String
  <2>5. Reports!Cut(text, MaxText) = <<>> <=> text = <<>>
    BY Limits, CutProperties
  <2> QED
    BY <2>2, <2>3, <2>4, <2>5
<1> HIDE DEF z
<1>6. s.fingerprint = <<"message:">> \o Reports!StripLogPrefix(Reports!Wording(z))
  BY <1>2, <1>3 DEF Reports!Fingerprint, Reports!StableMessageText
<1>7. s.row.text = Reports!StripLogPrefix(Reports!MessageText(z))
  BY <1>2, <1>3 DEF Reports!Row
<1> QED
  BY <1>4, <1>5, <1>6, <1>7

\* Reports of which the same was stored are in the same group.
LEMMA SameRows ==
  ASSUME StoredInv
  PROVE  Reports!SameRowSameGroup
<1>1. ASSUME NEW s \in Reports!Exceptions, NEW t \in Reports!Exceptions,
             s.row.type = t.row.type, s.row.frame = t.row.frame
      PROVE  s.fingerprint = t.fingerprint
  <2>1. s \in stored /\ t \in stored /\ s.came.values # <<>> /\ t.came.values # <<>>
    BY DEF Reports!Exceptions, Reports!IsException
  <2> QED
    BY <1>1, <2>1, GroupOfException
<1>2. ASSUME NEW s \in Reports!Messages, NEW t \in Reports!Messages,
             ~Reports!Templated(s), ~Reports!Templated(t), s.row.text = t.row.text
      PROVE  s.fingerprint = t.fingerprint
  <2>1. s \in stored /\ t \in stored /\ s.came.values = <<>> /\ t.came.values = <<>>
    BY DEF Reports!Messages, Reports!IsException
  <2> QED
    BY <1>2, <2>1, GroupOfMessage
<1> QED
  BY <1>1, <1>2 DEF Reports!SameRowSameGroup

\* Texts alike after the stamp still are when both are cut as much.
LEMMA AlikeWhenCut ==
  ASSUME NEW w \in Reports!String, NEW x \in Reports!String, NEW n \in Nat \ {0},
         Reports!StripLogPrefix(w) = Reports!StripLogPrefix(x),
         Len(w) = Len(x) \/ (Len(w) <= n /\ Len(x) <= n)
  PROVE  Reports!StripLogPrefix(Reports!Cut(w, n)) = Reports!StripLogPrefix(Reports!Cut(x, n))
<1> DEFINE cw == Reports!Cut(w, n)
           cx == Reports!Cut(x, n)
           Stamped(s) == s # <<>> /\ Head(s) \in Stamps
<1>1. /\ w \in Seq(Characters) /\ x \in Seq(Characters) /\ Len(w) \in Nat /\ Len(x) \in Nat
      /\ cw \in Seq(Characters) /\ cx \in Seq(Characters)
      /\ cw = <<>> <=> w = <<>>
      /\ cx = <<>> <=> x = <<>>
  BY CutProperties, LenProperties DEF Reports!String
<1>2. CASE Len(w) <= n /\ Len(x) <= n
  <2>1. cw = w /\ cx = x
    BY <1>1, <1>2, CutProperties
  <2> QED
    BY <2>1
<1>3. CASE Len(w) = Len(x) /\ Len(w) > n
  <2>1. /\ Len(cw) = n /\ Len(cx) = n /\ w # <<>> /\ x # <<>> /\ cw # <<>> /\ cx # <<>>
        /\ \A i \in 1 .. n : cw[i] = w[i]
        /\ \A i \in 1 .. n : cx[i] = x[i]
        /\ 1 \in 1 .. n
    <3>1. Len(cw) = n /\ Len(cx) = n
      BY <1>1, <1>3, CutProperties
    <3>2. /\ \A i \in 1 .. Len(cw) : cw[i] = w[i]
          /\ \A i \in 1 .. Len(cx) : cx[i] = x[i]
      BY <1>1, CutProperties
    <3>3. w # <<>> /\ x # <<>>
      <4>1. Len(w) # 0 /\ Len(x) # 0
        BY <1>1, <1>3
      <4> QED
        BY <4>1, EmptySeq
    <3> HIDE DEF cw, cx
    <3> QED
      BY <1>1, <3>1, <3>2, <3>3
  <2> HIDE DEF cw, cx
  <2>2. Head(cw) = Head(w) /\ Head(cx) = Head(x)
    BY <1>1, <2>1
  <2>3. /\ Tail(w) \in Seq(Characters) /\ Len(Tail(w)) = Len(w) - 1 /\ \A i \in 1 .. Len(w) - 1 : Tail(w)[i] = w[i + 1]
        /\ Tail(x) \in Seq(Characters) /\ Len(Tail(x)) = Len(x) - 1 /\ \A i \in 1 .. Len(x) - 1 : Tail(x)[i] = x[i + 1]
        /\ Tail(cw) \in Seq(Characters) /\ Len(Tail(cw)) = n - 1 /\ \A i \in 1 .. n - 1 : Tail(cw)[i] = cw[i + 1]
        /\ Tail(cx) \in Seq(Characters) /\ Len(Tail(cx)) = n - 1 /\ \A i \in 1 .. n - 1 : Tail(cx)[i] = cx[i + 1]
    BY <1>1, <2>1, HeadTailProperties
  <2>4. Stamped(w) <=> Stamped(x)
    <3>1. Stamped(w) /\ ~Stamped(x) => Tail(w) = x
      BY DEF Reports!StripLogPrefix
    <3>2. ~Stamped(w) /\ Stamped(x) => w = Tail(x)
      BY DEF Reports!StripLogPrefix
    <3>3. Tail(w) # x /\ w # Tail(x)
      BY <1>1, <1>3, <2>3
    <3> QED
      BY <3>1, <3>2, <3>3
  <2>5. CASE Stamped(w)
    <3>1. Tail(w) = Tail(x)
      BY <2>4, <2>5 DEF Reports!StripLogPrefix
    <3>2. \A i \in 1 .. n - 1 : Tail(cw)[i] = Tail(cx)[i]
      <4>1. SUFFICES ASSUME NEW i \in 1 .. n - 1 PROVE Tail(cw)[i] = Tail(cx)[i]
        OBVIOUS
      <4>2. i + 1 \in 1 .. n /\ i \in 1 .. Len(w) - 1 /\ i \in 1 .. Len(x) - 1
        BY <1>1, <1>3
      <4>3. Tail(cw)[i] = w[i + 1] /\ Tail(cx)[i] = x[i + 1]
        BY <2>1, <2>3, <4>2
      <4>4. w[i + 1] = Tail(w)[i] /\ x[i + 1] = Tail(x)[i]
        BY <2>3, <4>2
      <4> QED
        BY <3>1, <4>3, <4>4
    <3>3. Tail(cw) = Tail(cx)
      BY <2>3, <3>2, SeqEqual
    <3> QED
      BY <2>1, <2>2, <2>4, <2>5, <3>3 DEF Reports!StripLogPrefix, cw, cx
  <2>6. CASE ~Stamped(w)
    <3>1. w = x
      BY <2>4, <2>6 DEF Reports!StripLogPrefix
    <3> QED
      BY <3>1
  <2> QED
    BY <2>5, <2>6
<1> QED
  BY <1>1, <1>2, <1>3

\* Messages worded alike are in the same group.
LEMMA SameWordings ==
  ASSUME StoredInv
  PROVE  Reports!SameWordingSameGroup
<1> SUFFICES ASSUME NEW s \in Reports!Messages, NEW t \in Reports!Messages,
                    Reports!StableMessageText(s.came) = Reports!StableMessageText(t.came),
                    Reports!CutAlike(s.came, t.came)
             PROVE  s.fingerprint = t.fingerprint
  BY DEF Reports!SameWordingSameGroup
<1>1. s \in stored /\ t \in stored /\ s.came.values = <<>> /\ t.came.values = <<>>
  BY DEF Reports!Messages, Reports!IsException
<1>2. PICK w \in Reports!String, x \in Reports!String :
        w = Reports!Wording(s.came) /\ x = Reports!Wording(t.came)
  BY <1>1, GroupOfMessage
<1>3. /\ Reports!StripLogPrefix(w) = Reports!StripLogPrefix(x)
      /\ Len(w) = Len(x) \/ (Len(w) <= MaxText /\ Len(x) <= MaxText)
  BY <1>2 DEF Reports!StableMessageText, Reports!CutAlike
<1>4. Reports!StripLogPrefix(Reports!Cut(w, MaxText)) = Reports!StripLogPrefix(Reports!Cut(x, MaxText))
  BY <1>3, Limits, AlikeWhenCut
<1> QED
  BY <1>1, <1>2, <1>4, GroupOfMessage

\* The four strings an exception with a stacktrace is grouped by.
LEMMA PartsOfException ==
  ASSUME StoredInv, NEW s \in stored, s.came.values # <<>>, s.row.frame # None
  PROVE  \E a, b, c, d \in Seq(Characters) :
           /\ Reports!HashedParts(s) = [type |-> a, file |-> b, func |-> c, line |-> d]
           /\ s.fingerprint = a \o ((b \o c) \o d)
<1>1. /\ s.row.type \in Reports!String /\ s.row.frame \in Reports!Frame
      /\ s.fingerprint = s.row.type \o Reports!Location(s.row.frame)
  BY GroupOfException
<1>2. PICK f \in Reports!Frame : f = s.row.frame
  BY <1>1
<1>3. f.file \in Seq(Characters) /\ f.func \in Seq(Characters) /\ f.line \in Seq(Characters)
  BY DEF Reports!Frame, Reports!String
<1>4. Reports!Location(f) = (f.file \o f.func) \o f.line
  BY <1>2 DEF Reports!Location
<1>5. Reports!HashedParts(s) = [type |-> s.row.type, file |-> f.file, func |-> f.func, line |-> f.line]
  BY <1>2 DEF Reports!HashedParts
<1>6. s.fingerprint = s.row.type \o ((f.file \o f.func) \o f.line)
  BY <1>1, <1>2, <1>4
<1>7. s.row.type \in Seq(Characters)
  BY <1>1 DEF Reports!String
<1> QED
  BY <1>3, <1>5, <1>6, <1>7

\* A common front can be taken off.
LEMMA CancelFront ==
  ASSUME NEW x \in Seq(Characters), NEW y \in Seq(Characters), NEW z \in Seq(Characters), z \o x = z \o y
  PROVE  x = y
  BY ConcatSimplifications

\* A common back can be taken off.
LEMMA CancelBack ==
  ASSUME NEW x \in Seq(Characters), NEW y \in Seq(Characters), NEW z \in Seq(Characters), x \o z = y \o z
  PROVE  x = y
  BY ConcatSimplifications

\* Exceptions that differ in one of the four strings are apart, although the
\* strings are hashed without a separator.
LEMMA OneChange ==
  ASSUME StoredInv
  PROVE  Reports!OneChangeSeparates
<1> DEFINE Parts == {"type", "file", "func", "line"}
           Changed(s, t) == {part \in Parts : Reports!HashedParts(s)[part] # Reports!HashedParts(t)[part]}
<1> SUFFICES ASSUME NEW s \in Reports!Exceptions, NEW t \in Reports!Exceptions,
                    s.row.frame # None, t.row.frame # None,
                    Reports!Cardinality(Changed(s, t)) = 1, s.fingerprint = t.fingerprint
             PROVE  FALSE
  BY DEF Reports!OneChangeSeparates
<1>1. s \in stored /\ t \in stored /\ s.came.values # <<>> /\ t.came.values # <<>>
  BY DEF Reports!Exceptions, Reports!IsException
<1>2. PICK a \in Seq(Characters), b \in Seq(Characters), c \in Seq(Characters), d \in Seq(Characters) :
        /\ Reports!HashedParts(s) = [type |-> a, file |-> b, func |-> c, line |-> d]
        /\ s.fingerprint = a \o ((b \o c) \o d)
  BY <1>1, PartsOfException
<1>3. PICK p \in Seq(Characters), q \in Seq(Characters), r \in Seq(Characters), u \in Seq(Characters) :
        /\ Reports!HashedParts(t) = [type |-> p, file |-> q, func |-> r, line |-> u]
        /\ t.fingerprint = p \o ((q \o r) \o u)
  BY <1>1, PartsOfException
<1>4. a \o ((b \o c) \o d) = p \o ((q \o r) \o u)
  BY <1>2, <1>3
<1>5. /\ (b \o c) \in Seq(Characters) /\ (q \o r) \in Seq(Characters)
      /\ ((b \o c) \o d) \in Seq(Characters) /\ ((q \o r) \o u) \in Seq(Characters)
  BY ConcatProperties
<1>6. PICK x : Changed(s, t) = {x}
  <2>1. IsFiniteSet({"type"} \cup {"file"} \cup {"func"} \cup {"line"})
    BY FS_Singleton, FS_Union
  <2>2. Parts = {"type"} \cup {"file"} \cup {"func"} \cup {"line"}
    OBVIOUS
  <2>3. Changed(s, t) \in SUBSET Parts
    OBVIOUS
  <2>4. IsFiniteSet(Changed(s, t))
    BY <2>1, <2>2, <2>3, FS_Subset
  <2>5. Cardinality(Changed(s, t)) = 1
    BY SameCount
  <2> HIDE DEF Changed
  <2> QED
    BY <2>4, <2>5, FS_Singleton
<1>7. /\ "type" \in Changed(s, t) <=> a # p
      /\ "file" \in Changed(s, t) <=> b # q
      /\ "func" \in Changed(s, t) <=> c # r
      /\ "line" \in Changed(s, t) <=> d # u
      /\ x \in Parts
  <2>1. /\ Reports!HashedParts(s)["type"] = a /\ Reports!HashedParts(t)["type"] = p
        /\ Reports!HashedParts(s)["file"] = b /\ Reports!HashedParts(t)["file"] = q
        /\ Reports!HashedParts(s)["func"] = c /\ Reports!HashedParts(t)["func"] = r
        /\ Reports!HashedParts(s)["line"] = d /\ Reports!HashedParts(t)["line"] = u
    BY <1>2, <1>3
  <2>2. x \in Changed(s, t)
    BY <1>6
  <2> QED
    BY <2>1, <2>2
<1> HIDE DEF Changed
<1>8. \/ a # p /\ b = q /\ c = r /\ d = u
      \/ a = p /\ b # q /\ c = r /\ d = u
      \/ a = p /\ b = q /\ c # r /\ d = u
      \/ a = p /\ b = q /\ c = r /\ d # u
  BY <1>6, <1>7
<1>9. CASE a # p /\ b = q /\ c = r /\ d = u
  BY <1>4, <1>5, <1>9, CancelBack
<1>10. CASE a = p /\ b # q /\ c = r /\ d = u
  <2>1. (b \o c) \o d = (q \o r) \o d
    BY <1>4, <1>5, <1>10, CancelFront
  <2>2. b \o c = q \o c
    BY <1>5, <1>10, <2>1, CancelBack
  <2> QED
    BY <1>10, <2>2, CancelBack
<1>11. CASE a = p /\ b = q /\ c # r /\ d = u
  <2>1. (b \o c) \o d = (q \o r) \o d
    BY <1>4, <1>5, <1>11, CancelFront
  <2>2. b \o c = b \o r
    BY <1>5, <1>11, <2>1, CancelBack
  <2> QED
    BY <1>11, <2>2, CancelFront
<1>12. CASE a = p /\ b = q /\ c = r /\ d # u
  <2>1. (b \o c) \o d = (b \o c) \o u
    BY <1>4, <1>5, <1>12, CancelFront
  <2> QED
    BY <1>5, <1>12, <2>1, CancelFront
<1> QED
  BY <1>8, <1>9, <1>10, <1>11, <1>12

-----------------------------------------------------------------------------
(* Envelopes                                                               *)

\* The first event of an envelope is one of its lines.
LEMMA FirstItem ==
  ASSUME NEW lines, Len(lines) \in Nat, Reports!EventItems(lines) # {}
  PROVE  /\ Reports!FirstOf(Reports!EventItems(lines)) \in Reports!EventItems(lines)
         /\ Reports!FirstOf(Reports!EventItems(lines)) \in 1 .. Len(lines) - 1
         /\ \A i \in Reports!EventItems(lines) : Reports!FirstOf(Reports!EventItems(lines)) <= i
<1> DEFINE S == Reports!EventItems(lines)
<1>1. S \in SUBSET (1 .. Len(lines) - 1)
  BY DEF Reports!EventItems, Reports!Items
<1>2. IsFiniteSet(1 .. Len(lines) - 1)
  BY FS_Interval
<1>3. IsFiniteSet(S) /\ S \in SUBSET Nat
  BY <1>1, <1>2, FS_Subset
<1> HIDE DEF S
<1>4. \E i \in S : \A j \in S : i <= j
  BY <1>3, SmallestExists DEF S
<1>5. Reports!FirstOf(S) \in S /\ \A i \in S : Reports!FirstOf(S) <= i
  BY <1>4 DEF Reports!FirstOf
<1> QED
  BY <1>1, <1>5 DEF S

\* A line decodes to an event or to nothing.
LEMMA ReportOfLine ==
  ASSUME NEW line \in Reports!Line
  PROVE  /\ Reports!Report(line) \in Reports!Event \cup {None}
         /\ line.is = "report" => Reports!Report(line) = line.report
<1>1. /\ line.is \in {"report", "event header", "other header", "text", "blank"}
      /\ line.is = "report" => line.report \in Reports!Event
  BY DEF Reports!Line
<1>2. Reports!NothingSaid \in Reports!Event
  <2>1. <<>> \in Reports!String /\ <<>> \in Seq([type: Reports!String, frames: Seq(Reports!Frame)])
    BY EmptySeq DEF Reports!String
  <2> QED
    BY <2>1 DEF Reports!NothingSaid, Reports!Event
<1>3. CASE line.is = "report"
  <2>1. Reports!Report(line) = line.report
    BY <1>3, Zenon DEF Reports!Report
  <2> QED
    BY <1>1, <1>3, <2>1
<1>4. CASE line.is \in {"event header", "other header"}
  <2>1. Reports!Report(line) = Reports!NothingSaid
    BY <1>4 DEF Reports!Report
  <2> QED
    BY <1>2, <1>4, <2>1
<1>5. CASE line.is \in {"text", "blank"}
  <2>1. Reports!Report(line) = None
    BY <1>5 DEF Reports!Report
  <2> QED
    BY <1>5, <2>1
<1> QED
  BY <1>1, <1>3, <1>4, <1>5

\* So does a body.
LEMMA ParsedIsEvent ==
  ASSUME NEW lines \in Seq(Reports!Line)
  PROVE  Reports!Parse(lines) \in Reports!Event \cup {None}
<1>1. Len(lines) \in Nat /\ \A i \in 1 .. Len(lines) : lines[i] \in Reports!Line
  BY LenProperties, ElementOfSeq
<1>2. \A i \in 1 .. Len(lines) : Reports!Report(lines[i]) \in Reports!Event \cup {None}
  BY <1>1, ReportOfLine
<1>3. Reports!ParseEnvelope(lines) \in Reports!Event \cup {None}
  <2>1. CASE Reports!EventItems(lines) = {}
    BY <2>1 DEF Reports!ParseEnvelope
  <2>2. CASE Reports!EventItems(lines) # {}
    <3>1. PICK i \in 1 .. Len(lines) - 1 : i = Reports!FirstOf(Reports!EventItems(lines))
      BY <1>1, <2>2, FirstItem
    <3>2. i + 1 \in 1 .. Len(lines)
      BY <1>1
    <3>3. Reports!ParseEnvelope(lines) = Reports!Report(lines[i + 1])
      BY <2>2, <3>1 DEF Reports!ParseEnvelope
    <3> QED
      BY <1>2, <3>2, <3>3
  <2> QED
    BY <2>1, <2>2
<1>4. Reports!Document(lines) # {} =>
        Reports!Report(lines[CHOOSE i \in Reports!Document(lines) : TRUE]) \in Reports!Event \cup {None}
  <2>1. SUFFICES ASSUME Reports!Document(lines) # {}
                 PROVE  Reports!Report(lines[CHOOSE i \in Reports!Document(lines) : TRUE])
                          \in Reports!Event \cup {None}
    OBVIOUS
  <2>2. (CHOOSE i \in Reports!Document(lines) : TRUE) \in Reports!Document(lines)
    BY <2>1
  <2>3. Reports!Document(lines) \in SUBSET (1 .. Len(lines))
    BY LenProperties DEF Reports!Document
  <2> QED
    BY <1>2, <2>2, <2>3
<1> QED
  BY <1>3, <1>4 DEF Reports!Parse

\* What is read of a body that is cut at the limit is still a sequence of lines:
\* those that fit, and possibly the beginning of another.
LEMMA BodyRead ==
  ASSUME NEW body \in Bodies, NEW lines \in Reports!ReadBody(body)
  PROVE  /\ lines \in Seq(Reports!Line)
         /\ body.fits \in 0 .. Len(body.lines) /\ body.fits \in 0 .. Len(lines)
         /\ \A i \in 1 .. body.fits : lines[i] = body.lines[i]
<1>1. body.lines \in Seq(Reports!Line) /\ body.fits \in 0 .. Len(body.lines)
  BY ReportsAssumption DEF Reports!ReportsAssumption
<1>2. PICK whole, fits : /\ whole = body.lines /\ whole \in Seq(Reports!Line)
                         /\ fits = body.fits /\ fits \in 0 .. Len(whole)
  BY <1>1
<1>3. Len(whole) \in Nat /\ \A i \in 1 .. Len(whole) : whole[i] \in Reports!Line
  BY <1>2, LenProperties, ElementOfSeq
<1>4. CASE fits = Len(whole)
  <2>1. lines = whole
    BY <1>2, <1>4 DEF Reports!ReadBody
  <2> QED
    BY <1>1, <1>2, <1>3, <2>1
<1>5. CASE fits # Len(whole)
  <2>1. PICK beginning \in {"blank", "text"} :
          lines = Append(SubSeq(whole, 1, fits), [is |-> beginning])
    BY <1>2, <1>5 DEF Reports!ReadBody
  <2>2. PICK cut : cut = SubSeq(whole, 1, fits)
    OBVIOUS
  <2>3. 1 \in Int /\ fits \in Int /\ \A i \in 1 .. fits : i \in 1 .. Len(whole)
    BY <1>2, <1>3
  <2>4. \A i \in 1 .. fits : whole[i] \in Reports!Line
    BY <1>3, <2>3
  <2>5. /\ cut \in Seq(Reports!Line) /\ Len(cut) = fits
        /\ \A i \in 1 .. fits : cut[i] = whole[i]
    <3>1. cut \in Seq(Reports!Line) /\ Len(cut) = IF 1 <= fits THEN fits - 1 + 1 ELSE 0
      BY <2>2, <2>3, <2>4, SubSeqProperties
    <3>2. \A i \in 1 .. fits - 1 + 1 : cut[i] = whole[1 + i - 1]
      BY <2>2, <2>3, <2>4, SubSeqProperties
    <3>3. \A i \in 1 .. fits : i \in 1 .. fits - 1 + 1 /\ 1 + i - 1 = i
      BY <2>3
    <3>4. Len(cut) = fits
      BY <1>2, <1>3, <3>1
    <3> QED
      BY <3>1, <3>2, <3>3, <3>4
  <2>6. [is |-> beginning] \in Reports!Line
    BY DEF Reports!Line
  <2>7. /\ lines \in Seq(Reports!Line) /\ Len(lines) = fits + 1
        /\ \A i \in 1 .. fits : lines[i] = cut[i]
    BY <2>1, <2>2, <2>5, <2>6
  <2> QED
    BY <1>1, <1>2, <1>3, <2>5, <2>7
<1> QED
  BY <1>4, <1>5

\* An envelope of which the first event fits is read, whatever items surround
\* that event and whatever follows the limit: the lines at even places are its
\* headers.
LEMMA EnvelopeParsed ==
  ASSUME NEW body \in Bodies, body.items # None, NEW lines0 \in Reports!ReadBody(body),
         NEW j \in DOMAIN body.items, body.items[j] # None, 2 * j + 1 <= body.fits
  PROVE  Reports!Parse(lines0) # None
<1>1. /\ body.lines \in Seq(Reports!Line)
      /\ body.items \in Seq({None} \cup Reports!Event)
      /\ Reports!MadeOf(body.lines, body.items)
  BY ReportsAssumption DEF Reports!ReportsAssumption
<1>2. PICK whole, items, lines, fits :
        /\ whole = body.lines /\ whole \in Seq(Reports!Line)
        /\ items = body.items /\ items \in Seq({None} \cup Reports!Event)
        /\ lines = lines0 /\ lines \in Seq(Reports!Line) /\ fits = body.fits
  BY <1>1, BodyRead
<1>3. /\ fits \in 0 .. Len(whole) /\ fits \in 0 .. Len(lines)
      /\ \A i \in 1 .. fits : lines[i] = whole[i]
  BY <1>2, BodyRead
<1>4. /\ Len(whole) \in Nat /\ Len(lines) \in Nat /\ Len(items) \in Nat
      /\ Len(whole) = 2 * Len(items) + 1 /\ DOMAIN items = 1 .. Len(items)
      /\ \A i \in 1 .. Len(lines) : lines[i] \in Reports!Line
  BY <1>1, <1>2, LenProperties, ElementOfSeq DEF Reports!MadeOf
<1>5. \A i \in DOMAIN items :
        IF items[i] = None THEN whole[2 * i].is = "other header"
        ELSE /\ whole[2 * i].is = "event header"
             /\ whole[2 * i + 1].is = "report" /\ whole[2 * i + 1].report = items[i]
  BY <1>1, <1>2 DEF Reports!MadeOf
<1>6. j \in 1 .. Len(items) /\ items[j] # None /\ 2 * j + 1 <= fits
  BY <1>2, <1>4
<1>7. 2 * j \in Reports!EventItems(lines)
  <2>1. 2 * j \in 1 .. fits /\ 2 * j \in 1 .. Len(lines) - 1 /\ (2 * j) % 2 = 0
    BY <1>3, <1>4, <1>6
  <2>2. lines[2 * j].is = "event header"
    BY <1>3, <1>4, <1>5, <1>6, <2>1
  <2> QED
    BY <2>1, <2>2 DEF Reports!EventItems, Reports!Items
<1>8. PICK k \in Reports!EventItems(lines) :
        k = Reports!FirstOf(Reports!EventItems(lines)) /\ k \in 1 .. Len(lines) - 1 /\ k <= 2 * j
  BY <1>4, <1>7, FirstItem
<1>9. PICK i \in 1 .. Len(items) : k = 2 * i /\ i <= j
  <2>1. k % 2 = 0
    BY <1>8 DEF Reports!EventItems, Reports!Items
  <2>2. k \in 1 .. 2 * j
    BY <1>6, <1>8
  <2>3. k = 2 * (k \div 2) /\ k \div 2 \in 1 .. j
    BY <1>6, <2>1, <2>2
  <2> QED
    BY <1>4, <1>6, <2>3
<1>10. 2 * i \in 1 .. fits /\ 2 * i + 1 \in 1 .. fits /\ 2 * i + 1 \in 1 .. Len(lines)
  BY <1>3, <1>4, <1>6, <1>9
<1>11. items[i] # None
  <2>1. lines[2 * i].is = "event header"
    BY <1>8, <1>9 DEF Reports!EventItems
  <2>2. whole[2 * i].is = "event header"
    BY <1>3, <1>10, <2>1
  <2> QED
    BY <1>4, <1>5, <1>9, <2>2
<1>12. Reports!Report(lines[k + 1]) = items[i]
  <2>1. lines[2 * i + 1] = whole[2 * i + 1]
    BY <1>3, <1>10
  <2>2. lines[2 * i + 1] \in Reports!Line /\ lines[2 * i + 1].is = "report" /\ lines[2 * i + 1].report = items[i]
    BY <1>4, <1>5, <1>9, <1>10, <1>11, <2>1
  <2> QED
    BY <1>9, <2>2, ReportOfLine
<1>13. Reports!ParseEnvelope(lines) = items[i]
  BY <1>7, <1>8, <1>12 DEF Reports!ParseEnvelope
<1> QED
  BY <1>2, <1>11, <1>13 DEF Reports!Parse

\* Only a body that cannot be read is refused.
Handled == [body: Bodies, answer: {"refused", "ignored", "stored", "failed"}]

Unreadable(body) ==
  Reports!Fails(body) \/ \E lines \in Reports!ReadBody(body) : Reports!Parse(lines) = None

HandledInv ==
  /\ handled \in Seq(Handled) /\ Len(handled) <= MaxReports
  /\ \A i \in 1 .. Len(handled) : handled[i].answer = "refused" => Unreadable(handled[i].body)

GroupsInv == StoredInv /\ HandledInv

\* A request stores what was parsed of it or refuses what could not be.
LEMMA ReceiveKeeps ==
  ASSUME GroupsInv, NEW body \in Bodies, Reports!Receive(body)
  PROVE  GroupsInv'
<1>1. PICK lines, report :
        /\ lines \in Reports!ReadBody(body)
        /\ report = IF Reports!Fails(body) THEN None ELSE Reports!Parse(lines)
        /\ \/ /\ report = None /\ UNCHANGED stored
              /\ handled' = Append(handled, [body |-> body, answer |-> "refused"])
           \/ /\ report # None /\ UNCHANGED stored
              /\ \E answer0 \in {"ignored", "failed"} :
                   handled' = Append(handled, [body |-> body, answer |-> answer0])
           \/ /\ report # None /\ stored' = stored \cup {Reports!Stored(report)}
              /\ handled' = Append(handled, [body |-> body, answer |-> "stored"])
  BY DEF Reports!Receive
<1>2. report \in Reports!Event \cup {None} /\ (report = None => Unreadable(body))
  BY <1>1, BodyRead, ParsedIsEvent DEF Unreadable
<1>3. PICK answer0 \in {"refused", "ignored", "stored", "failed"} :
        /\ handled' = Append(handled, [body |-> body, answer |-> answer0])
        /\ answer0 = "refused" => Unreadable(body)
        /\ \/ stored' = stored
           \/ report # None /\ stored' = stored \cup {Reports!Stored(report)}
  BY <1>1, <1>2
<1>4. HandledInv'
  <2>1. handled \in Seq(Handled) /\ Len(handled) \in Nat /\ Len(handled) < MaxReports /\ MaxReports \in Nat
    BY Limits, LenProperties DEF GroupsInv, HandledInv, Reports!Receive
  <2>2. [body |-> body, answer |-> answer0] \in Handled
    BY DEF Handled
  <2>3. /\ handled' \in Seq(Handled) /\ Len(handled') = Len(handled) + 1
        /\ handled'[Len(handled) + 1] = [body |-> body, answer |-> answer0]
        /\ \A i \in 1 .. Len(handled) : handled'[i] = handled[i]
    BY <1>3, <2>1, <2>2
  <2>4. Len(handled') <= MaxReports
    BY <2>1, <2>3
  <2>5. ASSUME NEW i \in 1 .. Len(handled'), handled'[i].answer = "refused"
        PROVE  Unreadable(handled'[i].body)
    <3>1. CASE i = Len(handled) + 1
      BY <1>3, <2>3, <2>5, <3>1
    <3>2. CASE i # Len(handled) + 1
      <4>1. i \in 1 .. Len(handled) /\ handled'[i] = handled[i]
        BY <2>1, <2>3, <2>5, <3>2
      <4> QED
        BY <2>5, <4>1 DEF GroupsInv, HandledInv
    <3> QED
      BY <3>1, <3>2
  <2> QED
    BY <2>3, <2>4, <2>5 DEF HandledInv, Unreadable
<1>5. StoredInv'
  <2>1. CASE stored' = stored
    BY <2>1 DEF GroupsInv, StoredInv
  <2>2. CASE report # None /\ stored' = stored \cup {Reports!Stored(report)}
    <3>1. PICK e \in Reports!Event : e = report
      BY <1>2, <2>2
    <3>2. Reports!Stored(e).came = e
      BY DEF Reports!Stored
    <3>3. stored' = stored \cup {Reports!Stored(e)}
      BY <2>2, <3>1
    <3> QED
      BY <3>2, <3>3 DEF GroupsInv, StoredInv
  <2> QED
    BY <1>3, <2>1, <2>2
<1> QED
  BY <1>4, <1>5 DEF GroupsInv

\* Every step keeps the invariant of the groups.
LEMMA GroupsKept ==
  ASSUME GroupsInv, [Next]_vars
  PROVE  GroupsInv'
<1>1. CASE Reports!Next
  BY <1>1, ReceiveKeeps DEF Reports!Next
<1>2. CASE UNCHANGED reports
  <2>1. handled' = handled /\ stored' = stored
    BY <1>2 DEF reports
  <2> QED
    BY <2>1 DEF GroupsInv, StoredInv, HandledInv
<1> QED
  BY <1>1, <1>2 DEF Next, vars

\* The properties of the groups follow from it.
LEMMA GroupsMatch ==
  ASSUME GroupsInv
  PROVE  GroupsMatchRows
<1>4. /\ DOMAIN handled = 1 .. Len(handled) /\ Len(handled) <= MaxReports
      /\ \A i \in 1 .. Len(handled) : handled[i] \in Handled
      /\ \A i \in 1 .. Len(handled) : handled[i].answer = "refused" => Unreadable(handled[i].body)
  BY LenProperties, ElementOfSeq DEF GroupsInv, HandledInv
<1>1. StoredInv
  BY DEF GroupsInv
<1>2. Reports!TypeOK
  <2>1. \A s \in stored : s.row.level \in Levels
    <3>1. SUFFICES ASSUME NEW s \in stored PROVE s.row.level \in Levels
      OBVIOUS
    <3>2. PICK e \in Reports!Event : s = Reports!Stored(e)
      BY <1>1 DEF StoredInv
    <3>3. s.row.level = Reports!EffectiveLevel(Reports!Sanitize(e))
      BY <3>2 DEF Reports!Stored, Reports!Row
    <3> QED
      BY <3>3, LevelSanitized
  <2>2. /\ Len(handled) <= MaxReports
        /\ \A i \in DOMAIN handled : handled[i].answer \in {"refused", "ignored", "stored", "failed"}
    BY <1>4 DEF Handled
  <2> QED
    BY <2>1, <2>2 DEF Reports!TypeOK
<1>3. Reports!EnvelopeIsRead
  <2>1. SUFFICES ASSUME NEW i \in DOMAIN handled, handled[i].body.items # None,
                        ~Reports!Fails(handled[i].body),
                        NEW j \in DOMAIN handled[i].body.items, handled[i].body.items[j] # None,
                        2 * j + 1 <= handled[i].body.fits,
                        handled[i].answer = "refused"
                 PROVE  FALSE
    BY DEF Reports!EnvelopeIsRead
  <2>2. PICK body \in Bodies : body = handled[i].body /\ Unreadable(body)
    BY <1>4, <2>1 DEF Handled
  <2> QED
    BY <2>1, <2>2, EnvelopeParsed DEF Unreadable
<1> QED
  BY <1>1, <1>2, <1>3, SameRows, SameWordings, OneChange DEF GroupsMatchRows

\* Reports always land in the group they belong to, and a readable envelope is
\* read.
THEOREM GroupsAlwaysMatch == Spec => []GroupsMatchRows
<1>1. Init => GroupsInv
  BY EmptySeq, Limits DEF Init, Reports!Init, GroupsInv, StoredInv, HandledInv
<1>2. GroupsInv /\ [Next]_vars => GroupsInv'
  BY GroupsKept
<1>3. GroupsInv => GroupsMatchRows
  BY GroupsMatch
<1> QED
  BY <1>1, <1>2, <1>3, PTL DEF Spec
=============================================================================
