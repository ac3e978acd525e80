----------------------- MODULE ManagedIdentityRequest -----------------------
(***************************************************************************)
(* How managedidentity.Client gets an answer: New finds the source of the  *)
(* machine in its environment, and getToken sends that source a request,   *)
(* up to three times.  Each attempt has a context of its own, with a limit *)
(* of a minute, under the caller's context, which may end at any time.     *)
(* Without the retry policy, and for the challenge of Azure Arc, there is  *)
(* only the caller's.  The body of a response comes later than its status, *)
(* and only while the context of its attempt lives.                        *)
(*                                                                         *)
(* ManagedIdentity takes all this as one request.                          *)
(***************************************************************************)
EXTENDS Naturals

CONSTANTS
    Statuses        \* the statuses a service may answer with

ASSUME StatusesAssumption == Statuses \subseteq 200..599

Direct   == 0       \* the number of an attempt in the caller's context
MaxTries == 3       \* defaultRetryCount
Tries    == 1..MaxTries
NoStatus == 0

(* The lists of statuses that are tried again.                             *)
retryCodesForIMDS == {404, 410, 429, 500, 501, 502, 503, 504, 505, 506, 507, 508, 510, 511}
retryStatusCodes  == {408, 429, 500, 502, 503, 504}

(* What the machine has: environment variables, and the agent's file.      *)
Envs == [endpoint : BOOLEAN, header : BOOLEAN, thumbprint : BOOLEAN, imds : BOOLEAN,
         msi : BOOLEAN, secret : BOOLEAN, himds : BOOLEAN]
Ids  == {"system", "client", "object", "resource"}
UserAssigned == Ids \ {"system"}

(* What a ClientConfigurer does with augment: how often it calls it, how   *)
(* the last call ended, and what it returns itself.                        *)
Configurings == [calls : 0..2, augmented : BOOLEAN, reports : BOOLEAN]

VARIABLES
    source, id,     \* of the client
    policy,         \* retryPolicyEnabled
    pinned,         \* does its HTTP client check Service Fabric's certificate
    pc,
    ended,          \* has the caller's context ended
    attempt,        \* the last attempt
    ctx,            \* attempt -> its context
    body,           \* attempt -> the body of its response
    status, err     \* what the last attempt brought

clientVars == <<source, id, policy, pinned>>
vars == <<clientVars, pc, ended, attempt, ctx, body, status, err>>

Init ==
    /\ source = "none" /\ id = "system" /\ policy = TRUE /\ pinned = FALSE
    /\ pc = "new"
    /\ ended = FALSE
    /\ attempt = Direct
    /\ ctx = [i \in Tries |-> "none"]
    /\ body = [i \in Tries \cup {Direct} |-> "none"]
    /\ status = NoStatus /\ err = FALSE

-----------------------------------------------------------------------------
(* New.                                                                    *)

isAzureArcEnvironment(env) == (env.endpoint /\ env.imds) \/ env.himds

GetSource(env) ==
    CASE env.endpoint /\ env.header -> IF env.thumbprint THEN "ServiceFabric" ELSE "AppService"
      [] ~(env.endpoint /\ env.header) /\ env.msi ->
            IF env.secret THEN "AzureML" ELSE "CloudShell"
      [] ~(env.endpoint /\ env.header) /\ ~env.msi ->
            IF isAzureArcEnvironment(env) THEN "AzureArc" ELSE "DefaultToIMDS"

(* Which identities New takes for a source.                                *)
Supported(s) ==
    CASE s = "AzureML" -> {"system", "client"}
      [] s \in {"CloudShell", "ServiceFabric"} -> {"system"}
      [] OTHER -> Ids

(* ConfigureClient: one call of augment, which succeeds.  A plain          *)
(* http.Client is like a configurer that calls it once.                    *)
Configured(how) == how.calls = 1 /\ how.augmented /\ ~how.reports

(* augment gives a client that checks the certificate, or fails for want   *)
(* of a thumbprint or of a transport that it can copy.                     *)
Pinned(how) == how.calls > 0 /\ how.augmented

New(env, i, retries, how) ==
    /\ pc = "new"
    /\ i \in Supported(GetSource(env))
    /\ GetSource(env) = "ServiceFabric" => Configured(how)
    /\ source' = GetSource(env) /\ id' = i /\ policy' = retries
    /\ pinned' = (source' = "ServiceFabric" /\ Pinned(how))
    /\ pc' = "client"
    /\ UNCHANGED <<ended, attempt, ctx, body, status, err>>

-----------------------------------------------------------------------------
(* The requests.                                                           *)

(* The parameter that names the identity in the requests to each source:   *)
(* App Service has its own spelling for a resource ID, Azure ML its own    *)
(* for a client ID, which stands for the default identity as well.         *)
createAppServiceAuthRequest(i) ==
    CASE i = "system"   -> "none"
      [] i = "client"   -> "client_id"
      [] i = "object"   -> "object_id"
      [] i = "resource" -> "mi_res_id"

(* Mutated form: App Service's spelling.                                   *)
setParamAsAppService(i) == createAppServiceAuthRequest(i)

setUserAssignedQueryParam(i) ==
    CASE i = "system"   -> "none"
      [] i = "client"   -> "client_id"
      [] i = "object"   -> "object_id"
      [] i = "resource" -> "msi_res_id"

createAzureMLAuthRequest(i) == "clientid"

Selector(s, i) ==
    CASE s = "AppService" -> createAppServiceAuthRequest(i)
      [] s = "AzureML"    -> createAzureMLAuthRequest(i)
      [] s \in {"AzureArc", "DefaultToIMDS"} -> setUserAssignedQueryParam(i)
      [] s \in {"CloudShell", "ServiceFabric"} -> "none"

(* What the endpoints understand (external).                               *)
Honoured(s) ==
    CASE s = "AppService" -> {"client_id", "object_id", "mi_res_id"}
      [] s \in {"DefaultToIMDS", "AzureArc"} -> {"client_id", "object_id", "msi_res_id"}
      [] s = "AzureML" -> {"clientid"}
      [] OTHER -> {}

Return(failed) ==
    /\ pc' = "done"
    /\ err' = failed

(* A call of getToken; the client may be used again.                       *)
Call ==
    /\ pc \in {"client", "done"}
    /\ pc' = IF source = "AzureArc" THEN "challenge" ELSE "request"
    /\ ended' = FALSE
    /\ attempt' = Direct
    /\ ctx' = [i \in Tries |-> "none"]
    /\ body' = [i \in Tries \cup {Direct} |-> "none"]
    /\ status' = NoStatus /\ err' = FALSE
    /\ UNCHANGED clientVars

(* The caller's context ends, and with it those of the attempts.           *)
EndCaller ==
    /\ pc \notin {"new", "client", "done"} /\ ~ended
    /\ ended' = TRUE
    /\ ctx' = [i \in Tries |-> IF ctx[i] = "live" THEN "ended" ELSE ctx[i]]
    /\ UNCHANGED <<clientVars, pc, attempt, body, status, err>>

(* Mutated form: attempts only have the caller's limit.                    *)
NoTimeOut(i) == ctx[i] = "live" /\ ended /\ UNCHANGED vars

(* A minute is over.                                                       *)
TimeOut(i) ==
    /\ ctx[i] = "live"
    /\ ctx' = [ctx EXCEPT ![i] = "ended"]
    /\ UNCHANGED <<clientVars, pc, ended, attempt, body, status, err>>

Over(i) == IF i = Direct THEN ended ELSE ctx[i] # "live"

(* Azure Arc: the body of the challenge is closed unread; the secret may   *)
(* be refused (no realm, not a .key file, wrong directory, too large).     *)
Challenged ==
    /\ pc = "challenge" /\ ~ended
    /\ pc' = "request"
    /\ UNCHANGED <<clientVars, ended, attempt, ctx, body, status, err>>

ChallengeFails ==
    /\ pc = "challenge"
    /\ Return(TRUE)
    /\ UNCHANGED <<clientVars, ended, attempt, ctx, body, status>>

-----------------------------------------------------------------------------
(* retry.                                                                  *)

Cancelled(i) == [ctx EXCEPT ![i] = "cancelled"]

(* A request is sent in a context of its own, or directly.                 *)
Request ==
    /\ pc = "request"
    /\ pc' = IF policy THEN "attempt" ELSE "send"
    /\ UNCHANGED <<clientVars, ended, attempt, ctx, body, status, err>>

Attempt ==
    /\ pc = "attempt"
    /\ attempt' = attempt + 1
    /\ ctx' = [ctx EXCEPT ![attempt'] = IF ended THEN "ended" ELSE "live"]
    /\ pc' = IF attempt > 0 THEN "drain" ELSE "send"
    /\ UNCHANGED <<clientVars, ended, body, status, err>>

(* The attempt before is over only now: its body is read to the end, or to *)
(* an error, and closed, and then its context is cancelled (cancelPrev).   *)
Drain ==
    /\ pc = "drain"
    /\ body' = [body EXCEPT ![attempt - 1] = IF @ = "open" THEN "closed" ELSE @]
    /\ ctx' = Cancelled(attempt - 1)
    /\ pc' = "send"
    /\ UNCHANGED <<clientVars, ended, attempt, status, err>>

LastTry == attempt = MaxTries

RetryList == IF source = "DefaultToIMDS" THEN retryCodesForIMDS ELSE retryStatusCodes

(* Mutated form: only a token ends it.                                     *)
TokenOnly(e, s) == ~e /\ s = 200

Succeeded(e, s) == ~e /\ s \notin RetryList

(* Where the loop goes with the outcome of Do.                             *)
AfterDo(e, s) ==
    /\ err' = e /\ status' = s
    /\ pc' = IF attempt = Direct THEN "reply"
             ELSE IF Succeeded(e, s) \/ LastTry THEN "buffer" ELSE "wait"

Answered(s) ==
    /\ pc = "send" /\ ~Over(attempt)
    /\ body' = [body EXCEPT ![attempt] = "open"]
    /\ AfterDo(FALSE, s)
    /\ UNCHANGED <<clientVars, ended, attempt, ctx>>

(* The transport fails, or the context is over: there is no response.      *)
DoFails ==
    /\ pc = "send"
    /\ AfterDo(TRUE, NoStatus)
    /\ UNCHANGED <<clientVars, ended, attempt, ctx, body>>

(* Mutated form: the context is cancelled and the body left to the caller. *)
Unbuffered(ok) ==
    /\ pc = "buffer" /\ ok
    /\ ctx' = Cancelled(attempt)
    /\ pc' = "reply"
    /\ UNCHANGED <<clientVars, ended, attempt, body, status, err>>

(* bufferResponseBody, then the attempt's context is cancelled.  The body  *)
(* arrives, or it does not: its service fails or the context ends.         *)
Buffer(ok) ==
    /\ pc = "buffer"
    /\ ok => ~Over(attempt)
    /\ IF body[attempt] = "open"
          THEN /\ body' = [body EXCEPT ![attempt] = IF ok THEN "buffered" ELSE "closed"]
               /\ err' = ~ok
          ELSE UNCHANGED <<body, err>>
    /\ ctx' = Cancelled(attempt)
    /\ pc' = "reply"
    /\ UNCHANGED <<clientVars, ended, attempt, status>>

Wake ==
    /\ pc = "wait"
    /\ pc' = "attempt"
    /\ UNCHANGED <<clientVars, ended, attempt, ctx, body, status, err>>

(* The caller does not wait: the body stays open in a cancelled context.   *)
StopWaiting ==
    /\ pc = "wait" /\ ended
    /\ ctx' = Cancelled(attempt)
    /\ err' = TRUE
    /\ pc' = "reply"
    /\ UNCHANGED <<clientVars, ended, attempt, body, status>>

-----------------------------------------------------------------------------
(* getTokenForRequest.                                                     *)

ReplyFails ==
    /\ pc = "reply" /\ err
    /\ Return(TRUE)
    /\ UNCHANGED <<clientVars, ended, attempt, ctx, body, status>>

(* The body is read, if it can be, and closed; with status 200 or 202 it   *)
(* may hold a token.                                                       *)
Read(ok) ==
    /\ pc = "reply" /\ ~err
    /\ ok => body[attempt] = "buffered" \/ ~Over(attempt)
    /\ body' = [body EXCEPT ![attempt] = "closed"]
    /\ \/ Return(TRUE)
       \/ ok /\ status \in {200, 202} /\ Return(FALSE)
    /\ UNCHANGED <<clientVars, ended, attempt, ctx, status>>

-----------------------------------------------------------------------------

(* What needs the service, and may take for ever.                          *)
Service ==
    \/ Challenged \/ ChallengeFails \/ (\E s \in Statuses : Answered(s)) \/ DoFails
    \/ Drain \/ (\E ok \in BOOLEAN : Buffer(ok) \/ Read(ok))

(* What does not: the client goes on by itself, or because a context ended *)
(* or there is nothing to read.                                            *)
Local ==
    \/ Request \/ Attempt \/ Wake \/ StopWaiting \/ ReplyFails
    \/ ended /\ ChallengeFails
    \/ Over(attempt) /\ DoFails
    \/ Over(attempt) /\ (Buffer(FALSE) \/ Read(FALSE))
    \/ body[attempt] # "open" /\ (Buffer(FALSE) \/ \E ok \in BOOLEAN : Read(ok))
    \/ attempt > 1 /\ (body[attempt - 1] # "open" \/ Over(attempt - 1)) /\ Drain

Next ==
    \/ \E env \in Envs, i \in Ids, retries \in BOOLEAN, how \in Configurings :
        New(env, i, retries, how)
    \/ Call \/ EndCaller \/ Service \/ Local
    \/ \E i \in Tries : TimeOut(i)

(* The client runs and its clock goes; nothing is assumed of the service.  *)
Spec ==
    /\ Init /\ [][Next]_vars
    /\ WF_vars(Local) /\ \A i \in Tries : WF_vars(TimeOut(i))

-----------------------------------------------------------------------------
(* Properties.                                                             *)

(* A client is only made for an identity that the requests to its source   *)
(* can name in the source's own terms, so that no endpoint answers for     *)
(* another one; and one for Service Fabric pins the certificate, whatever  *)
(* a configurer does with the errors of augment (managedidentity.go:323).  *)
RightClient ==
    pc # "new" =>
        /\ id \in UserAssigned => Selector(source, id) \in Honoured(source)
        /\ source = "ServiceFabric" => pinned

(* An answer that getTokenForRequest gets from the retry loop can be read  *)
(* though its attempt's context is cancelled (issue 634, as the comment at *)
(* 681-686 says); every context is cancelled by then, and at most the last *)
(* body is not closed; a new attempt starts with the ones before disposed. *)
ResponsesDisposed ==
    LET Disposed(i) == ctx[i] = "cancelled" /\ body[i] # "open"
        Before == {i \in Tries : i < attempt}
    IN  /\ pc = "send" => \A i \in Before : Disposed(i)
        /\ pc = "reply" /\ attempt # Direct =>
            /\ \A i \in Before : Disposed(i)
            /\ ctx[attempt] = "cancelled"
            /\ ~err => body[attempt] = "buffered"

(* No other request is sent once the service has given a final answer: a   *)
(* token (200, 202), or a client error other than those that mean not yet. *)
FinalAnswerIsFinal ==
    [][attempt' > attempt /\ attempt # Direct =>
        err \/ status \in {404, 408, 410, 429} \/ status >= 500]_vars

(* A call with the retry policy ends though no service ever answers, the   *)
(* challenge of Azure Arc apart; without, it ends when its context does.   *)
CallEnds ==
    /\ policy /\ pc = "request" ~> pc = "done"
    /\ ended ~> pc = "done"
=============================================================================
