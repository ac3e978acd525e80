--------------------- MODULE ManagedIdentityRequestProofs ---------------------
(***************************************************************************)
(* Proofs about ManagedIdentityRequest, for every set of statuses that a   *)
(* service may answer with.                                                *)
(*                                                                         *)
(* What New promises of a client (ClientInv) no later step touches.  The   *)
(* retry loop's promise, that attempts before the current one are disposed *)
(* of, is lost between the end of an attempt and the drain that follows    *)
(* the next one's start: LoopInv says for every place of the loop how far  *)
(* the disposal has come.  It has to hold while contexts end at any time.  *)
(***************************************************************************)
EXTENDS ManagedIdentityRequest, TLAPS

Sources == {"ServiceFabric", "AppService", "AzureML", "CloudShell", "AzureArc", "DefaultToIMDS"}
Places  == {"new", "client", "challenge", "request", "attempt", "drain", "send", "wait",
            "buffer", "reply", "done"}

Typed ==
    /\ id \in Ids /\ policy \in BOOLEAN /\ pinned \in BOOLEAN
    /\ pc \in Places /\ ended \in BOOLEAN
    /\ attempt \in Tries \cup {Direct}
    /\ ctx \in [Tries -> {"none", "live", "ended", "cancelled"}]
    /\ body \in [Tries \cup {Direct} -> {"none", "open", "closed", "buffered"}]
    /\ status \in Statuses \cup {NoStatus} /\ err \in BOOLEAN

ClientInv ==
    pc # "new" =>
        /\ source \in Sources
        /\ id \in Supported(source)
        /\ source = "ServiceFabric" => pinned

Disposed(i) == ctx[i] = "cancelled" /\ body[i] # "open"
DisposedBefore(n) == \A i \in Tries : i < n => Disposed(i)

LoopInv ==
    /\ pc \in {"challenge", "request"} => attempt = Direct
    /\ pc \in {"attempt", "send", "wait", "buffer", "reply"} => DisposedBefore(attempt)
    /\ pc = "drain" => attempt > 1 /\ DisposedBefore(attempt - 1)
    /\ pc \in {"attempt", "wait"} => attempt < MaxTries
    /\ pc \in {"wait", "buffer"} => attempt # Direct
    /\ pc = "buffer" => err \/ body[attempt] = "open"
    /\ pc = "reply" /\ attempt # Direct =>
          ctx[attempt] = "cancelled" /\ (err \/ body[attempt] = "buffered")

(* The loop goes on only after an error or a status on its list.           *)
RetriesListed ==
    pc \in {"attempt", "wait"} /\ attempt # Direct => err \/ status \in RetryList

Inv == Typed /\ ClientInv /\ LoopInv /\ RetriesListed

-----------------------------------------------------------------------------
(* New.                                                                    *)

LEMMA InitInv == Init => Inv
BY DEF Init, Inv, Typed, ClientInv, LoopInv, RetriesListed, Ids, Places, Direct

(* Every environment has a source.                                         *)
LEMMA SourceFound == ASSUME NEW env \in Envs PROVE GetSource(env) \in Sources
BY DEF Envs, GetSource, Sources

(* The sources take no identity that their requests cannot name.           *)
LEMMA SupportedIsHonoured ==
    ASSUME NEW s \in Sources, NEW i \in Supported(s) \cap UserAssigned
    PROVE  Selector(s, i) \in Honoured(s)
<1>1. i \in {"client", "object", "resource"}
  BY DEF UserAssigned, Ids
<1>2. CASE s = "AppService"
  BY <1>1, <1>2 DEF Selector, Honoured, createAppServiceAuthRequest
<1>3. CASE s = "AzureML"
  BY <1>1, <1>3 DEF Selector, Honoured, createAzureMLAuthRequest
<1>4. CASE s \in {"AzureArc", "DefaultToIMDS"}
  BY <1>1, <1>4 DEF Selector, Honoured, setUserAssignedQueryParam
<1>5. CASE s \in {"CloudShell", "ServiceFabric"}
  BY <1>1, <1>5 DEF Supported
<1>6. QED
  BY <1>2, <1>3, <1>4, <1>5 DEF Sources

LEMMA NewStep ==
    ASSUME Inv, NEW env \in Envs, NEW i \in Ids, NEW retries \in BOOLEAN,
           NEW how \in Configurings, New(env, i, retries, how)
    PROVE  Inv'
<1>1. source' \in Sources /\ i \in Supported(source')
  BY SourceFound DEF New
<1>2. ASSUME source' = "ServiceFabric" PROVE pinned'
  <2>1. how.calls = 1 /\ how.augmented
    BY <1>2 DEF New, Configured
  <2>2. Pinned(how)
    BY <2>1 DEF Pinned
  <2>3. QED
    BY <1>2, <2>2 DEF New
<1>3. pinned' \in BOOLEAN
  BY DEF New, Pinned, Configurings
<1>4. QED
  BY <1>1, <1>2, <1>3 DEF New, Inv, Typed, ClientInv, LoopInv, RetriesListed, Places

-----------------------------------------------------------------------------
(* The steps of a call.                                                    *)

(* The client stays what New made it.                                      *)
LEMMA ClientStays ==
    ASSUME Inv, UNCHANGED clientVars, pc # "new"
    PROVE  ClientInv'
BY DEF Inv, ClientInv, clientVars, Supported

(* An attempt that is disposed of remains so when contexts end.            *)
LEMMA EndingStep ==
    ASSUME Inv, UNCHANGED <<clientVars, pc, attempt, body, status, err>>, ended' \in BOOLEAN,
           ctx' \in [Tries -> {"none", "live", "ended", "cancelled"}],
           \A i \in Tries : ctx[i] = "cancelled" => ctx'[i] = "cancelled"
    PROVE  Inv'
<1>1. Typed' /\ ClientInv'
  BY DEF Inv, Typed, ClientInv, clientVars, Supported
<1>2. LoopInv'
  BY DEF Inv, Typed, LoopInv, Disposed, DisposedBefore
<1>3. RetriesListed'
  BY DEF Inv, RetriesListed, RetryList, clientVars
<1>4. QED
  BY <1>1, <1>2, <1>3 DEF Inv

Work == Call \/ Service \/ Local

LEMMA WorkStep == ASSUME Inv, Work PROVE Typed' /\ LoopInv' /\ RetriesListed'
<1> DEFINE Goal == Typed' /\ LoopInv' /\ RetriesListed'
<1> USE DEF Inv, Typed, LoopInv, RetriesListed, DisposedBefore, Disposed, Places, clientVars,
            Direct, Tries, MaxTries, NoStatus, RetryList
<1>1. CASE Call
  BY <1>1 DEF Call
<1>2. CASE Challenged \/ ChallengeFails \/ ReplyFails
  BY <1>2 DEF Challenged, ChallengeFails, ReplyFails, Return
<1>3. CASE Request
  BY <1>3 DEF Request
<1>4. CASE Wake
  BY <1>4 DEF Wake
<1>5. CASE Attempt
  BY <1>5 DEF Attempt
<1>6. CASE Drain
  BY <1>6 DEF Drain, Cancelled
<1>7. ASSUME NEW s \in Statuses, Answered(s) PROVE Goal
  <2>1. Typed'
    BY <1>7 DEF Answered, AfterDo
  <2>2. LoopInv'
    BY <1>7 DEF Answered, AfterDo, Succeeded, LastTry
  <2>3. RetriesListed'
    BY <1>7 DEF Answered, AfterDo, Succeeded, LastTry
  <2>4. QED
    BY <2>1, <2>2, <2>3
<1>8. CASE DoFails
  BY <1>8 DEF DoFails, AfterDo, Succeeded, LastTry
<1>9. ASSUME NEW ok \in BOOLEAN, Buffer(ok) PROVE Goal
  BY <1>9 DEF Buffer, Cancelled
<1>10. CASE StopWaiting
  BY <1>10 DEF StopWaiting, Cancelled
<1>11. ASSUME NEW ok \in BOOLEAN, Read(ok) PROVE Goal
  BY <1>11 DEF Read, Return
<1>12. QED
  BY <1>1, <1>2, <1>3, <1>4, <1>5, <1>6, <1>7, <1>8, <1>9, <1>10, <1>11
     DEF Work, Service, Local

LEMMA InvStep == Inv /\ [Next]_vars => Inv'
<1> SUFFICES ASSUME Inv, [Next]_vars PROVE Inv'
  OBVIOUS
<1>1. ASSUME NEW env \in Envs, NEW i \in Ids, NEW retries \in BOOLEAN,
             NEW how \in Configurings, New(env, i, retries, how)
      PROVE  Inv'
  BY <1>1, NewStep
<1>2. CASE Work
  <2>1. UNCHANGED clientVars /\ pc # "new"
    BY <1>2 DEF Work, Service, Local, Call, Challenged, ChallengeFails, Request, Attempt, Drain,
                Answered, DoFails, Buffer, Wake, StopWaiting, ReplyFails, Read
  <2>2. QED
    BY <1>2, <2>1, ClientStays, WorkStep DEF Inv
<1>3. CASE EndCaller
  BY <1>3, EndingStep DEF EndCaller, Inv, Typed
<1>4. ASSUME NEW i \in Tries, TimeOut(i) PROVE Inv'
  BY <1>4, EndingStep DEF TimeOut, Inv, Typed
<1>5. CASE UNCHANGED vars
  BY <1>5, EndingStep DEF vars, Inv, Typed
<1>6. QED
  BY <1>1, <1>2, <1>3, <1>4, <1>5 DEF Next, Work

LEMMA Invariant == Spec => []Inv
BY InitInv, InvStep, PTL DEF Spec

-----------------------------------------------------------------------------

(* A client exists only for an identity that its source's requests can     *)
(* name, and one for Service Fabric pins the certificate (New,             *)
(* managedidentity.go:255-354).                                            *)
THEOREM ClientIsRight == Spec => []RightClient
<1>1. Inv => RightClient
  BY SupportedIsHonoured DEF Inv, ClientInv, RightClient
<1>2. QED
  BY <1>1, Invariant, PTL

(* Whenever contexts end and services answer, an attempt starts with those *)
(* before it disposed of, and the answer that the loop returns is buffered *)
(* (retry, managedidentity.go:651-701).                                    *)
THEOREM AllDisposed == Spec => []ResponsesDisposed
<1>1. Inv => ResponsesDisposed
  BY DEF Inv, LoopInv, ResponsesDisposed, DisposedBefore, Disposed
<1>2. QED
  BY <1>1, Invariant, PTL

(* Another attempt follows only an error or a status that does not decide. *)
THEOREM FinalIsFinal == Spec => FinalAnswerIsFinal
<1> DEFINE Undecided == err \/ status \in {404, 408, 410, 429} \/ status >= 500
<1>1. Inv /\ [Next]_vars => (attempt' > attempt /\ attempt # Direct => Undecided)
  <2> SUFFICES ASSUME Inv, [Next]_vars, attempt' > attempt, attempt # Direct
               PROVE  Undecided
    OBVIOUS
  <2>1. attempt \in 0..MaxTries
    BY DEF Inv, Typed, Tries, Direct, MaxTries
  <2>2. Attempt
    <3>1. attempt' # attempt /\ attempt' # Direct
      BY <2>1 DEF Direct
    <3>2. ~Call /\ ~EndCaller /\ ~Request /\ ~Wake /\ ~StopWaiting /\ ~ReplyFails
      BY <3>1 DEF Call, EndCaller, Request, Wake, StopWaiting, ReplyFails
    <3>3. ~Challenged /\ ~ChallengeFails /\ ~Drain /\ ~DoFails /\ ~UNCHANGED vars
      BY <3>1 DEF Challenged, ChallengeFails, Drain, DoFails, vars
    <3>4. \A ok \in BOOLEAN : ~Buffer(ok) /\ ~Read(ok)
      BY <3>1 DEF Buffer, Read
    <3>5. (\A s \in Statuses : ~Answered(s)) /\ (\A i \in Tries : ~TimeOut(i))
      BY <3>1 DEF Answered, TimeOut
    <3>6. \A env \in Envs, i \in Ids, retries \in BOOLEAN, how \in Configurings :
            ~New(env, i, retries, how)
      BY <3>1 DEF New
    <3>7. QED
      BY <3>2, <3>3, <3>4, <3>5, <3>6 DEF Next, Service, Local
  <2>3. err \/ status \in RetryList
    BY <2>2 DEF Attempt, Inv, RetriesListed
  <2>4. QED
    BY <2>3 DEF RetryList, retryCodesForIMDS, retryStatusCodes
<1>2. QED
  BY <1>1, Invariant, PTL DEF Spec, FinalAnswerIsFinal
=============================================================================
