---------------------------- MODULE PublicFlows ----------------------------
(***************************************************************************)
(* The flows of public.Client that wait for a human.                       *)
(*                                                                         *)
(* Interactive: a loopback server waits on a port for the browser to post  *)
(* the outcome of the login, which then buys a token.  Several requests    *)
(* may come to that port: reloaded pages, pages of an earlier login on the *)
(* same port, and whatever else a browser asks for.  Each is served by a   *)
(* goroutine of its own; one slot takes the first result.                  *)
(*                                                                         *)
(* Device code: the user enters a code elsewhere, while DeviceCode.Token   *)
(* polls the service until it has a token or the code or context expires.  *)
(* A DeviceCode may be polled again, and by several goroutines.            *)
(***************************************************************************)
EXTENDS Comm, FiniteSets

CONSTANTS
    Callers,        \* goroutines that call the client
    NoCaller,
    Ports,          \* loopback ports
    NoPort,
    Logins,         \* login attempts (State values) in use at a time
    None, Empty, Failed,
    Codes,          \* device codes
    MaxRequests     \* bound on the requests that are handled at a time

ASSUME NoneAssumption == NoCaller \notin Callers /\ NoPort \notin Ports
ASSUME LoginsAssumption == {None, Empty, Failed} \cap (Logins \cup Codes) = {}
ASSUME BoundAssumption == MaxRequests \in Nat

(* What comes to a server: a form with a login's code, or what it refuses: *)
(* not a POST, not a form, an error, no code.                              *)
Forms    == {"code", "refused"}
Requests == [form : Forms, state : Logins \cup {None}]

(* A device code as the service knows it.                                  *)
CodeStates == {"none", "pending", "approved", "denied", "redeemed"}

FirstInterval == 50                 \* milliseconds between polls
LastInterval  == 5000

VARIABLES
    pc, ended,      \* where a goroutine is; has its context ended
    server,         \* port -> whose server listens there
    port, login,    \* the server's port and the state it expects
    handling,       \* requests that handlers of the call's server work on
    slot,           \* resultCh: Empty, Failed or the login of a code
    got,            \* what Server.Result returned, until it is used
    first,          \* history: the first result of a handler
    pages,          \* login pages in browsers, with the port they post to
    codes,          \* the service's device codes
    expired,        \* those past ExpiresOn
    polling,        \* the device code the call polls for
    interval,       \* between its polls
    last            \* history: what the service last answered

webVars    == <<server, port, login, handling, slot, got, first, pages>>
deviceVars == <<codes, expired, polling, interval, last>>
vars == <<pc, ended, webVars, deviceVars>>

Init ==
    /\ pc = [c \in Callers |-> "idle"]
    /\ ended = [c \in Callers |-> FALSE]
    /\ server = [p \in Ports |-> NoCaller]
    /\ port = [c \in Callers |-> NoPort]
    /\ login = [c \in Callers |-> None]
    /\ handling = [c \in Callers |-> {}]
    /\ slot = [c \in Callers |-> Empty]
    /\ got = [c \in Callers |-> Empty]
    /\ first = [c \in Callers |-> Empty]
    /\ pages = {}
    /\ codes = [k \in Codes |-> "none"]
    /\ expired = {}
    /\ polling = [c \in Callers |-> None]
    /\ interval = [c \in Callers |-> FirstInterval]
    /\ last = [c \in Callers |-> "none"]

-----------------------------------------------------------------------------
Goto(c, p) == pc' = [pc EXCEPT ![c] = p]

Return(c) ==
    /\ Goto(c, "idle")
    /\ ended' = [ended EXCEPT ![c] = FALSE]

(* The context ends while the call still looks at it.                      *)
Cancel(c) ==
    /\ pc[c] \in {"url", "open", "await", "timer", "poll"} /\ ~ended[c]
    /\ ended' = [ended EXCEPT ![c] = TRUE]
    /\ UNCHANGED <<pc, webVars, deviceVars>>

(* The flows share nothing, so they are not interleaved (a bound).         *)
Interactive == \A k \in Codes : codes[k] = "none"
Device      == pages = {} /\ \A c \in Callers : login[c] = None

-----------------------------------------------------------------------------
(* AcquireTokenInteractive.                                                *)

(* State is a new UUID: nothing that is still around has it.               *)
Fresh(l) ==
    /\ \A c \in Callers : login[c] # l /\ \A r \in handling[c] : r.state # l
    /\ \A page \in pages : page.login # l

(* local.New: the port of the redirect URI, or a free one.  If it cannot   *)
(* listen the call is over.                                                *)
Listen(c, p, l) ==
    /\ pc[c] = "idle" /\ Interactive
    /\ server[p] = NoCaller /\ Fresh(l)
    /\ server' = [server EXCEPT ![p] = c]
    /\ port' = [port EXCEPT ![c] = p]
    /\ login' = [login EXCEPT ![c] = l]
    /\ Goto(c, "url")
    /\ UNCHANGED <<ended, handling, slot, got, first, pages, deviceVars>>

(* Where the call goes with what it has: the deferred Shutdown comes first.*)
Leave(c, r) ==
    /\ got' = [got EXCEPT ![c] = r]
    /\ Goto(c, "shutdown")

(* AuthCodeURL resolves the endpoints.                                     *)
AuthCodeURL(c) ==
    /\ pc[c] = "url"
    /\ \/ ~ended[c] /\ Goto(c, "open") /\ UNCHANGED got
       \/ Leave(c, Failed)
    /\ UNCHANGED <<ended, server, port, login, handling, slot, first, pages, deviceVars>>

(* Mutated form: an error of openURL returns past the Shutdown.            *)
OpenURLUndeferred(c) ==
    /\ pc[c] = "open"
    /\ \/ /\ pages' = pages \cup {[login |-> login[c], port |-> port[c]]}
          /\ Goto(c, "await")
          /\ UNCHANGED ended
       \/ Return(c) /\ UNCHANGED pages
    /\ UNCHANGED <<server, port, login, handling, slot, got, first, deviceVars>>

OpenURL(c) ==
    /\ pc[c] = "open"
    /\ \/ /\ pages' = pages \cup {[login |-> login[c], port |-> port[c]]}
          /\ Goto(c, "await")
          /\ UNCHANGED got
       \/ Leave(c, Failed) /\ UNCHANGED pages
    /\ UNCHANGED <<ended, server, port, login, handling, slot, first, deviceVars>>

ClosePage(page) ==
    /\ pages' = pages \ {page}
    /\ UNCHANGED <<pc, ended, server, port, login, handling, slot, got, first,
                   deviceVars>>

Handled == Cardinality({x \in Callers \X Requests : x[2] \in handling[x[1]]})

(* Requests reach whoever listens.  A page posts the outcome of its login, *)
(* as often as the user reloads it; in others the state does not matter.   *)
Arrive(p, r) ==
    LET c == server[p] IN
    /\ c # NoCaller
    /\ r \notin handling[c] /\ Handled < MaxRequests
    /\ handling' = [handling EXCEPT ![c] = @ \cup {r}]
    /\ UNCHANGED <<pc, ended, server, port, login, slot, got, first, pages, deviceVars>>

Post(page) == Arrive(page.port, [form |-> "code", state |-> page.login])
Stray(p, form) == Arrive(p, [form |-> form, state |-> None])

(* Mutated form: the state is not compared.                                *)
AnyState(c, r) == IF r.form = "code" THEN r.state ELSE Failed

(* handler: what it makes of a request.                                    *)
Outcome(c, r) == IF r.form = "code" /\ r.state = login[c] THEN r.state ELSE Failed

(* Mutated form: a later result takes the place of one not yet read.       *)
PutLast(c, r) ==
    /\ slot' = [slot EXCEPT ![c] = r]
    /\ first' = [first EXCEPT ![c] = IF @ = Empty THEN r ELSE @]

(* putResult: a send that gives up if the channel is full.                 *)
PutResult(c, r) ==
    /\ slot' = [slot EXCEPT ![c] = IF @ = Empty THEN r ELSE @]
    /\ first' = [first EXCEPT ![c] = IF @ = Empty THEN r ELSE @]

Handle(c, r) ==
    /\ r \in handling[c]
    /\ handling' = [handling EXCEPT ![c] = @ \ {r}]
    /\ PutResult(c, Outcome(c, r))
    /\ UNCHANGED <<pc, ended, server, port, login, got, pages, deviceVars>>

(* The goroutine of start: Serve ends by itself.                           *)
ServeFails(p) ==
    LET c == server[p] IN
    /\ c # NoCaller
    /\ server' = [server EXCEPT ![p] = NoCaller]
    /\ PutResult(c, Failed)
    /\ UNCHANGED <<pc, ended, port, login, handling, got, pages, deviceVars>>

(* Server.Result: select between the slot and the end of the context.      *)
TakeResult(c) ==
    /\ pc[c] = "await" /\ slot[c] # Empty
    /\ Leave(c, slot[c])
    /\ slot' = [slot EXCEPT ![c] = Empty]
    /\ first' = [first EXCEPT ![c] = Empty]
    /\ UNCHANGED <<ended, server, port, login, handling, pages, deviceVars>>

(* Mutated form: the context is looked at when a result comes.             *)
StopWaitingOnResult(c) ==
    /\ pc[c] = "await" /\ ended[c] /\ slot[c] # Empty
    /\ Leave(c, Failed)
    /\ UNCHANGED <<ended, server, port, login, handling, slot, first, pages, deviceVars>>

StopWaiting(c) ==
    /\ pc[c] = "await" /\ ended[c]
    /\ Leave(c, Failed)
    /\ UNCHANGED <<ended, server, port, login, handling, slot, first, pages, deviceVars>>

(* Shutdown closes the listener and waits for the handlers.                *)
Shutdown(c) ==
    /\ pc[c] = "shutdown"
    /\ server' = [p \in Ports |-> IF server[p] = c THEN NoCaller ELSE server[p]]
    /\ port' = [port EXCEPT ![c] = NoPort]
    /\ Goto(c, "drain")
    /\ UNCHANGED <<ended, login, handling, slot, got, first, pages, deviceVars>>

Drained(c) ==
    /\ pc[c] = "drain" /\ handling[c] = {}
    /\ slot' = [slot EXCEPT ![c] = Empty]
    /\ first' = [first EXCEPT ![c] = Empty]
    /\ IF got[c] = Failed
          THEN /\ Return(c)
               /\ login' = [login EXCEPT ![c] = None]
               /\ got' = [got EXCEPT ![c] = Empty]
          ELSE Goto(c, "redeem") /\ UNCHANGED <<ended, login, got>>
    /\ UNCHANGED <<server, port, handling, pages, deviceVars>>

(* Token.AuthCode sends the code with the call's own verifier.  The call   *)
(* is over whatever the answer is.                                         *)
Redeem(c) ==
    /\ pc[c] = "redeem"
    /\ Return(c)
    /\ login' = [login EXCEPT ![c] = None]
    /\ got' = [got EXCEPT ![c] = Empty]
    /\ UNCHANGED <<server, port, handling, slot, first, pages, deviceVars>>

-----------------------------------------------------------------------------
(* AcquireTokenByDeviceCode and DeviceCode.AuthenticationResult.           *)

(* Only a code that was given to the caller makes a difference.            *)
DeviceCode(k) ==
    /\ Device /\ codes[k] = "none"
    /\ codes' = [codes EXCEPT ![k] = "pending"]
    /\ UNCHANGED <<pc, ended, webVars, expired, polling, interval, last>>

(* The user's doing, and the clock's.                                      *)
Decide(k) ==
    /\ codes[k] = "pending" /\ k \notin expired
    /\ \E s \in {"approved", "denied"} : codes' = [codes EXCEPT ![k] = s]
    /\ UNCHANGED <<pc, ended, webVars, expired, polling, interval, last>>

Expire(k) ==
    /\ codes[k] # "none" /\ k \notin expired
    /\ expired' = expired \cup {k}
    /\ UNCHANGED <<pc, ended, webVars, codes, polling, interval, last>>

AuthenticationResult(c, k) ==
    /\ pc[c] = "idle"
    /\ codes[k] # "none"
    /\ Goto(c, "timer")
    /\ polling' = [polling EXCEPT ![c] = k]
    /\ interval' = [interval EXCEPT ![c] = FirstInterval]
    /\ last' = [last EXCEPT ![c] = "none"]
    /\ UNCHANGED <<ended, webVars, codes, expired>>

(* The context of the polls ends with the caller's, or with the code.      *)
Over(c) == ended[c] \/ polling[c] \in expired

(* Mutated form: the interval has no limit.                                *)
Tripled(i) == 3 * i

Longer(i) == IF 3 * i > LastInterval THEN LastInterval ELSE 3 * i

Timer(c) ==
    /\ pc[c] = "timer"
    /\ interval' = [interval EXCEPT ![c] = Longer(@)]
    /\ Goto(c, "poll")
    /\ UNCHANGED <<ended, webVars, codes, expired, polling, last>>

StopPolling(c) ==
    /\ pc[c] = "timer" /\ Over(c)
    /\ Return(c)
    /\ UNCHANGED <<webVars, deviceVars>>

Answers(k) ==
    {Reply(400, "slow_down"), Reply(400, "expired_token"), Reply(500, "error"),
     Reply(200, Garbage),
     CASE codes[k] = "pending"  -> Reply(400, "authorization_pending")
       [] codes[k] = "approved" -> Reply(200, "token")
       [] codes[k] = "denied"   -> Reply(400, "access_denied")
       [] codes[k] = "redeemed" -> Reply(400, "invalid_grant")}

(* Mutated form: slow_down is an error like others.                        *)
PendingOnly(reply) ==
    CallErr(reply) /\ reply.status = 400 /\ reply.body = "authorization_pending"

isWaitDeviceCodeErr(reply) ==
    /\ CallErr(reply) /\ reply.status = 400
    /\ reply.body \in {"authorization_pending", "slow_down"}

(* The service redeems an approved code, whether or not its token arrives. *)
Poll(c) ==
    /\ pc[c] = "poll"
    /\ \E reply \in Replies(Over(c), Answers(polling[c])) :
        /\ last' = [last EXCEPT ![c] = reply.body]
        /\ codes' \in IF reply.body = "token" THEN {[codes EXCEPT ![polling[c]] = "redeemed"]}
                     ELSE IF reply = Lost /\ codes[polling[c]] = "approved"
                              /\ polling[c] \notin expired
                         THEN {codes, [codes EXCEPT ![polling[c]] = "redeemed"]}
                     ELSE {codes}
        /\ IF isWaitDeviceCodeErr(reply)
              THEN Goto(c, "timer") /\ UNCHANGED ended
              ELSE Return(c)
    /\ UNCHANGED <<webVars, expired, polling, interval>>

-----------------------------------------------------------------------------

Step(c) ==
    \/ AuthCodeURL(c) \/ OpenURL(c) \/ TakeResult(c) \/ StopWaiting(c)
    \/ Shutdown(c) \/ Drained(c) \/ Redeem(c)
    \/ Timer(c) \/ StopPolling(c) \/ Poll(c)
Handler(c) == \E r \in Requests : Handle(c, r)

Next ==
    \/ \E c \in Callers :
        \/ \E p \in Ports, l \in Logins : Listen(c, p, l)
        \/ \E k \in Codes : AuthenticationResult(c, k)
        \/ Cancel(c) \/ Step(c) \/ Handler(c)
    \/ \E page \in pages : ClosePage(page)
    \/ \E page \in pages : Post(page)
    \/ \E p \in Ports :
        ServeFails(p) \/ \E form \in Forms : Stray(p, form)
    \/ \E k \in Codes : DeviceCode(k) \/ Decide(k) \/ Expire(k)

(* Goroutines run, the handlers' too: requests to the token service end    *)
(* (comm.Client's deadline) and a browser finishes the request it began.   *)
(* Users do as they like.                                                  *)
Spec == Init /\ [][Next]_vars /\ \A c \in Callers : WF_vars(Step(c)) /\ WF_vars(Handler(c))

-----------------------------------------------------------------------------
(* Properties.                                                             *)

Serving == {"url", "open", "await", "shutdown"}
Polling == {"timer", "poll"}
Places  == {"idle", "drain", "redeem"} \cup Serving \cup Polling

(* The type invariant; polls are at most LastInterval apart.               *)
TypeOK ==
    /\ pc \in [Callers -> Places] /\ ended \in [Callers -> BOOLEAN]
    /\ server \in [Ports -> Callers \cup {NoCaller}]
    /\ port \in [Callers -> Ports \cup {NoPort}]
    /\ login \in [Callers -> Logins \cup {None}]
    /\ handling \in [Callers -> SUBSET Requests]
    /\ slot \in [Callers -> Logins \cup {Failed, Empty}]
    /\ got \in [Callers -> Logins \cup {Failed, Empty}]
    /\ first \in [Callers -> Logins \cup {Failed, Empty}]
    /\ pages \subseteq [login : Logins, port : Ports]
    /\ codes \in [Codes -> CodeStates] /\ expired \subseteq Codes
    /\ polling \in [Callers -> Codes \cup {None}]
    /\ \A c \in Callers : interval[c] >= FirstInterval /\ interval[c] <= LastInterval

(* A call goes on only with the code of the login it began itself, though  *)
(* pages of earlier logins post to the port it now listens on.             *)
OwnLogin ==
    \A c \in Callers : pc[c] \in {"shutdown", "drain", "redeem"} => got[c] \in {login[c], Failed}

(* A port is taken only while the call that took it is on its way through  *)
(* browserLogin, and no handler outlives the call: whatever fails, the     *)
(* next call can listen again.                                             *)
PortFreed ==
    \A c \in Callers :
        /\ \A p \in Ports : server[p] = c => pc[c] \in Serving /\ port[c] = p
        /\ handling[c] # {} => pc[c] \in Serving \cup {"drain"}

(* Of all the requests that come to a server the first one counts: what    *)
(* Result returns, unless the context ended, is what that one made.        *)
FirstResultCounts ==
    [][\A c \in Callers :
        pc[c] = "await" /\ pc'[c] = "shutdown" /\ ~ended[c] => got'[c] = first[c]]_vars

(* Polling goes on while the user is undecided, and no longer: it ends only *)
(* if the code or the context has expired or the last answer was final (a  *)
(* user who takes time is waited for, the comment at oauth.go:260-263),    *)
(* and after a refusal there is no other poll.                             *)
PollsWhileUndecided ==
    [][\A c \in Callers :
        LET undecided(l) == l \in {"authorization_pending", "slow_down"}
        IN  /\ pc[c] \in Polling /\ pc'[c] = "idle" => Over(c) \/ ~undecided(last'[c])
            /\ pc[c] = "timer" /\ pc'[c] = "poll" =>
                  last[c] = "none" \/ undecided(last[c])]_vars

(* A call whose context ends, or whose device code does, returns, whatever *)
(* requests its server was sent and whatever became of them.               *)
ContextHonoured ==
    \A c \in Callers :
        pc[c] # "idle" /\ (ended[c] \/ (pc[c] \in Polling /\ Over(c))) ~> pc[c] = "idle"
=============================================================================
