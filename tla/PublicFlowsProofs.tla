-------------------------- MODULE PublicFlowsProofs --------------------------
(***************************************************************************)
(* Proofs about PublicFlows, for every number of goroutines, ports, logins *)
(* in use, device codes and requests at a time.                            *)
(*                                                                         *)
(* The two flows of public.Client share nothing but the place of a call,   *)
(* so each has an invariant of its own: ServerInv and ResultInv follow a   *)
(* login through the loopback server's life, PollInv a device code.  That  *)
(* a call only goes on with its own login is inductive because PutResult   *)
(* compares with the login of the call while a server or a handler of it   *)
(* is left, and because the slot is empty when the next call begins: both  *)
(* are facts about Shutdown and the wait for the handlers.                 *)
(***************************************************************************)
EXTENDS PublicFlows, TLAPS

(* Between listening and the end of the last handler.                      *)
Attended == Serving \cup {"drain"}

(* The intervals are numbers, which TypeOK says by their bounds only.      *)
Typed == TypeOK /\ interval \in [Callers -> Nat]

(* Servers, handlers and results belong to calls that are still attended.  *)
ServerInv ==
    \A c \in Callers :
        /\ pc[c] \in Serving => port[c] \in Ports
        /\ pc[c] \in Attended \cup {"redeem"} => login[c] \in Logins
        /\ pc[c] \notin Attended => slot[c] = Empty

(* The slot has the first result, and a result is the call's own.          *)
ResultInv ==
    \A c \in Callers :
        /\ first[c] = slot[c]
        /\ slot[c] \in {login[c], Failed, Empty}

WebInv == Typed /\ PortFreed /\ ServerInv /\ ResultInv /\ OwnLogin

(* A call that polls does so for a code it was given, and waits for its    *)
(* timer only before the first poll or after an answer that says: not yet. *)
NotYet == {"authorization_pending", "slow_down"}
Bodies == NotYet \cup {"expired_token", "error", Garbage, "token", "access_denied", "invalid_grant"}

PollInv ==
    /\ last \in [Callers -> {"none"} \cup Bodies]
    /\ \A c \in Callers :
        /\ pc[c] \in Polling => polling[c] \in Codes /\ codes[polling[c]] # "none"
        /\ pc[c] = "timer" => last[c] \in {"none"} \cup NotYet

-----------------------------------------------------------------------------
(* Type correctness.                                                       *)

LEMMA InitWeb == Init => WebInv
BY NoneAssumption
   DEF Init, WebInv, Typed, TypeOK, PortFreed, ServerInv, ResultInv, OwnLogin, Places, Serving,
       Attended, FirstInterval, LastInterval, CodeStates

(* The actions of the interactive flow, and the rest, seen from there.     *)
WebStep ==
    \/ \E c \in Callers :
        \/ \E p \in Ports, l \in Logins : Listen(c, p, l)
        \/ \E r \in Requests : Handle(c, r)
        \/ AuthCodeURL(c) \/ OpenURL(c) \/ TakeResult(c) \/ StopWaiting(c)
        \/ Shutdown(c) \/ Drained(c) \/ Redeem(c)
    \/ \E page \in pages : ClosePage(page)
    \/ \E p \in Ports, r \in Requests : Arrive(p, r)
    \/ \E p \in Ports : ServeFails(p)

DeviceStep ==
    \/ \E c \in Callers :
        \/ \E k \in Codes : AuthenticationResult(c, k)
        \/ Timer(c) \/ StopPolling(c) \/ Poll(c)
    \/ \E k \in Codes : DeviceCode(k) \/ Decide(k) \/ Expire(k)

LEMMA Steps ==
    ASSUME Typed, [Next]_vars
    PROVE  WebStep \/ DeviceStep \/ (\E c \in Callers : Cancel(c)) \/ UNCHANGED vars
<1>1. ASSUME NEW page \in pages, Post(page) PROVE \E p \in Ports, r \in Requests : Arrive(p, r)
  <2>1. page.port \in Ports /\ [form |-> "code", state |-> page.login] \in Requests
    BY DEF Typed, TypeOK, Requests, Forms
  <2>2. QED
    BY <1>1, <2>1 DEF Post
<1>2. ASSUME NEW p \in Ports, NEW form \in Forms, Stray(p, form)
      PROVE  \E r \in Requests : Arrive(p, r)
  <2>1. [form |-> form, state |-> None] \in Requests
    BY DEF Requests
  <2>2. QED
    BY <1>2, <2>1 DEF Stray
<1>3. CASE UNCHANGED vars
  BY <1>3
<1>4. CASE \E c \in Callers :
              \/ \E p \in Ports, l \in Logins : Listen(c, p, l)
              \/ \E k \in Codes : AuthenticationResult(c, k)
              \/ Cancel(c) \/ Step(c) \/ Handler(c)
  BY <1>4 DEF Step, Handler, WebStep, DeviceStep
<1>5. CASE \E page \in pages : ClosePage(page)
  BY <1>5 DEF WebStep
<1>6. CASE \E page \in pages : Post(page)
  BY <1>1, <1>6 DEF WebStep
<1>7. CASE \E p \in Ports : ServeFails(p) \/ \E form \in Forms : Stray(p, form)
  BY <1>2, <1>7 DEF WebStep
<1>8. CASE \E k \in Codes : DeviceCode(k) \/ Decide(k) \/ Expire(k)
  BY <1>8 DEF DeviceStep
<1>9. QED
  BY <1>3, <1>4, <1>5, <1>6, <1>7, <1>8 DEF Next

(* What the interactive flow sees of the other one: calls move between     *)
(* idle and its places.                                                    *)
Elsewhere ==
    /\ UNCHANGED webVars
    /\ ended' \in [Callers -> BOOLEAN]
    /\ pc' \in [Callers -> Places]
    /\ \A c \in Callers : pc'[c] # pc[c] => {pc[c], pc'[c]} \subseteq {"idle"} \cup Polling

LEMMA CancelElsewhere ==
    ASSUME Typed, NEW c \in Callers, Cancel(c)
    PROVE  Elsewhere /\ UNCHANGED <<pc, deviceVars>>
BY DEF Typed, TypeOK, Cancel, Elsewhere

LEMMA DeviceElsewhere == ASSUME Typed, DeviceStep PROVE Elsewhere
<1> USE DEF Elsewhere, Typed, TypeOK, Places, Polling, Serving
<1>1. ASSUME NEW c \in Callers, NEW k \in Codes, AuthenticationResult(c, k) PROVE Elsewhere
  BY <1>1 DEF AuthenticationResult, Goto
<1>2. ASSUME NEW c \in Callers, Timer(c) PROVE Elsewhere
  BY <1>2 DEF Timer, Goto
<1>3. ASSUME NEW c \in Callers, StopPolling(c) PROVE Elsewhere
  BY <1>3 DEF StopPolling, Return, Goto
<1>4. ASSUME NEW c \in Callers, Poll(c) PROVE Elsewhere
  <2>1. pc[c] = "poll" /\ UNCHANGED webVars
    BY <1>4 DEF Poll
  <2>2. (Goto(c, "timer") /\ UNCHANGED ended) \/ Return(c)
    BY <1>4 DEF Poll
  <2>3. QED
    BY <2>1, <2>2 DEF Return, Goto
<1>5. ASSUME NEW k \in Codes, DeviceCode(k) \/ Decide(k) \/ Expire(k) PROVE Elsewhere
  BY <1>5 DEF DeviceCode, Decide, Expire
<1>6. QED
  BY <1>1, <1>2, <1>3, <1>4, <1>5 DEF DeviceStep

LEMMA LongerInBounds ==
    ASSUME NEW i \in Nat, i >= FirstInterval
    PROVE  Longer(i) \in Nat /\ Longer(i) >= FirstInterval /\ Longer(i) <= LastInterval
BY DEF Longer, FirstInterval, LastInterval

DeviceTyped ==
    /\ codes \in [Codes -> CodeStates] /\ expired \subseteq Codes
    /\ polling \in [Callers -> Codes \cup {None}]
    /\ interval \in [Callers -> Nat]
    /\ \A c \in Callers : interval[c] >= FirstInterval /\ interval[c] <= LastInterval

LEMMA DeviceTypedStep == ASSUME DeviceTyped, DeviceStep PROVE DeviceTyped'
<1>1. ASSUME NEW c \in Callers, NEW k \in Codes, AuthenticationResult(c, k) PROVE DeviceTyped'
  BY <1>1 DEF AuthenticationResult, DeviceTyped, FirstInterval, LastInterval
<1>2. ASSUME NEW c \in Callers, Timer(c) PROVE DeviceTyped'
  <2>1. interval[c] \in Nat /\ interval[c] >= FirstInterval
    BY DEF DeviceTyped
  <2>2. QED
    BY <1>2, <2>1, LongerInBounds DEF Timer, DeviceTyped
<1>3. ASSUME NEW c \in Callers, StopPolling(c) PROVE DeviceTyped'
  BY <1>3 DEF StopPolling, DeviceTyped, deviceVars
<1>4. ASSUME NEW c \in Callers, Poll(c) PROVE DeviceTyped'
  <2>1. codes' \in {codes, [codes EXCEPT ![polling[c]] = "redeemed"]}
    BY <1>4 DEF Poll
  <2>2. QED
    BY <1>4, <2>1 DEF Poll, DeviceTyped, CodeStates
<1>5. ASSUME NEW k \in Codes, DeviceCode(k) \/ Decide(k) \/ Expire(k) PROVE DeviceTyped'
  BY <1>5 DEF DeviceCode, Decide, Expire, DeviceTyped, CodeStates
<1>6. QED
  BY <1>1, <1>2, <1>3, <1>4, <1>5 DEF DeviceStep

(* The variables of the interactive flow.                                  *)
WebTyped ==
    /\ pc \in [Callers -> Places] /\ ended \in [Callers -> BOOLEAN]
    /\ server \in [Ports -> Callers \cup {NoCaller}]
    /\ port \in [Callers -> Ports \cup {NoPort}]
    /\ login \in [Callers -> Logins \cup {None}]
    /\ handling \in [Callers -> SUBSET Requests]
    /\ slot \in [Callers -> Logins \cup {Failed, Empty}]
    /\ got \in [Callers -> Logins \cup {Failed, Empty}]
    /\ first \in [Callers -> Logins \cup {Failed, Empty}]
    /\ pages \subseteq [login : Logins, port : Ports]

(* A result is a failure or the login that the call waits for, and it only *)
(* comes while the call is attended.                                       *)
LEMMA OutcomeIsOwn ==
    ASSUME NEW c \in Callers, NEW r \in Requests
    PROVE  Outcome(c, r) \in {login[c], Failed}
BY DEF Outcome

LEMMA HandlesAttended ==
    ASSUME WebInv, NEW c \in Callers, NEW r, r \in handling[c]
    PROVE  pc[c] \in Attended /\ login[c] \in Logins
BY DEF WebInv, PortFreed, ServerInv, Attended

LEMMA ServesAttended ==
    ASSUME WebInv, NEW p \in Ports, server[p] # NoCaller
    PROVE  /\ server[p] \in Callers
           /\ pc[server[p]] \in Serving /\ login[server[p]] \in Logins
BY DEF WebInv, Typed, TypeOK, PortFreed, ServerInv, Attended

(* What PutResult leaves: the invariants of slot and first.                *)
SlotInv ==
    /\ slot \in [Callers -> Logins \cup {Failed, Empty}]
    /\ first \in [Callers -> Logins \cup {Failed, Empty}]
    /\ \A c \in Callers : pc[c] \notin Attended => slot[c] = Empty
    /\ ResultInv

LEMMA PutResultKeeps ==
    ASSUME SlotInv, NEW c \in Callers, pc[c] \in Attended, login[c] \in Logins,
           NEW r \in {login[c], Failed}, PutResult(c, r), UNCHANGED <<pc, login>>
    PROVE  SlotInv'
BY DEF SlotInv, ResultInv, PutResult

LEMMA SlotStep == ASSUME WebInv, WebStep PROVE SlotInv'
<1> USE DEF Attended, Serving
<1>0. SlotInv
  BY DEF WebInv, Typed, TypeOK, ServerInv, SlotInv
<1>1. ASSUME NEW c \in Callers, NEW p \in Ports, NEW l \in Logins, Listen(c, p, l) PROVE SlotInv'
  BY <1>0, <1>1 DEF WebInv, Typed, TypeOK, Listen, SlotInv, ResultInv, Goto
<1>2. ASSUME NEW c \in Callers, AuthCodeURL(c) \/ OpenURL(c) \/ StopWaiting(c) \/ Shutdown(c)
      PROVE  SlotInv'
  BY <1>0, <1>2 DEF WebInv, Typed, TypeOK, AuthCodeURL, OpenURL, StopWaiting, Shutdown, Leave, Goto,
                    SlotInv, ResultInv
<1>3. ASSUME NEW c \in Callers, TakeResult(c) PROVE SlotInv'
  BY <1>0, <1>3 DEF WebInv, Typed, TypeOK, TakeResult, Leave, Goto, SlotInv, ResultInv
<1>4. ASSUME NEW c \in Callers, Drained(c) PROVE SlotInv'
  <2>1. /\ slot' = [slot EXCEPT ![c] = Empty] /\ first' = [first EXCEPT ![c] = Empty]
        /\ login' = login \/ login' = [login EXCEPT ![c] = None]
        /\ \A d \in Callers : d # c => pc'[d] = pc[d]
    BY <1>4 DEF Drained, Return, Goto, WebInv, Typed, TypeOK
  <2>2. QED
    BY <1>0, <2>1 DEF WebInv, Typed, TypeOK, SlotInv, ResultInv
<1>5. ASSUME NEW c \in Callers, Redeem(c) PROVE SlotInv'
  BY <1>0, <1>5 DEF WebInv, Typed, TypeOK, Redeem, Return, Goto, SlotInv, ResultInv
<1>6. ASSUME NEW c \in Callers, NEW r \in Requests, Handle(c, r) PROVE SlotInv'
  BY <1>0, <1>6, OutcomeIsOwn, HandlesAttended, PutResultKeeps DEF Handle
<1>7. ASSUME NEW p \in Ports, ServeFails(p) PROVE SlotInv'
  <2>1. server[p] \in Callers /\ pc[server[p]] \in Attended /\ login[server[p]] \in Logins
    BY <1>7, ServesAttended DEF ServeFails
  <2>2. PutResult(server[p], Failed) /\ UNCHANGED <<pc, login>>
    BY <1>7 DEF ServeFails
  <2>3. QED
    BY <1>0, <2>1, <2>2, PutResultKeeps
<1>8. ASSUME UNCHANGED <<pc, login, slot, first>> PROVE SlotInv'
  BY <1>0, <1>8 DEF SlotInv, ResultInv
<1>9. QED
  BY <1>1, <1>2, <1>3, <1>4, <1>5, <1>6, <1>7, <1>8 DEF WebStep, ClosePage, Arrive

LEMMA WebTypedStep == ASSUME WebInv, WebStep PROVE WebTyped'
<1> USE DEF Places, Serving, Polling
<1>0. WebTyped
  BY DEF WebInv, Typed, TypeOK, WebTyped
<1>1. ASSUME NEW c \in Callers, NEW p \in Ports, NEW l \in Logins, Listen(c, p, l) PROVE WebTyped'
  BY <1>0, <1>1 DEF WebTyped, Listen, Goto
<1>2. ASSUME NEW c \in Callers, AuthCodeURL(c) PROVE WebTyped'
  BY <1>0, <1>2 DEF WebTyped, AuthCodeURL, Leave, Goto
<1>3. ASSUME NEW c \in Callers, OpenURL(c) PROVE WebTyped'
  <2>1. login[c] \in Logins /\ port[c] \in Ports
    BY <1>3 DEF OpenURL, WebInv, ServerInv, Attended
  <2>2. QED
    BY <1>0, <1>3, <2>1 DEF WebTyped, OpenURL, Leave, Goto
<1>4. ASSUME NEW c \in Callers, StopWaiting(c) \/ TakeResult(c) PROVE WebTyped'
  BY <1>0, <1>4 DEF WebTyped, StopWaiting, TakeResult, Leave, Goto
<1>5. ASSUME NEW c \in Callers, Shutdown(c) PROVE WebTyped'
  BY <1>0, <1>5 DEF WebTyped, Shutdown, Goto
<1>6. ASSUME NEW c \in Callers, Drained(c) PROVE WebTyped'
  <2>1. CASE got[c] = Failed
    BY <1>0, <1>6, <2>1 DEF WebTyped, Drained, Return, Goto
  <2>2. CASE got[c] # Failed
    BY <1>0, <1>6, <2>2 DEF WebTyped, Drained, Goto
  <2>3. QED
    BY <2>1, <2>2
<1>7. ASSUME NEW c \in Callers, Redeem(c) PROVE WebTyped'
  BY <1>0, <1>7 DEF WebTyped, Redeem, Return, Goto
<1>8. ASSUME NEW c \in Callers, NEW r \in Requests, Handle(c, r) PROVE WebTyped'
  <2>1. SlotInv'
    BY <1>8, SlotStep DEF WebStep
  <2>2. QED
    BY <1>0, <1>8, <2>1 DEF WebTyped, Handle, SlotInv
<1>9. ASSUME NEW p \in Ports, ServeFails(p) PROVE WebTyped'
  <2>1. SlotInv'
    BY <1>9, SlotStep DEF WebStep
  <2>2. QED
    BY <1>0, <1>9, <2>1 DEF WebTyped, ServeFails, SlotInv
<1>10. ASSUME NEW page \in pages, ClosePage(page) PROVE WebTyped'
  BY <1>0, <1>10 DEF WebTyped, ClosePage
<1>11. ASSUME NEW p \in Ports, NEW r \in Requests, Arrive(p, r) PROVE WebTyped'
  BY <1>0, <1>11 DEF WebTyped, Arrive
<1>12. QED
  BY <1>1, <1>2, <1>3, <1>4, <1>5, <1>6, <1>7, <1>8, <1>9, <1>10, <1>11 DEF WebStep

LEMMA TypedStep == ASSUME WebInv, [Next]_vars PROVE Typed'
<1>0. DeviceTyped /\ WebTyped
  BY DEF WebInv, Typed, TypeOK, DeviceTyped, WebTyped
<1>1. CASE WebStep
  <2>1. WebTyped'
    BY <1>1, WebTypedStep
  <2>2. UNCHANGED deviceVars
    BY <1>1 DEF WebStep, Listen, Handle, AuthCodeURL, OpenURL, TakeResult, StopWaiting, Shutdown,
                Drained, Redeem, ClosePage, Arrive, ServeFails, deviceVars
  <2>3. DeviceTyped'
    BY <1>0, <2>2 DEF DeviceTyped, deviceVars
  <2>4. QED
    BY <2>1, <2>3 DEF Typed, TypeOK, DeviceTyped, WebTyped
<1>2. ASSUME Elsewhere, DeviceTyped' PROVE Typed'
  BY <1>0, <1>2 DEF Elsewhere, Typed, TypeOK, DeviceTyped, WebTyped, webVars
<1>3. CASE DeviceStep
  BY <1>0, <1>2, <1>3, DeviceElsewhere, DeviceTypedStep DEF WebInv
<1>4. CASE \E c \in Callers : Cancel(c)
  <2>1. Elsewhere /\ UNCHANGED deviceVars
    BY <1>4, CancelElsewhere DEF WebInv
  <2>2. DeviceTyped'
    BY <1>0, <2>1 DEF DeviceTyped, deviceVars
  <2>3. QED
    BY <1>2, <2>1, <2>2
<1>5. CASE UNCHANGED vars
  BY <1>5 DEF WebInv, Typed, TypeOK, vars, webVars, deviceVars
<1>6. QED
  BY <1>1, <1>3, <1>4, <1>5, Steps DEF WebInv

-----------------------------------------------------------------------------
(* The server, its handlers, and what a call goes on with.                 *)

LEMMA ListenersStep == ASSUME WebInv, WebStep PROVE PortFreed' /\ ServerInv'
<1> USE DEF Attended, Serving, PortFreed, ServerInv
<1>0. PortFreed /\ ServerInv /\ WebTyped
  BY DEF WebInv, Typed, TypeOK, WebTyped
<1>s. \A c \in Callers : pc'[c] \notin Attended => slot'[c] = Empty
  BY SlotStep DEF SlotInv
<1> DEFINE Goal == PortFreed' /\ ServerInv'
<1>1. ASSUME NEW c \in Callers, NEW p \in Ports, NEW l \in Logins, Listen(c, p, l) PROVE Goal
  BY <1>0, <1>1, <1>s, NoneAssumption DEF WebTyped, Listen, Goto
<1>2. ASSUME NEW c \in Callers, AuthCodeURL(c) \/ OpenURL(c) PROVE Goal
  BY <1>0, <1>2, <1>s DEF WebTyped, AuthCodeURL, OpenURL, Leave, Goto
<1>3. ASSUME NEW c \in Callers, StopWaiting(c) \/ TakeResult(c) PROVE Goal
  BY <1>0, <1>3, <1>s DEF WebTyped, StopWaiting, TakeResult, Leave, Goto
<1>4. ASSUME NEW c \in Callers, Shutdown(c) PROVE Goal
  BY <1>0, <1>4, <1>s, NoneAssumption DEF WebTyped, Shutdown, Goto
<1>5. ASSUME NEW c \in Callers, Drained(c) PROVE Goal
  <2>1. \A p \in Ports : server[p] # c
    BY <1>0, <1>5 DEF Drained
  <2>2. CASE got[c] = Failed
    BY <1>0, <1>5, <1>s, <2>1, <2>2 DEF WebTyped, Drained, Return, Goto
  <2>3. CASE got[c] # Failed
    BY <1>0, <1>5, <1>s, <2>1, <2>3 DEF WebTyped, Drained, Goto
  <2>4. QED
    BY <2>2, <2>3
<1>6. ASSUME NEW c \in Callers, Redeem(c) PROVE Goal
  BY <1>0, <1>6, <1>s DEF WebTyped, Redeem, Return, Goto
<1>7. ASSUME NEW c \in Callers, NEW r \in Requests, Handle(c, r) PROVE Goal
  BY <1>0, <1>7, <1>s DEF WebTyped, Handle
<1>8. ASSUME NEW p \in Ports, ServeFails(p) PROVE Goal
  BY <1>0, <1>8, <1>s, NoneAssumption DEF WebTyped, ServeFails
<1>9. ASSUME NEW page \in pages, ClosePage(page) PROVE Goal
  BY <1>0, <1>9, <1>s DEF ClosePage
<1>10. ASSUME NEW p \in Ports, NEW r \in Requests, Arrive(p, r) PROVE Goal
  BY <1>0, <1>10, <1>s DEF WebTyped, Arrive
<1>11. QED
  BY <1>1, <1>2, <1>3, <1>4, <1>5, <1>6, <1>7, <1>8, <1>9, <1>10 DEF WebStep

LEMMA OwnLoginStep == ASSUME WebInv, WebStep PROVE OwnLogin'
<1>0. OwnLogin /\ ResultInv /\ WebTyped
  BY DEF WebInv, Typed, TypeOK, WebTyped
<1> USE DEF OwnLogin, ResultInv
<1>1. ASSUME NEW c \in Callers, NEW p \in Ports, NEW l \in Logins, Listen(c, p, l) PROVE OwnLogin'
  BY <1>0, <1>1 DEF WebTyped, Listen, Goto
<1>2. ASSUME NEW c \in Callers, AuthCodeURL(c) \/ OpenURL(c) \/ StopWaiting(c) PROVE OwnLogin'
  BY <1>0, <1>2 DEF WebTyped, AuthCodeURL, OpenURL, StopWaiting, Leave, Goto
<1>3. ASSUME NEW c \in Callers, TakeResult(c) PROVE OwnLogin'
  BY <1>0, <1>3 DEF WebTyped, TakeResult, Leave, Goto
<1>4. ASSUME NEW c \in Callers, Shutdown(c) PROVE OwnLogin'
  BY <1>0, <1>4 DEF WebTyped, Shutdown, Goto
<1>5. ASSUME NEW c \in Callers, Drained(c) PROVE OwnLogin'
  <2>1. CASE got[c] = Failed
    BY <1>0, <1>5, <2>1 DEF WebTyped, Drained, Return, Goto
  <2>2. CASE got[c] # Failed
    BY <1>0, <1>5, <2>2 DEF WebTyped, Drained, Goto
  <2>3. QED
    BY <2>1, <2>2
<1>6. ASSUME NEW c \in Callers, Redeem(c) PROVE OwnLogin'
  BY <1>0, <1>6 DEF WebTyped, Redeem, Return, Goto
<1>7. ASSUME UNCHANGED <<pc, login, got>> PROVE OwnLogin'
  BY <1>0, <1>7
<1>8. QED
  BY <1>1, <1>2, <1>3, <1>4, <1>5, <1>6, <1>7 DEF WebStep, Handle, ServeFails, ClosePage, Arrive

LEMMA WebInvStep == WebInv /\ [Next]_vars => WebInv'
<1> SUFFICES ASSUME WebInv, [Next]_vars PROVE WebInv'
  OBVIOUS
<1>0. Typed' /\ Typed
  BY TypedStep DEF WebInv
<1>1. CASE WebStep
  BY <1>0, <1>1, SlotStep, ListenersStep, OwnLoginStep DEF WebInv, SlotInv
<1>2. ASSUME Elsewhere PROVE WebInv'
  <2>1. UNCHANGED <<server, port, login, handling, slot, got, first>>
    BY <1>2 DEF Elsewhere, webVars
  <2>2. \A c \in Callers : \/ pc'[c] = pc[c]
                           \/ {pc[c], pc'[c]} \cap (Attended \cup {"redeem"}) = {}
    BY <1>2 DEF Elsewhere, Polling, Attended, Serving
  <2>3. PortFreed' /\ ServerInv'
    BY <2>1, <2>2 DEF WebInv, PortFreed, ServerInv, Attended, Serving
  <2>4. ResultInv' /\ OwnLogin'
    BY <2>1, <2>2 DEF WebInv, ResultInv, OwnLogin, Attended, Serving
  <2>5. QED
    BY <1>0, <2>3, <2>4 DEF WebInv
<1>3. CASE DeviceStep
  BY <1>0, <1>2, <1>3, DeviceElsewhere
<1>4. CASE \E c \in Callers : Cancel(c)
  BY <1>0, <1>2, <1>4, CancelElsewhere
<1>5. CASE UNCHANGED vars
  BY <1>0, <1>5 DEF WebInv, PortFreed, ServerInv, ResultInv, OwnLogin, vars, webVars
<1>6. QED
  BY <1>0, <1>1, <1>3, <1>4, <1>5, Steps

LEMMA WebInvariant == Spec => []WebInv
BY InitWeb, WebInvStep, PTL DEF Spec

(* All variables have their types in every reachable state, whatever       *)
(* requests browsers send; the intervals between polls stay between 50 ms  *)
(* and 5 s (DeviceCode.Token, oauth.go:277-291).                           *)
THEOREM TypeCorrect == Spec => []TypeOK
<1>1. WebInv => TypeOK
  BY DEF WebInv, Typed
<1>2. QED
  BY <1>1, WebInvariant, PTL

(* Every port is free again, and every handler gone, once the call that    *)
(* listened is past browserLogin (public.go:761, the deferred Shutdown).   *)
THEOREM PortsAreFreed == Spec => []PortFreed
<1>1. WebInv => PortFreed
  BY DEF WebInv
<1>2. QED
  BY <1>1, WebInvariant, PTL

(* No call redeems the code of another login than the one it began,        *)
(* whichever pages post to its port (Server.handler compares the state,    *)
(* server.go:183-192).                                                     *)
THEOREM LoginsAreOwn == Spec => []OwnLogin
<1>1. WebInv => OwnLogin
  BY DEF WebInv
<1>2. QED
  BY <1>1, WebInvariant, PTL

(* What Result returns to a call that did not give up is what the first    *)
(* request made (putResult, server.go:148-153).                            *)
THEOREM FirstCounts == Spec => FirstResultCounts
<1>1. ASSUME WebInv, [Next]_vars, NEW c \in Callers,
             pc[c] = "await", pc'[c] = "shutdown", ~ended[c]
      PROVE  got'[c] = first[c]
  <2>0. Typed /\ ResultInv /\ got \in [Callers -> Logins \cup {Failed, Empty}]
    BY <1>1 DEF WebInv, Typed, TypeOK
  <2>1. ~Elsewhere
    BY <1>1 DEF Elsewhere, Polling
  <2>2. WebStep
    BY <1>1, <2>0, <2>1, DeviceElsewhere, CancelElsewhere, Steps DEF vars
  <2>3. ASSUME NEW d \in Callers,
               \/ \E p \in Ports, l \in Logins : Listen(d, p, l)
               \/ AuthCodeURL(d) \/ OpenURL(d) \/ StopWaiting(d)
               \/ Shutdown(d) \/ Drained(d) \/ Redeem(d)
        PROVE  FALSE
    <3>1. \A p : Goto(d, p) => p = "shutdown" /\ d = c
      BY <1>1, <2>0 DEF Goto, Typed, TypeOK
    <3>2. QED
      BY <1>1, <2>3, <3>1 DEF Listen, AuthCodeURL, OpenURL, StopWaiting, Shutdown, Drained,
                              Redeem, Leave, Return
  <2>4. TakeResult(c)
    <3>1. ASSUME NEW d \in Callers, TakeResult(d) PROVE d = c
      BY <1>1, <2>0, <3>1 DEF TakeResult, Leave, Goto, Typed, TypeOK
    <3>2. pc' # pc
      BY <1>1
    <3>3. QED
      BY <2>2, <2>3, <3>1, <3>2 DEF WebStep, Handle, ClosePage, Arrive, ServeFails
  <2>5. QED
    BY <2>0, <2>4 DEF TakeResult, Leave, ResultInv
<1>2. WebInv /\ [Next]_vars
        => \A c \in Callers :
              pc[c] = "await" /\ pc'[c] = "shutdown" /\ ~ended[c] => got'[c] = first[c]
  BY <1>1
<1>3. QED
  BY <1>2, WebInvariant, PTL DEF Spec, FirstResultCounts

-----------------------------------------------------------------------------
(* Polling for a device code.                                              *)

LEMMA InitPoll == Init => PollInv
BY DEF Init, PollInv, Polling

(* What the service answers of a code it gave out: those that say not yet  *)
(* are the ones that isWaitDeviceCodeErr recognises.                       *)
LEMMA AnswersSayWhen ==
    ASSUME NEW k \in Codes, codes[k] \in CodeStates \ {"none"},
           NEW over \in BOOLEAN, NEW reply \in Replies(over, Answers(k))
    PROVE  /\ reply.body \in Bodies
           /\ isWaitDeviceCodeErr(reply) => reply.body \in NotYet
           /\ reply.body \in NotYet => isWaitDeviceCodeErr(reply)
<1>1. CASE reply = Lost
  BY <1>1 DEF Lost, isWaitDeviceCodeErr, CallErr, Bodies, NotYet, Garbage
<1>2. CASE reply \in Answers(k)
  <2>1. reply \in {Reply(400, "slow_down"), Reply(400, "expired_token"), Reply(500, "error"),
                   Reply(200, Garbage), Reply(400, "authorization_pending"), Reply(200, "token"),
                   Reply(400, "access_denied"), Reply(400, "invalid_grant")}
    BY <1>2 DEF Answers, CodeStates
  <2>2. QED
    BY <2>1 DEF Reply, isWaitDeviceCodeErr, CallErr, Bodies, NotYet, Garbage
<1>3. QED
  BY <1>1, <1>2 DEF Replies

(* A poll: where it leads, and what the service does meanwhile.            *)
LEMMA PollLeads ==
    ASSUME Typed, PollInv, NEW c \in Callers, Poll(c)
    PROVE  /\ pc[c] = "poll"
           /\ codes' \in {codes, [codes EXCEPT ![polling[c]] = "redeemed"]}
           /\ UNCHANGED <<webVars, expired, polling, interval>>
           /\ \E body \in Bodies :
                /\ last' = [last EXCEPT ![c] = body]
                /\ \/ body \in NotYet /\ Goto(c, "timer")
                   \/ body \notin NotYet /\ Return(c)
<1>1. pc[c] = "poll" /\ polling[c] \in Codes /\ codes[polling[c]] \in CodeStates \ {"none"}
  BY DEF Poll, Typed, TypeOK, PollInv, Polling
<1>2. Over(c) \in BOOLEAN
  BY DEF Over, Typed, TypeOK
<1>3. PICK reply \in Replies(Over(c), Answers(polling[c])) :
        /\ last' = [last EXCEPT ![c] = reply.body]
        /\ IF isWaitDeviceCodeErr(reply)
              THEN Goto(c, "timer") /\ UNCHANGED ended
              ELSE Return(c)
  BY DEF Poll
<1>4. /\ reply.body \in Bodies
      /\ isWaitDeviceCodeErr(reply) <=> reply.body \in NotYet
  BY <1>1, <1>2, <1>3, AnswersSayWhen
<1>5. UNCHANGED <<webVars, expired, polling, interval>>
  BY DEF Poll
<1>6. codes' \in {codes, [codes EXCEPT ![polling[c]] = "redeemed"]}
  BY DEF Poll
<1>7. QED
  BY <1>1, <1>3, <1>4, <1>5, <1>6

LEMMA PollInvStep == ASSUME Typed, PollInv, [Next]_vars PROVE PollInv'
<1> USE DEF Polling
<1>0. /\ pc \in [Callers -> Places] /\ codes \in [Codes -> CodeStates]
      /\ polling \in [Callers -> Codes \cup {None}]
  BY DEF Typed, TypeOK
<1>1. ASSUME NEW c \in Callers, NEW k \in Codes, AuthenticationResult(c, k) PROVE PollInv'
  BY <1>0, <1>1 DEF AuthenticationResult, Goto, PollInv
<1>2. ASSUME NEW c \in Callers, Timer(c) PROVE PollInv'
  BY <1>0, <1>2 DEF Timer, Goto, PollInv
<1>3. ASSUME NEW c \in Callers, StopPolling(c) PROVE PollInv'
  BY <1>0, <1>3 DEF StopPolling, Return, Goto, PollInv, deviceVars
<1>4. ASSUME NEW c \in Callers, Poll(c) PROVE PollInv'
  <2>1. /\ codes' \in {codes, [codes EXCEPT ![polling[c]] = "redeemed"]}
        /\ UNCHANGED polling
    BY <1>4, PollLeads
  <2>2. \A k \in Codes : codes[k] # "none" => codes'[k] # "none"
    BY <1>0, <2>1
  <2>3. PICK body \in Bodies :
          /\ last' = [last EXCEPT ![c] = body]
          /\ (body \in NotYet /\ Goto(c, "timer")) \/ (body \notin NotYet /\ Return(c))
    BY <1>4, PollLeads
  <2>4. pc[c] = "poll"
    BY <1>4, PollLeads
  <2>5. QED
    BY <1>0, <2>1, <2>2, <2>3, <2>4 DEF Return, Goto, PollInv
<1>5. ASSUME NEW k \in Codes, DeviceCode(k) \/ Decide(k) \/ Expire(k) PROVE PollInv'
  BY <1>0, <1>5 DEF DeviceCode, Decide, Expire, PollInv
<1>6. ASSUME UNCHANGED <<codes, polling, last>>,
             \A c \in Callers : pc'[c] \in Polling => pc'[c] = pc[c]
      PROVE  PollInv'
  BY <1>6 DEF PollInv
<1>7. CASE WebStep
  <2>1. UNCHANGED deviceVars
    BY <1>7 DEF WebStep, Listen, Handle, AuthCodeURL, OpenURL, TakeResult, StopWaiting, Shutdown,
                Drained, Redeem, ClosePage, Arrive, ServeFails
  <2>2. \A c \in Callers : pc'[c] \in Polling => pc'[c] = pc[c]
    <3>1. pc' = pc \/ \E d \in Callers, p \in Places \ Polling : Goto(d, p)
      BY <1>7 DEF WebStep, Listen, Handle, AuthCodeURL, OpenURL, TakeResult, StopWaiting, Shutdown,
                  Drained, Redeem, ClosePage, Arrive, ServeFails, Leave, Return, Places, Serving
    <3>2. QED
      BY <1>0, <3>1 DEF Goto
  <2>3. QED
    BY <1>6, <2>1, <2>2 DEF deviceVars
<1>8. CASE \E c \in Callers : Cancel(c)
  BY <1>6, <1>8, CancelElsewhere DEF deviceVars
<1>9. CASE UNCHANGED vars
  BY <1>6, <1>9 DEF vars, deviceVars
<1>10. QED
  BY <1>1, <1>2, <1>3, <1>4, <1>5, <1>7, <1>8, <1>9, Steps DEF DeviceStep

(* A call that polls stops because the code or the context has expired, or *)
(* after an answer that decides, and not otherwise (DeviceCode.Token,      *)
(* oauth.go:260-299).                                                      *)
THEOREM PollsGoOn == Spec => PollsWhileUndecided
<1> DEFINE Undecided(l) == l \in {"authorization_pending", "slow_down"}
           Goes(c) ==
             /\ pc[c] \in Polling /\ pc'[c] = "idle" => Over(c) \/ ~Undecided(last'[c])
             /\ pc[c] = "timer" /\ pc'[c] = "poll" => last[c] = "none" \/ Undecided(last[c])
<1>1. ASSUME Typed, PollInv, [Next]_vars, NEW c \in Callers PROVE Goes(c)
  <2>0. pc \in [Callers -> Places] /\ last \in [Callers -> {"none"} \cup Bodies]
    BY <1>1 DEF Typed, TypeOK, PollInv
  <2>1. pc[c] = "timer" => last[c] = "none" \/ Undecided(last[c])
    BY <1>1 DEF PollInv, NotYet
  <2>2. ASSUME pc[c] \in Polling, pc'[c] = "idle" PROVE Over(c) \/ ~Undecided(last'[c])
    <3>1. ASSUME NEW d \in Callers, Poll(d) PROVE Over(c) \/ ~Undecided(last'[c])
      <4>1. PICK body \in Bodies :
              /\ last' = [last EXCEPT ![d] = body]
              /\ (body \in NotYet /\ Goto(d, "timer")) \/ (body \notin NotYet /\ Return(d))
        BY <1>1, <3>1, PollLeads
      <4>2. d = c /\ body \notin NotYet
        BY <2>0, <2>2, <4>1 DEF Return, Goto, Polling
      <4>3. QED
        BY <2>0, <4>1, <4>2 DEF NotYet
    <3>2. ASSUME NEW d \in Callers, StopPolling(d) PROVE Over(c)
      BY <2>0, <2>2, <3>2 DEF StopPolling, Return, Goto, Polling
    <3>3. ASSUME WebStep PROVE FALSE
      <4>1. ASSUME NEW d \in Callers, NEW p, Goto(d, p), pc[d] \notin Polling PROVE FALSE
        BY <2>0, <2>2, <4>1 DEF Goto, Polling
      <4>2. pc' # pc
        BY <2>2 DEF Polling
      <4>3. QED
        BY <3>3, <4>1, <4>2
           DEF WebStep, Listen, Handle, AuthCodeURL, OpenURL, TakeResult, StopWaiting, Shutdown,
               Drained, Redeem, ClosePage, Arrive, ServeFails, Leave, Return, Polling
    <3>4. ASSUME NEW d \in Callers, Timer(d) \/ (\E k \in Codes : AuthenticationResult(d, k))
          PROVE  FALSE
      BY <2>0, <2>2, <3>4 DEF Timer, AuthenticationResult, Goto, Polling
    <3>5. pc' # pc
      BY <2>2 DEF Polling
    <3>6. QED
      BY <1>1, <3>1, <3>2, <3>3, <3>4, <3>5, Steps
         DEF DeviceStep, DeviceCode, Decide, Expire, Cancel, vars
  <2>3. QED
    BY <2>1, <2>2
<1>2. Typed /\ PollInv /\ [Next]_vars => \A c \in Callers : Goes(c)
  BY <1>1
<1>3. Typed /\ PollInv /\ [Next]_vars => PollInv'
  BY PollInvStep
<1>4. Spec => []Typed
  <2>1. WebInv => Typed
    BY DEF WebInv
  <2>2. QED
    BY <2>1, WebInvariant, PTL
<1>5. QED
  BY <1>2, <1>3, <1>4, InitPoll, PTL DEF Spec, PollsWhileUndecided
=============================================================================
