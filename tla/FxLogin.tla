------------------------------ MODULE FxLogin ------------------------------
(***************************************************************************)
(* How a Telepathy connection logs in to Fetion, and how it ends.          *)
(*                                                                         *)
(* The login is a chain of callbacks, each armed by the one before: SSI    *)
(* over SSL, then the configuration over HTTP, then Register and the       *)
(* authentication on the SIPC socket; the server may ask for the code of a *)
(* picture in the first step and in the last.  Each Telepathy connection   *)
(* makes a fetion_account of its own (a session, here), but all share one  *)
(* HybridAccount and the one verify_data, and hybrid_account_close stops   *)
(* no more of a session than the watch whose id its source field holds.    *)
(*                                                                         *)
(* What a socket delivers is left open: any answer that leads to another   *)
(* branch of the code is a choice.  ac->buffer is left out, as what it     *)
(* holds only decides between such branches.  hybrid_ssl_connect can also  *)
(* return NULL when OpenSSL has no memory, which is left out as well.      *)
(* So is what verify_data.response says, and which of two pushed streams   *)
(* of a session a watch reads, should it have logged in twice.             *)
(***************************************************************************)
EXTENDS Naturals

CONSTANT MaxSessions   \* bound: the connections requested, one after the other

ASSUME SessionAssumption == MaxSessions \in Nat \ {0}

Sessions == 1 .. MaxSessions

\* No session, in conn, data, keep_alive_source, sk and verify.
None == 0

(* The watches of a session, named after the callback they run; the SSL    *)
(* connect of a session is named after the one it ends in.                 *)
Watches == {"ssl_connect", "ssi_auth", "pic_connect", "pic_read",
            "cfg_connect", "cfg_read", "sipc_connect", "sipc_reg", "push"}

(* The part of a fetion_account the login uses.                            *)
Account == [
  armed  : SUBSET Watches,                \* watches the loop dispatches
  source : Watches \cup {"none"},         \* whose id ac->source holds
  sk     : Sessions \cup {None},          \* whose SIPC socket ac->sk is
  asked  : BOOLEAN,                       \* sipc_auth_cb is on its trans_list
  code   : {"none", "wanted", "given"},   \* ac->verification, and its code
  prompt : BOOLEAN,                       \* the window that asks for the code
  freed  : BOOLEAN]

NewAccount == [armed |-> {}, source |-> "none", sk |-> None, asked |-> FALSE,
               code |-> "none", prompt |-> FALSE, freed |-> FALSE]

VARIABLES
  tp,                \* Telepathy's status of each connection
  conn,              \* account->conn: the connection requested last
  data,              \* account->protocol_data: the session started last
  enabled,           \* account->enabled
  connect_state,     \* account->connect_state
  timers,            \* keep alive timers, named after who started them
  keep_alive_source, \* account->keep_alive_source
  ac,                \* the fetion_account of each session
  shut,              \* sessions whose SIPC socket fx_close closed
  verify,            \* verify_data: its type and sipc_conn
  crashed            \* freed memory was used, and the program ended

accountVars == <<tp, conn, data, enabled, connect_state, timers,
                 keep_alive_source>>

vars == <<accountVars, ac, shut, verify, crashed>>

(* What the account cache says of enabled is overwritten by Connect before *)
(* anything looks at it.                                                   *)
Init ==
  /\ tp = [s \in Sessions |-> "none"]
  /\ conn = None
  /\ data = None
  /\ enabled = FALSE
  /\ connect_state = "connecting"
  /\ timers = {}
  /\ keep_alive_source = None
  /\ ac = [s \in Sessions |-> NewAccount]
  /\ shut = {}
  /\ verify = [type |-> "none", sipc_conn |-> None]
  /\ crashed = FALSE

-----------------------------------------------------------------------------
(* What a callback makes of its session, and how often it reports an error.*)

Arm(a, w)   == [a EXCEPT !.armed = @ \cup {w}]
Stop(a, w)  == [a EXCEPT !.armed = @ \ {w}]
Store(a, w) == [Arm(a, w) EXCEPT !.source = w]

Quietly(a)        == [ac |-> a, reports |-> 0]
Reporting(a, n)   == [ac |-> a, reports |-> n]

(* hybrid_proxy_connect, whose failure none of these callers looks at:     *)
(* nothing follows, or a watch, or the callback runs at once.              *)
Dial(a, w, atOnce) == {Quietly(a), Quietly(Arm(a, w))} \cup atOnce

(* ssi_auth_action uses the verification up.                               *)
SsiAuthAction(a) == {Quietly(Arm([a EXCEPT !.code = "none"], "ssi_auth"))}

(* ssl_connect_cb says nothing when the handshake fails.                   *)
SslConnected(a) == {Quietly(a)} \cup SsiAuthAction(a)

PicConnected(a) == {Quietly(a), Quietly(Store(a, "pic_read"))}

CfgConnected(a) == {Reporting(a, 1), Quietly(Store(a, "cfg_read"))}

SipcRegAction(a) == {Reporting(a, 1), Quietly(Arm(a, "sipc_reg"))}

(* sipc_aut_action on the socket of session k.                             *)
SipcAuthAction(a, k) ==
  [a EXCEPT !.sk = k, !.asked = TRUE, !.code = "none"]

-----------------------------------------------------------------------------
(* Closing                                                                 *)

MayCrash(undefined) == crashed' \in (IF undefined THEN BOOLEAN ELSE {FALSE})

(* fx_close on the session started last, whose record may be changing in   *)
(* the same callback.                                                      *)
\* Slip: it is not asked whether there is a socket.
FxClose_AnySocket(acs) ==
  /\ ac' = [acs EXCEPT ![data].armed = @ \ {acs[data].source}]
  /\ shut' = shut \cup {acs[data].sk}

FxClose(acs) ==
  /\ ac' = [acs EXCEPT ![data].armed = @ \ {acs[data].source}]
  /\ shut' = shut \cup ({acs[data].sk} \ {None})

(* hybrid_account_close.                                                   *)
\* Slip: the keep alive source is not removed.
AccountClose_KeepsTimer(acs) ==
  \/ /\ ~enabled
     /\ ac' = acs
     /\ UNCHANGED <<enabled, connect_state, timers, shut>>
  \/ /\ enabled
     /\ enabled' = FALSE
     /\ connect_state' = "closed"
     /\ FxClose(acs)
     /\ UNCHANGED timers

AccountClose(acs) ==
  \/ /\ ~enabled
     /\ ac' = acs
     /\ UNCHANGED <<enabled, connect_state, timers, shut>>
  \/ /\ enabled
     /\ enabled' = FALSE
     /\ connect_state' = "closed"
     /\ timers' = timers \ {keep_alive_source}
     /\ FxClose(acs)

(* tp_base_connection_change_status to DISCONNECTED: it calls shut_down,   *)
(* and that hybrid_account_close, unless the connection never started.     *)
Disconnected(s, acs) ==
  /\ tp' = [tp EXCEPT ![s] = "disconnected"]
  /\ \/ /\ tp[s] = "new"
        /\ ac' = acs
        /\ UNCHANGED <<enabled, connect_state, timers, shut>>
     \/ /\ tp[s] \in {"connecting", "connected"}
        /\ AccountClose(acs)

(* hybrid_account_error_reason: it takes the connection requested last,    *)
(* which is destroyed once it is disconnected.                             *)
ErrorReason(acs) ==
  \/ Disconnected(conn, acs)
  \/ /\ tp[conn] = "disconnected"
     /\ ac' = acs
     /\ UNCHANGED <<tp, enabled, connect_state, timers, shut>>

(* A callback of session s ends in one of the outcomes.  A second report   *)
(* finds the connection destroyed.                                         *)
Ends(s, outcomes) ==
  \E o \in outcomes :
    LET acs == [ac EXCEPT ![s] = o.ac] IN
      /\ \/ /\ o.reports = 0
            /\ ac' = acs
            /\ UNCHANGED <<tp, enabled, connect_state, timers, shut>>
         \/ o.reports > 0 /\ ErrorReason(acs)
      /\ MayCrash(\/ ac[s].freed
                  \/ o.reports > 1
                  \/ /\ o.reports > 0
                     /\ \/ tp[conn] = "disconnected"
                        \/ enabled /\ ac[data].freed)

-----------------------------------------------------------------------------
(* Telepathy's side                                                        *)

(* RequestConnection.  A client has one connection of an account at a time.*)
NewConnection(s) ==
  /\ ~crashed
  /\ tp[s] = "none"
  /\ \A r \in 1 .. (s - 1) : tp[r] = "disconnected"
  /\ tp' = [tp EXCEPT ![s] = "new"]
  /\ conn' = s
  /\ UNCHANGED <<data, enabled, connect_state, timers, keep_alive_source, ac,
                 shut, verify, crashed>>

(* Connect: start_connecting, hybrid_account_enable and fx_login.          *)
Connect(s) ==
  /\ ~crashed
  /\ tp[s] = "new"
  /\ data' = s
  /\ enabled' = TRUE
  /\ \/ /\ tp' = [tp EXCEPT ![s] = "connecting"]
        /\ \E o \in SslConnected(ac[s]) \cup {Quietly(Arm(ac[s], "ssl_connect"))} :
             ac' = [ac EXCEPT ![s] = o.ac]
     \/ /\ tp' = [tp EXCEPT ![s] = "disconnected"]
        /\ UNCHANGED ac
  /\ UNCHANGED <<conn, connect_state, timers, keep_alive_source, shut, verify,
                 crashed>>

(* Disconnect.                                                             *)
Disconnect(s) ==
  /\ ~crashed
  /\ tp[s] \in {"new", "connecting", "connected"}
  /\ Disconnected(s, ac)
  /\ MayCrash(tp[s] # "new" /\ enabled /\ ac[data].freed)
  /\ UNCHANGED <<conn, data, keep_alive_source, verify>>

(* SetPresence(offline) closes the account and leaves Telepathy connected. *)
SetOffline(s) ==
  /\ ~crashed
  /\ tp[s] = "connected"
  /\ AccountClose(ac)
  /\ MayCrash(enabled /\ ac[data].freed)
  /\ UNCHANGED <<tp, conn, data, keep_alive_source, verify>>

(* keep_alive_cb returns what fx_keep_alive does, FALSE when send() fails. *)
KeepAliveStops(s) ==
  /\ ~crashed
  /\ s \in timers
  /\ timers' = timers \ {s}
  /\ MayCrash(ac[data].freed)
  /\ UNCHANGED <<tp, conn, data, enabled, connect_state, keep_alive_source,
                 ac, shut, verify>>

-----------------------------------------------------------------------------
(* The chain                                                               *)

(* The loop dispatches watch w of session s, which ends it in one of the   *)
(* outcomes.                                                               *)
Dispatch(s, w, outcomes) ==
  /\ ~crashed
  /\ w \in ac[s].armed
  /\ Ends(s, outcomes)
  /\ UNCHANGED <<conn, data, keep_alive_source>>

SslConnect(s) ==
  /\ Dispatch(s, "ssl_connect", SslConnected(Stop(ac[s], "ssl_connect")))
  /\ UNCHANGED verify

(* ssi_auth_cb: an error (reported twice when the body is at fault), or on *)
(* to the configuration.                                                   *)
SsiAuth(s) ==
  LET a == Stop(ac[s], "ssi_auth") IN
    /\ Dispatch(s, "ssi_auth", {Reporting(a, 1), Reporting(a, 2)}
                  \cup Dial(a, "cfg_connect", CfgConnected(a)))
    /\ UNCHANGED verify

(* ssi_auth_cb, 420 or 421: a code is needed.                              *)
\* Slip: parse_ssi_fail_resp does not store the verification.
SsiNeedsCode_NoVerification(s) ==
  LET a == Stop(ac[s], "ssi_auth") IN
    /\ Dispatch(s, "ssi_auth", Dial(a, "pic_connect", PicConnected(a)))
    /\ verify' = [verify EXCEPT !.type = "ssi"]

SsiNeedsCode(s) ==
  LET a == [Stop(ac[s], "ssi_auth") EXCEPT !.code = "wanted"] IN
    /\ Dispatch(s, "ssi_auth", Dial(a, "pic_connect", PicConnected(a)))
    /\ verify' = [verify EXCEPT !.type = "ssi"]

PicConnect(s) ==
  /\ Dispatch(s, "pic_connect", PicConnected(Stop(ac[s], "pic_connect")))
  /\ UNCHANGED verify

(* pic_read_cb: recv() gets the length of an uninitialized string, so that *)
(* it may end at once.  At the end it removes the watch ac->source names,  *)
(* and stops, reports, or asks the user.                                   *)
PicRead(s) ==
  LET a == [Stop(Stop(ac[s], "pic_read"), ac[s].source) EXCEPT !.source = "none"]
  IN  /\ Dispatch(s, "pic_read", {Quietly(a), Reporting(a, 1),
                                  Quietly([a EXCEPT !.prompt = TRUE])})
      /\ UNCHANGED verify

CfgConnect(s) ==
  /\ Dispatch(s, "cfg_connect", CfgConnected(Stop(ac[s], "cfg_connect")))
  /\ UNCHANGED verify

(* cfg_read_cb: an error, or on to the SIPC proxy.                         *)
CfgRead(s) ==
  LET a == Stop(ac[s], "cfg_read") IN
    /\ Dispatch(s, "cfg_read", {Reporting(a, 1)}
                  \cup Dial(a, "sipc_connect", SipcRegAction(a)))
    /\ UNCHANGED verify

SipcConnect(s) ==
  /\ Dispatch(s, "sipc_connect", SipcRegAction(Stop(ac[s], "sipc_connect")))
  /\ UNCHANGED verify

(* sipc_reg_cb: an error, an answer it cannot parse, or on to the          *)
(* authentication, with the pushed messages read from now on.              *)
SipcRegFails(s) ==
  LET a == Stop(ac[s], "sipc_reg") IN
    /\ Dispatch(s, "sipc_reg", {Reporting(a, 1), Quietly(a)})
    /\ UNCHANGED verify

\* Slip: the watch that waits for the answer stays.
SipcReg_Stays(s) ==
  /\ Dispatch(s, "sipc_reg",
              {Quietly(SipcAuthAction(Store(ac[s], "push"), s))})
  /\ UNCHANGED verify

SipcReg(s) ==
  LET a == Stop(ac[s], "sipc_reg") IN
    /\ Dispatch(s, "sipc_reg", {Quietly(SipcAuthAction(Store(a, "push"), s))})
    /\ UNCHANGED verify

-----------------------------------------------------------------------------
(* The window that asks for the code, whatever became of the session       *)

(* pic_code_ok_cb: verify_data says which of the two steps is repeated.    *)
CodeEntered(s) ==
  LET a == [ac[s] EXCEPT !.prompt = FALSE, !.code = "given"] IN
    /\ ~crashed
    /\ ac[s].prompt
    /\ Ends(s, IF verify.type = "ssi"
               THEN Dial(a, "ssl_connect", SslConnected(a))
               ELSE {Quietly(SipcAuthAction(a, verify.sipc_conn))})
    /\ UNCHANGED <<conn, data, keep_alive_source, verify>>

CodeCancelled(s) ==
  /\ ~crashed
  /\ ac[s].prompt
  /\ Ends(s, {Quietly([ac[s] EXCEPT !.prompt = FALSE])})
  /\ UNCHANGED <<conn, data, keep_alive_source, verify>>

-----------------------------------------------------------------------------
(* The pushed messages.  The watch may outlive the socket: once fx_close   *)
(* closed it, the loop dispatches the watch only when another session has  *)
(* got the same descriptor.                                                *)

Reused(s) == \E r \in Sessions \ {s} : ac[r].armed # {}

(* sipc_auth_cb gets its answer on the socket the request was sent on.     *)
Answered(s) ==
  /\ "push" \in ac[s].armed
  /\ ac[s].asked /\ ac[s].sk = s
  /\ s \notin shut

(* hybrid_account_set_connection_status(CONNECTED) tells the connection    *)
(* requested last, unless the account says it is connected already.        *)
SetConnected(s) ==
  \/ /\ connect_state = "connected"
     /\ MayCrash(ac[s].freed)
     /\ UNCHANGED <<tp, connect_state, timers, keep_alive_source>>
  \/ /\ connect_state # "connected"
     /\ connect_state' = "connected"
     /\ tp' = [tp EXCEPT ![conn] = IF @ = "connecting" THEN "connected" ELSE @]
     /\ timers' = timers \cup {s}
     /\ keep_alive_source' = s
     /\ MayCrash(tp[conn] \in {"new", "disconnected"} \/ ac[s].freed)

(* 200: logged in.                                                         *)
AuthAccepted(s) ==
  /\ ~crashed
  /\ Answered(s)
  /\ ac' = [ac EXCEPT ![s].asked = FALSE]
  /\ SetConnected(s)
  /\ UNCHANGED <<conn, data, enabled, shut, verify>>

(* 420 or 421: a code is needed, or the challenge makes no sense.  Here and*)
(* in the next action the buffer that hybrid_push_cb goes on with is freed *)
(* (or, without a W header, NULL is read).                                 *)
AuthNeedsCode(s) ==
  LET a == [ac[s] EXCEPT !.asked = FALSE, !.code = "wanted"] IN
    /\ ~crashed
    /\ Answered(s)
    /\ \E o \in Dial(a, "pic_connect", PicConnected(a)) :
         ac' = [ac EXCEPT ![s] = o.ac]
    /\ verify' = [verify EXCEPT !.type = "sip", !.sipc_conn = ac[s].sk]
    /\ MayCrash(TRUE)
    /\ UNCHANGED <<accountVars, shut>>

AuthBadChallenge(s) ==
  LET a == [ac[s] EXCEPT !.asked = FALSE, !.code = "wanted"] IN
    /\ Answered(s)
    /\ Dispatch(s, "push", {Reporting(a, 1)})
    /\ UNCHANGED verify

(* Any other code: the login just stops.                                   *)
AuthRefused(s) ==
  /\ ~crashed
  /\ Answered(s)
  /\ ac' = [ac EXCEPT ![s].asked = FALSE]
  /\ MayCrash(TRUE)
  /\ UNCHANGED <<accountVars, shut, verify>>

(* process_dereg_cb: the user logged in elsewhere.                         *)
Deregistered(s) ==
  /\ s \notin shut
  /\ Dispatch(s, "push", {Reporting(ac[s], 1)})
  /\ UNCHANGED verify

(* hybrid_push_cb: recv() = -1.                                            *)
PushFails(s) ==
  /\ s \in shut => Reused(s)
  /\ Dispatch(s, "push", {Reporting(Stop(ac[s], "push"), 1)})
  /\ UNCHANGED verify

(* hybrid_push_cb: recv() = 0 destroys the account, and its ssic twice.    *)
PushEnds(s) ==
  /\ ~crashed
  /\ "push" \in ac[s].armed
  /\ s \in shut => Reused(s)
  /\ ac' = [ac EXCEPT ![s] = [Stop(@, "push") EXCEPT !.freed = TRUE]]
  /\ MayCrash(TRUE)
  /\ UNCHANGED <<accountVars, shut, verify>>

-----------------------------------------------------------------------------
Next ==
  \E s \in Sessions :
    \/ NewConnection(s) \/ Connect(s) \/ Disconnect(s) \/ SetOffline(s)
    \/ KeepAliveStops(s)
    \/ SslConnect(s) \/ SsiAuth(s) \/ SsiNeedsCode(s)
    \/ PicConnect(s) \/ PicRead(s) \/ CodeEntered(s) \/ CodeCancelled(s)
    \/ CfgConnect(s) \/ CfgRead(s)
    \/ SipcConnect(s) \/ SipcRegFails(s) \/ SipcReg(s)
    \/ AuthAccepted(s) \/ AuthNeedsCode(s) \/ AuthBadChallenge(s)
    \/ AuthRefused(s)
    \/ Deregistered(s) \/ PushFails(s) \/ PushEnds(s)

Spec == Init /\ [][Next]_vars

-----------------------------------------------------------------------------
(* Every variable has its type.                                            *)
TypeOK ==
  /\ tp \in [Sessions ->
              {"none", "new", "connecting", "connected", "disconnected"}]
  /\ conn \in Sessions \cup {None}
  /\ data \in Sessions \cup {None}
  /\ enabled \in BOOLEAN
  /\ connect_state \in {"connecting", "connected", "closed"}
  /\ timers \in SUBSET Sessions
  /\ keep_alive_source \in Sessions \cup {None}
  /\ ac \in [Sessions -> Account]
  /\ shut \in SUBSET Sessions
  /\ verify \in [type : {"none", "ssi", "sip"}, sipc_conn : Sessions \cup {None}]
  /\ crashed \in BOOLEAN

(* However connections follow each other, also when the chain of a closed  *)
(* one goes on and is accepted late: no two keep alive timers run, the one *)
(* that runs is the one hybrid_account_close would remove, and it runs for *)
(* a connected account only.                                               *)
OneKeepAlive ==
  timers # {} => timers = {keep_alive_source} /\ connect_state = "connected"

(* The chain of a session never forks: at most one thing is pending that   *)
(* would take the login a step further, be it a watch, the answer to the   *)
(* authentication or the window that asks for the code.                    *)
Pending(a) ==
  (a.armed \ {"push"}) \cup (IF a.asked THEN {"answer"} ELSE {})
                       \cup (IF a.prompt THEN {"code"} ELSE {})

OneStep == \A s \in Sessions : \A p, q \in Pending(ac[s]) : p = q

(* pic_download_cb and pic_code_ok_cb go through ac->verification without  *)
(* looking: it is there as long as a picture is fetched or a code awaited, *)
(* although the two verifications, of two sessions, share verify_data.     *)
VerificationPresent ==
  \A s \in Sessions :
    Pending(ac[s]) \cap {"pic_connect", "pic_read", "code"} # {}
      => ac[s].code # "none"

(* account.h:289: hybrid_account_error_reason closes the account.  So once *)
(* the connection requested last is disconnected, the account is closed.   *)
ErrorCloses == (conn # None /\ tp[conn] = "disconnected") => ~enabled

===========================================================================
