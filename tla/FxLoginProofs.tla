--------------------------- MODULE FxLoginProofs ---------------------------
(***************************************************************************)
(* The login is typed, its chain never forks, the verification is there    *)
(* when it is needed, and one keep alive timer runs, for any number of     *)
(* connections one after the other.                                        *)
(*                                                                         *)
(* OneStep and VerificationPresent speak of each session by itself, so the *)
(* proof is about one record at a time: Idle when nothing is pending, Good *)
(* when both properties hold of it.  A callback stops the one thing that   *)
(* was pending, which leaves the record Idle, and every outcome of it is   *)
(* Good.  Closing the account only stops a watch, which keeps it Good.     *)
(***************************************************************************)
EXTENDS FxLogin, TLAPS

Good(a) ==
  /\ a \in Account
  /\ \A p, q \in Pending(a) : p = q
  /\ Pending(a) \cap {"pic_connect", "pic_read", "code"} # {} => a.code # "none"

Idle(a) == a \in Account /\ Pending(a) = {}

(* An enabled account has a session for fx_close to close.                 *)
EnabledHasData == enabled => data # None

Inv == TypeOK /\ EnabledHasData /\ OneKeepAlive /\ \A s \in Sessions : Good(ac[s])

-----------------------------------------------------------------------------
(* Records                                                                 *)

(* The watches are changed within the type.                                *)
LEMMA WatchType ==
  ASSUME NEW a \in Account, NEW w \in Watches
  PROVE  Arm(a, w) \in Account /\ Stop(a, w) \in Account /\ Store(a, w) \in Account
BY DEF Arm, Stop, Store, Account

(* Nothing pending: both properties hold.                                  *)
LEMMA IdleIsGood == ASSUME NEW a, Idle(a) PROVE Good(a)
BY DEF Idle, Good

(* The callback that runs was the only thing pending.                      *)
LEMMA StopIdle ==
  ASSUME NEW a, Good(a), NEW w \in Watches \ {"push"}, w \in a.armed
  PROVE  Idle(Stop(a, w)) /\ Stop(a, w).code = a.code
<1>1. w \in Pending(a) /\ Pending(a) = {w}
  BY DEF Good, Pending, Account, Watches
<1>2. Pending(Stop(a, w)) = Pending(a) \ {w}
  <2>1. ~a.asked /\ ~a.prompt
    BY <1>1 DEF Pending, Watches, Good, Account
  <2> QED
    BY <2>1 DEF Stop, Pending, Good, Account
<1> QED
  BY <1>1, <1>2, WatchType DEF Idle, Good, Stop, Account

(* A watch removed, whichever it is.                                       *)
LEMMA StopGood ==
  ASSUME NEW a, Good(a), NEW w
  PROVE  Good([a EXCEPT !.armed = @ \ {w}])
<1> DEFINE b == [a EXCEPT !.armed = @ \ {w}]
<1> SUFFICES Good(b)
  OBVIOUS
<1>1. b \in Account /\ b.code = a.code /\ b.armed \subseteq a.armed
      /\ b.asked = a.asked /\ b.prompt = a.prompt
  BY DEF Good, Account
<1>2. Pending(b) \subseteq Pending(a)
  BY <1>1 DEF Pending
<1> HIDE DEF b
<1> QED
  BY <1>1, <1>2 DEF Good

LEMMA StopKeepsIdle ==
  ASSUME NEW a, Idle(a), NEW w \in Watches \cup {"none"}
  PROVE  Idle(Stop(a, w)) /\ Stop(a, w).code = a.code
<1>1. Stop(a, w) \in Account /\ Stop(a, w).code = a.code /\ Stop(a, w).armed \subseteq a.armed
      /\ Stop(a, w).asked = a.asked /\ Stop(a, w).prompt = a.prompt
  BY DEF Idle, Account, Stop
<1> QED
  BY <1>1 DEF Idle, Pending

(* An idle session may wait for one thing, for a picture only with a       *)
(* verification.                                                           *)
LEMMA ArmGood ==
  ASSUME NEW a, Idle(a), NEW w \in Watches,
         w \in {"pic_connect", "pic_read"} => a.code # "none"
  PROVE  Good(Arm(a, w)) /\ Good(Store(a, w))
<1>1. ASSUME NEW b \in Account, b.armed = a.armed \cup {w}, b.code = a.code,
             b.asked = a.asked, b.prompt = a.prompt
      PROVE  Good(b)
  <2>1. Pending(b) \subseteq {w}
    BY <1>1 DEF Idle, Pending
  <2>2. w # "code"
    BY DEF Watches
  <2> QED
    BY <1>1, <2>1, <2>2 DEF Good
<1>2. Arm(a, w) \in Account /\ Store(a, w) \in Account
  BY WatchType DEF Idle
<1>3. /\ Arm(a, w).armed = a.armed \cup {w} /\ Arm(a, w).code = a.code
      /\ Arm(a, w).asked = a.asked /\ Arm(a, w).prompt = a.prompt
  BY DEF Arm, Idle, Account
<1>4. /\ Store(a, w).armed = a.armed \cup {w} /\ Store(a, w).code = a.code
      /\ Store(a, w).asked = a.asked /\ Store(a, w).prompt = a.prompt
  BY DEF Store, Arm, Idle, Account
<1> QED
  BY <1>1, <1>2, <1>3, <1>4

(* The pushed messages are read beside whatever else is pending.           *)
LEMMA StorePushIdle ==
  ASSUME NEW a, Idle(a)
  PROVE  Idle(Store(a, "push"))
<1>1. Store(a, "push") \in Account
  BY WatchType DEF Idle, Watches
<1>2. /\ Store(a, "push").armed = a.armed \cup {"push"}
      /\ Store(a, "push").asked = a.asked /\ Store(a, "push").prompt = a.prompt
  BY DEF Store, Arm, Idle, Account
<1> QED
  BY <1>1, <1>2 DEF Idle, Pending

(* The authentication is sent.                                             *)
LEMMA AuthActionGood ==
  ASSUME NEW a, Idle(a), NEW k \in Sessions \cup {None}
  PROVE  Good(SipcAuthAction(a, k))
<1> DEFINE b == SipcAuthAction(a, k)
<1> SUFFICES Good(b)
  OBVIOUS
<1>1. b \in Account /\ b.armed = a.armed /\ b.prompt = a.prompt /\ b.asked
  BY DEF Idle, Account, SipcAuthAction
<1>2. Pending(b) = {"answer"}
  BY <1>1 DEF Idle, Pending
<1> HIDE DEF b
<1> QED
  BY <1>1, <1>2 DEF Good

-----------------------------------------------------------------------------
(* Closing                                                                 *)

(* What every way to end a callback keeps.                                 *)
Kept ==
  /\ enabled' \in BOOLEAN /\ (enabled' => enabled)
  /\ connect_state' \in {"connecting", "connected", "closed"}
  /\ timers' \in SUBSET Sessions
  /\ timers' # {} => timers' = timers /\ connect_state' = connect_state
  /\ shut' \in SUBSET Sessions
  /\ ac' \in [Sessions -> Account]
  /\ \A r \in Sessions : Good(ac'[r])

Statuses == {"none", "new", "connecting", "connected", "disconnected"}
VerifyType == [type : {"none", "ssi", "sip"}, sipc_conn : Sessions \cup {None}]

LEMMA KeptInv ==
  ASSUME Inv, Kept, tp' \in [Sessions -> Statuses], verify' \in VerifyType,
         crashed' \in BOOLEAN, UNCHANGED <<conn, data, keep_alive_source>>
  PROVE  Inv'
BY DEF Inv, Kept, Statuses, VerifyType, TypeOK, EnabledHasData, OneKeepAlive

LEMMA MayCrashType ==
  ASSUME NEW u, MayCrash(u)
  PROVE  crashed' \in BOOLEAN
<1>1. CASE u
  BY <1>1 DEF MayCrash
<1>2. CASE ~u
  BY <1>2 DEF MayCrash
<1> QED
  BY <1>1, <1>2

(* hybrid_account_close leaves good records good, and no timer of an       *)
(* account that was connected.                                             *)
LEMMA AccountCloseKept ==
  ASSUME Inv, NEW acs \in [Sessions -> Account], \A r \in Sessions : Good(acs[r]),
         AccountClose(acs)
  PROVE  Kept
<1>1. CASE ~enabled
  <2>1. ac' = acs /\ UNCHANGED <<enabled, connect_state, timers, shut>>
    BY <1>1 DEF AccountClose
  <2> QED
    BY <2>1 DEF Inv, TypeOK, Kept
<1>2. CASE enabled
  <2>1. /\ enabled' = FALSE /\ connect_state' = "closed"
        /\ timers' = timers \ {keep_alive_source} /\ FxClose(acs)
    BY <1>2 DEF AccountClose
  <2>2. data \in Sessions
    BY <1>2 DEF Inv, TypeOK, EnabledHasData
  <2>3. timers' = {}
    BY <2>1 DEF Inv, OneKeepAlive
  <2>4. \A r \in Sessions : ac'[r] \in Account /\ Good(ac'[r])
    <3>1. TAKE r \in Sessions
    <3>2. Good([acs[r] EXCEPT !.armed = @ \ {acs[r].source}])
      BY StopGood
    <3>3. ac'[r] = acs[r] \/ ac'[r] = [acs[r] EXCEPT !.armed = @ \ {acs[r].source}]
      BY <2>1, <2>2 DEF FxClose
    <3> QED
      BY <3>2, <3>3 DEF Good
  <2>5. ac' \in [Sessions -> Account]
    <3>1. ac' = [r \in Sessions |-> ac'[r]]
      BY <2>1 DEF FxClose
    <3> QED
      BY <2>4, <3>1
  <2>6. shut' \in SUBSET Sessions
    BY <2>1, <2>2 DEF FxClose, Inv, TypeOK, Account
  <2> QED
    BY <2>1, <2>3, <2>4, <2>5, <2>6 DEF Kept
<1> QED
  BY <1>1, <1>2 DEF Inv, TypeOK

LEMMA DisconnectedKept ==
  ASSUME Inv, NEW s, NEW acs \in [Sessions -> Account],
         \A r \in Sessions : Good(acs[r]), Disconnected(s, acs)
  PROVE  Kept /\ tp' \in [Sessions -> Statuses]
<1>1. tp' \in [Sessions -> Statuses]
  BY DEF Disconnected, Inv, TypeOK, Statuses
<1>2. CASE ac' = acs /\ UNCHANGED <<enabled, connect_state, timers, shut>>
  BY <1>1, <1>2 DEF Inv, TypeOK, Kept
<1>3. CASE AccountClose(acs)
  BY <1>1, <1>3, AccountCloseKept
<1> QED
  BY <1>2, <1>3 DEF Disconnected

(* A callback whose every outcome is good keeps the invariant.             *)
LEMMA EndsKept ==
  ASSUME Inv, NEW s \in Sessions, NEW outcomes,
         \A o \in outcomes : Good(o.ac), Ends(s, outcomes)
  PROVE  Kept /\ tp' \in [Sessions -> Statuses] /\ crashed' \in BOOLEAN
<1>1. PICK o \in outcomes :
        LET acs == [ac EXCEPT ![s] = o.ac] IN
          /\ \/ ac' = acs /\ UNCHANGED <<tp, enabled, connect_state, timers, shut>>
             \/ ErrorReason(acs)
          /\ crashed' \in BOOLEAN
  BY MayCrashType DEF Ends
<1> DEFINE acs == [ac EXCEPT ![s] = o.ac]
<1>2. acs \in [Sessions -> Account] /\ \A r \in Sessions : Good(acs[r])
  <2>1. Good(o.ac) /\ o.ac \in Account
    BY DEF Good
  <2> QED
    BY <2>1 DEF Inv, TypeOK
<1>3. CASE ac' = acs /\ UNCHANGED <<tp, enabled, connect_state, timers, shut>>
  BY <1>1, <1>2, <1>3 DEF Inv, TypeOK, Kept, Statuses
<1>4. CASE Disconnected(conn, acs)
  BY <1>1, <1>2, <1>4, DisconnectedKept
<1> QED
  BY <1>1, <1>3, <1>4 DEF ErrorReason

-----------------------------------------------------------------------------
(* Before Connect a session has nothing pending.                           *)

NotStarted == {"none", "new"}

Unstarted ==
  /\ data # None => tp[data] \notin NotStarted
  /\ \A s \in Sessions : tp[s] \in NotStarted => ac[s] = NewAccount

(* A step of session s, which starts with it or has started, and may close *)
(* the session started last.                                               *)
StepOf(s) ==
  /\ \A r \in Sessions : tp'[r] \in NotStarted => tp[r] \in NotStarted
  /\ \A r \in Sessions \ {s, data} : ac'[r] = ac[r]
  /\ ac[s] # NewAccount \/ tp'[s] \notin NotStarted \/ ac' = ac
  /\ \/ data' = data
     \/ data' = s /\ tp'[s] \notin NotStarted

LEMMA UnstartedStep ==
  ASSUME Inv, Unstarted, NEW s \in Sessions, StepOf(s)
  PROVE  Unstarted'
<1>1. data \in Sessions => tp'[data] \notin NotStarted
  BY DEF Unstarted, StepOf, Sessions, None
<1>2. data' # None => tp'[data'] \notin NotStarted
  BY <1>1 DEF StepOf, Inv, TypeOK
<1>3. ASSUME NEW r \in Sessions, tp'[r] \in NotStarted
      PROVE  ac'[r] = NewAccount
  <2>1. ac[r] = NewAccount
    BY <1>3 DEF StepOf, Unstarted
  <2>2. ac'[r] = ac[r]
    BY <1>1, <1>3, <2>1 DEF StepOf
  <2> QED
    BY <2>1, <2>2
<1> QED
  BY <1>2, <1>3 DEF Unstarted

LEMMA AccountCloseOf ==
  ASSUME NEW acs \in [Sessions -> Account], AccountClose(acs)
  PROVE  \A r \in Sessions \ {data} : ac'[r] = acs[r]
BY DEF AccountClose, FxClose

LEMMA DisconnectedOf ==
  ASSUME Inv, NEW s, NEW acs \in [Sessions -> Account], Disconnected(s, acs)
  PROVE  /\ \A r \in Sessions \ {data} : ac'[r] = acs[r]
         /\ \A r \in Sessions : tp'[r] \in NotStarted => tp[r] \in NotStarted
<1>1. \A r \in Sessions \ {data} : ac'[r] = acs[r]
  BY AccountCloseOf DEF Disconnected
<1>2. \A r \in Sessions : tp'[r] = tp[r] \/ tp'[r] = "disconnected"
  BY DEF Disconnected, Inv, TypeOK
<1> QED
  BY <1>1, <1>2 DEF NotStarted

LEMMA EndsOf ==
  ASSUME Inv, NEW s \in Sessions, NEW outcomes, \A o \in outcomes : o.ac \in Account,
         Ends(s, outcomes), UNCHANGED data, ac[s] # NewAccount
  PROVE  StepOf(s)
<1>1. PICK o \in outcomes :
        LET acs == [ac EXCEPT ![s] = o.ac] IN
          \/ ac' = acs /\ UNCHANGED <<tp, enabled, connect_state, timers, shut>>
          \/ ErrorReason(acs)
  BY DEF Ends
<1> DEFINE acs == [ac EXCEPT ![s] = o.ac]
<1>2. acs \in [Sessions -> Account] /\ \A r \in Sessions \ {s} : acs[r] = ac[r]
  BY DEF Inv, TypeOK
<1>3. CASE ac' = acs /\ UNCHANGED tp
  BY <1>2, <1>3 DEF StepOf
<1>4. CASE Disconnected(conn, acs)
  BY <1>2, <1>4, DisconnectedOf DEF StepOf
<1> QED
  BY <1>1, <1>3, <1>4 DEF ErrorReason

(* A watch that is dispatched, with good outcomes.                         *)
LEMMA DispatchInv ==
  ASSUME Inv, NEW s \in Sessions, NEW w, NEW outcomes,
         \A o \in outcomes : Good(o.ac), Dispatch(s, w, outcomes),
         verify' \in VerifyType
  PROVE  Inv' /\ StepOf(s)
<1>1. Inv'
  BY EndsKept, KeptInv DEF Dispatch
<1>2. \A o \in outcomes : o.ac \in Account
  BY DEF Good
<1>3. ac[s] # NewAccount
  BY DEF Dispatch, NewAccount
<1> QED
  BY <1>1, <1>2, <1>3, EndsOf DEF Dispatch

-----------------------------------------------------------------------------
(* Outcomes                                                                *)

LEMMA OutcomeAc ==
  ASSUME NEW a, NEW n
  PROVE  Quietly(a).ac = a /\ Reporting(a, n).ac = a
BY DEF Quietly, Reporting

LEMMA DialGood ==
  ASSUME NEW a, Idle(a), NEW w \in Watches, NEW atOnce,
         w \in {"pic_connect", "pic_read"} => a.code # "none",
         \A o \in atOnce : Good(o.ac)
  PROVE  \A o \in Dial(a, w, atOnce) : Good(o.ac)
BY IdleIsGood, ArmGood, OutcomeAc DEF Dial

LEMMA SslConnectedGood ==
  ASSUME NEW a, Idle(a)
  PROVE  \A o \in SslConnected(a) : Good(o.ac)
<1> DEFINE b == [a EXCEPT !.code = "none"]
<1>1. Idle(b)
  <2>1. b \in Account /\ b.armed = a.armed /\ b.asked = a.asked /\ b.prompt = a.prompt
    BY DEF Idle, Account
  <2> HIDE DEF b
  <2> QED
    BY <2>1 DEF Idle, Pending
<1>2. Good(Arm(b, "ssi_auth"))
  BY <1>1, ArmGood DEF Watches
<1>3. SsiAuthAction(a) = {Quietly(Arm(b, "ssi_auth"))}
  BY DEF SsiAuthAction
<1> QED
  BY <1>2, <1>3, IdleIsGood, OutcomeAc DEF SslConnected

LEMMA ConnectedGood ==
  ASSUME NEW a, Idle(a)
  PROVE  /\ a.code # "none" => \A o \in PicConnected(a) : Good(o.ac)
         /\ \A o \in CfgConnected(a) \cup SipcRegAction(a) : Good(o.ac)
BY IdleIsGood, ArmGood, OutcomeAc
   DEF PicConnected, CfgConnected, SipcRegAction, Watches

-----------------------------------------------------------------------------
(* The steps of the chain                                                  *)

(* What is known of the record of a session whose watch is dispatched.     *)
LEMMA Dispatched ==
  ASSUME Inv, NEW s \in Sessions, NEW w \in Watches \ {"push"},
         NEW outcomes, Dispatch(s, w, outcomes)
  PROVE  /\ Good(ac[s])
         /\ Idle(Stop(ac[s], w))
         /\ Stop(ac[s], w).code = ac[s].code
         /\ w \in {"pic_connect", "pic_read"} => ac[s].code # "none"
<1>1. Good(ac[s]) /\ w \in ac[s].armed
  BY DEF Inv, Dispatch
<1>2. w \in Pending(ac[s])
  BY <1>1 DEF Pending
<1> QED
  BY <1>1, <1>2, StopIdle DEF Good

LEMMA VerifyKept ==
  ASSUME Inv, UNCHANGED verify
  PROVE  verify' \in VerifyType
BY DEF Inv, TypeOK, VerifyType

LEMMA SslConnectInv ==
  ASSUME Inv, NEW s \in Sessions, SslConnect(s) PROVE Inv' /\ StepOf(s)
<1>1. Idle(Stop(ac[s], "ssl_connect"))
  BY Dispatched DEF SslConnect, Watches
<1> QED
  BY <1>1, SslConnectedGood, DispatchInv, VerifyKept DEF SslConnect

LEMMA SsiAuthInv ==
  ASSUME Inv, NEW s \in Sessions, SsiAuth(s) PROVE Inv' /\ StepOf(s)
<1> DEFINE a == Stop(ac[s], "ssi_auth")
           outcomes == {Reporting(a, 1), Reporting(a, 2)}
                         \cup Dial(a, "cfg_connect", CfgConnected(a))
<1>1. Dispatch(s, "ssi_auth", outcomes) /\ UNCHANGED verify
  BY DEF SsiAuth
<1>2. Idle(a)
  BY <1>1, Dispatched DEF Watches
<1>3. \A o \in Dial(a, "cfg_connect", CfgConnected(a)) : Good(o.ac)
  BY <1>2, ConnectedGood, DialGood DEF Watches
<1>4. \A o \in outcomes : Good(o.ac)
  BY <1>2, <1>3, IdleIsGood, OutcomeAc
<1> QED
  BY <1>1, <1>4, DispatchInv, VerifyKept

LEMMA SsiNeedsCodeInv ==
  ASSUME Inv, NEW s \in Sessions, SsiNeedsCode(s) PROVE Inv' /\ StepOf(s)
<1> DEFINE b == Stop(ac[s], "ssi_auth")
           a == [b EXCEPT !.code = "wanted"]
           outcomes == Dial(a, "pic_connect", PicConnected(a))
<1>1. Dispatch(s, "ssi_auth", outcomes) /\ verify' \in VerifyType
  BY DEF SsiNeedsCode, Inv, TypeOK, VerifyType
<1>2. Idle(b)
  BY <1>1, Dispatched DEF Watches
<1>3. Idle(a) /\ a.code # "none"
  <2> HIDE DEF b
  <2>1. /\ a \in Account /\ a.armed = b.armed /\ a.asked = b.asked
        /\ a.prompt = b.prompt /\ a.code = "wanted"
    BY <1>2 DEF Idle, Account
  <2> QED
    BY <1>2, <2>1 DEF Idle, Pending
<1> HIDE DEF a
<1>4. \A o \in outcomes : Good(o.ac)
  BY <1>3, ConnectedGood, DialGood DEF Watches
<1> QED
  BY <1>1, <1>4, DispatchInv

LEMMA PicConnectInv ==
  ASSUME Inv, NEW s \in Sessions, PicConnect(s) PROVE Inv' /\ StepOf(s)
<1>1. /\ Idle(Stop(ac[s], "pic_connect"))
      /\ Stop(ac[s], "pic_connect").code # "none"
  BY Dispatched DEF PicConnect, Watches
<1> QED
  BY <1>1, ConnectedGood, DispatchInv, VerifyKept DEF PicConnect

LEMMA PicReadInv ==
  ASSUME Inv, NEW s \in Sessions, PicRead(s) PROVE Inv' /\ StepOf(s)
<1> DEFINE b == Stop(ac[s], "pic_read")
           c == Stop(b, ac[s].source)
           a == [c EXCEPT !.source = "none"]
           d == [a EXCEPT !.prompt = TRUE]
           outcomes == {Quietly(a), Reporting(a, 1), Quietly(d)}
<1>1. Dispatch(s, "pic_read", outcomes) /\ UNCHANGED verify
  BY DEF PicRead
<1>2. Idle(b) /\ b.code # "none" /\ ac[s].source \in Watches \cup {"none"}
  BY <1>1, Dispatched DEF Watches, Good, Account
<1>3. Idle(c) /\ c.code # "none"
  BY <1>2, StopKeepsIdle
<1>4. Idle(a) /\ a.code # "none"
  <2> HIDE DEF c
  <2>1. /\ a \in Account /\ a.armed = c.armed /\ a.asked = c.asked
        /\ a.prompt = c.prompt /\ a.code = c.code
    BY <1>3 DEF Idle, Account
  <2> QED
    BY <1>3, <2>1 DEF Idle, Pending
<1> HIDE DEF a
<1>5. Good(d)
  <2>1. /\ d \in Account /\ d.armed = a.armed /\ d.asked = a.asked
        /\ d.prompt = TRUE /\ d.code = a.code
    BY <1>4 DEF Idle, Account
  <2> HIDE DEF d
  <2>2. Pending(d) = {"code"}
    BY <1>4, <2>1 DEF Idle, Pending
  <2> QED
    BY <1>4, <2>1, <2>2 DEF Good
<1>6. \A o \in outcomes : Good(o.ac)
  BY <1>4, <1>5, IdleIsGood, OutcomeAc
<1> QED
  BY <1>1, <1>6, DispatchInv, VerifyKept

LEMMA CfgConnectInv ==
  ASSUME Inv, NEW s \in Sessions, CfgConnect(s) PROVE Inv' /\ StepOf(s)
<1>1. Idle(Stop(ac[s], "cfg_connect"))
  BY Dispatched DEF CfgConnect, Watches
<1> QED
  BY <1>1, ConnectedGood, DispatchInv, VerifyKept DEF CfgConnect

LEMMA CfgReadInv ==
  ASSUME Inv, NEW s \in Sessions, CfgRead(s) PROVE Inv' /\ StepOf(s)
<1> DEFINE a == Stop(ac[s], "cfg_read")
           outcomes == {Reporting(a, 1)}
                         \cup Dial(a, "sipc_connect", SipcRegAction(a))
<1>1. Dispatch(s, "cfg_read", outcomes) /\ UNCHANGED verify
  BY DEF CfgRead
<1>2. Idle(a)
  BY <1>1, Dispatched DEF Watches
<1>3. \A o \in Dial(a, "sipc_connect", SipcRegAction(a)) : Good(o.ac)
  BY <1>2, ConnectedGood, DialGood DEF Watches
<1>4. \A o \in outcomes : Good(o.ac)
  BY <1>2, <1>3, IdleIsGood, OutcomeAc
<1> QED
  BY <1>1, <1>4, DispatchInv, VerifyKept

LEMMA SipcConnectInv ==
  ASSUME Inv, NEW s \in Sessions, SipcConnect(s) PROVE Inv' /\ StepOf(s)
<1>1. Idle(Stop(ac[s], "sipc_connect"))
  BY Dispatched DEF SipcConnect, Watches
<1> QED
  BY <1>1, ConnectedGood, DispatchInv, VerifyKept DEF SipcConnect

LEMMA SipcRegFailsInv ==
  ASSUME Inv, NEW s \in Sessions, SipcRegFails(s) PROVE Inv' /\ StepOf(s)
<1> DEFINE a == Stop(ac[s], "sipc_reg")
           outcomes == {Reporting(a, 1), Quietly(a)}
<1>1. Dispatch(s, "sipc_reg", outcomes) /\ UNCHANGED verify
  BY DEF SipcRegFails
<1>2. Idle(a)
  BY <1>1, Dispatched DEF Watches
<1>3. \A o \in outcomes : Good(o.ac)
  BY <1>2, IdleIsGood, OutcomeAc
<1> QED
  BY <1>1, <1>3, DispatchInv, VerifyKept

LEMMA SipcRegInv ==
  ASSUME Inv, NEW s \in Sessions, SipcReg(s) PROVE Inv' /\ StepOf(s)
<1> DEFINE a == Stop(ac[s], "sipc_reg")
           outcomes == {Quietly(SipcAuthAction(Store(a, "push"), s))}
<1>1. Dispatch(s, "sipc_reg", outcomes) /\ UNCHANGED verify
  BY DEF SipcReg
<1>2. Idle(a)
  BY <1>1, Dispatched DEF Watches
<1> HIDE DEF a
<1>3. \A o \in outcomes : Good(o.ac)
  BY <1>2, StorePushIdle, AuthActionGood, OutcomeAc
<1> QED
  BY <1>1, <1>3, DispatchInv, VerifyKept

-----------------------------------------------------------------------------
(* The window                                                              *)

(* While the window is open nothing else is pending.                       *)
LEMMA PromptIdle ==
  ASSUME NEW a, Good(a), a.prompt, NEW c \in {"given", a.code}
  PROVE  Idle([a EXCEPT !.prompt = FALSE, !.code = c])
<1>1. Pending(a) = {"code"}
  BY DEF Good, Pending
<1> DEFINE b == [a EXCEPT !.prompt = FALSE, !.code = c]
<1>2. b \in Account /\ b.armed = a.armed /\ b.asked = a.asked /\ b.prompt = FALSE
  BY DEF Good, Account
<1>3. ~a.asked /\ a.armed \subseteq {"push"}
  BY <1>1 DEF Pending, Good, Account, Watches
<1> SUFFICES Idle(b)
  OBVIOUS
<1> HIDE DEF b
<1> QED
  BY <1>2, <1>3 DEF Idle, Pending

LEMMA CodeEnteredInv ==
  ASSUME Inv, NEW s \in Sessions, CodeEntered(s) PROVE Inv' /\ StepOf(s)
<1> DEFINE a == [ac[s] EXCEPT !.prompt = FALSE, !.code = "given"]
           outcomes == IF verify.type = "ssi"
                       THEN Dial(a, "ssl_connect", SslConnected(a))
                       ELSE {Quietly(SipcAuthAction(a, verify.sipc_conn))}
<1>1. /\ ac[s].prompt /\ Ends(s, outcomes)
      /\ UNCHANGED <<conn, data, keep_alive_source, verify>>
  BY DEF CodeEntered
<1>2. Idle(a)
  BY <1>1, PromptIdle DEF Inv
<1>3. verify.sipc_conn \in Sessions \cup {None}
  BY DEF Inv, TypeOK
<1> HIDE DEF a
<1>4. \A o \in outcomes : Good(o.ac)
  <2>1. CASE verify.type = "ssi"
    BY <1>2, <2>1, SslConnectedGood, DialGood DEF Watches
  <2>2. CASE verify.type # "ssi"
    BY <1>2, <1>3, <2>2, AuthActionGood, OutcomeAc
  <2> QED
    BY <2>1, <2>2
<1>5. ac[s] # NewAccount /\ \A o \in outcomes : o.ac \in Account
  BY <1>1, <1>4 DEF NewAccount, Good
<1> QED
  BY <1>1, <1>4, <1>5, EndsKept, KeptInv, VerifyKept, EndsOf

LEMMA CodeCancelledInv ==
  ASSUME Inv, NEW s \in Sessions, CodeCancelled(s) PROVE Inv' /\ StepOf(s)
<1> DEFINE a == [ac[s] EXCEPT !.prompt = FALSE]
<1>1. /\ ac[s].prompt /\ Ends(s, {Quietly(a)})
      /\ UNCHANGED <<conn, data, keep_alive_source, verify>>
  BY DEF CodeCancelled
<1>2. a = [ac[s] EXCEPT !.prompt = FALSE, !.code = ac[s].code]
  BY DEF Inv, TypeOK, Account
<1>3. Idle(a)
  BY <1>1, <1>2, PromptIdle DEF Inv
<1>4. \A o \in {Quietly(a)} : Good(o.ac)
  BY <1>3, IdleIsGood, OutcomeAc
<1>5. ac[s] # NewAccount /\ \A o \in {Quietly(a)} : o.ac \in Account
  BY <1>1, <1>4 DEF NewAccount, Good
<1> QED
  BY <1>1, <1>4, <1>5, EndsKept, KeptInv, VerifyKept, EndsOf

-----------------------------------------------------------------------------
(* The pushed messages                                                     *)

(* The answer was the only thing pending.                                  *)
LEMMA AnswerIdle ==
  ASSUME NEW a, Good(a), a.asked, NEW c \in {"wanted", a.code}
  PROVE  Idle([a EXCEPT !.asked = FALSE, !.code = c])
<1>1. Pending(a) = {"answer"}
  BY DEF Good, Pending
<1> DEFINE b == [a EXCEPT !.asked = FALSE, !.code = c]
<1>2. b \in Account /\ b.armed = a.armed /\ b.asked = FALSE /\ b.prompt = a.prompt
  BY DEF Good, Account
<1>3. ~a.prompt /\ a.armed \subseteq {"push"}
  BY <1>1 DEF Pending, Good, Account, Watches
<1> SUFFICES Idle(b)
  OBVIOUS
<1> HIDE DEF b
<1> QED
  BY <1>2, <1>3 DEF Idle, Pending

(* One record changed, and nothing of the account.                         *)
LEMMA RecordInv ==
  ASSUME Inv, NEW s \in Sessions, NEW b, Good(b), ac' = [ac EXCEPT ![s] = b],
         UNCHANGED <<accountVars, shut>>, verify' \in VerifyType,
         crashed' \in BOOLEAN, ac[s] # NewAccount
  PROVE  Inv' /\ StepOf(s)
<1>1. StepOf(s)
  BY DEF StepOf, accountVars, Inv, TypeOK
<1> QED
  BY <1>1 DEF Inv, TypeOK, VerifyType, Statuses, accountVars, EnabledHasData,
       OneKeepAlive, Good

(* The authentication that the server answers, seen from its record.       *)
LEMMA AnsweredIdle ==
  ASSUME Inv, NEW s \in Sessions, Answered(s)
  PROVE  /\ ac[s] # NewAccount
         /\ Idle([ac[s] EXCEPT !.asked = FALSE])
         /\ Idle([ac[s] EXCEPT !.asked = FALSE, !.code = "wanted"])
<1>1. Good(ac[s]) /\ ac[s].asked
  BY DEF Inv, Answered
<1>2. [ac[s] EXCEPT !.asked = FALSE]
        = [ac[s] EXCEPT !.asked = FALSE, !.code = ac[s].code]
  BY DEF Inv, TypeOK, Account
<1>3. ac[s] # NewAccount
  BY <1>1 DEF NewAccount
<1> QED
  BY <1>1, <1>2, <1>3, AnswerIdle

LEMMA AuthAcceptedInv ==
  ASSUME Inv, NEW s \in Sessions, AuthAccepted(s) PROVE Inv' /\ StepOf(s)
<1> DEFINE b == [ac[s] EXCEPT !.asked = FALSE]
<1>1. Good(b) /\ b \in Account
  BY AnsweredIdle, IdleIsGood DEF AuthAccepted, Idle
<1>2. ac' = [ac EXCEPT ![s] = b]
  BY DEF AuthAccepted, Inv, TypeOK
<1>3. ac' \in [Sessions -> Account] /\ \A r \in Sessions : Good(ac'[r])
  <2> HIDE DEF b
  <2> QED
    BY <1>1, <1>2 DEF Inv, TypeOK
<1>4. crashed' \in BOOLEAN
  BY MayCrashType DEF AuthAccepted, SetConnected
<1>5. ASSUME UNCHANGED <<tp, connect_state, timers, keep_alive_source>>
      PROVE  Inv'
  BY <1>3, <1>4, <1>5
     DEF AuthAccepted, Inv, TypeOK, EnabledHasData, OneKeepAlive
<1>6. ASSUME /\ connect_state # "connected"
             /\ connect_state' = "connected"
             /\ tp' = [tp EXCEPT ![conn] = IF @ = "connecting" THEN "connected" ELSE @]
             /\ timers' = timers \cup {s}
             /\ keep_alive_source' = s
      PROVE  Inv'
  <2>1. timers = {} /\ timers' = {s}
    BY <1>6 DEF Inv, OneKeepAlive
  <2>2. tp' \in [Sessions -> Statuses]
    BY <1>6 DEF Inv, TypeOK, Statuses
  <2> QED
    BY <1>3, <1>4, <1>6, <2>1, <2>2
       DEF AuthAccepted, Inv, TypeOK, Statuses, EnabledHasData, OneKeepAlive
<1>7. StepOf(s)
  <2>1. \A r \in Sessions : tp'[r] = tp[r] \/ tp'[r] = "connected"
    BY DEF AuthAccepted, SetConnected, Inv, TypeOK
  <2>2. ac[s] # NewAccount
    BY AnsweredIdle DEF AuthAccepted
  <2> QED
    BY <2>1, <2>2, <1>2 DEF StepOf, NotStarted, AuthAccepted, Inv, TypeOK
<1> QED
  BY <1>5, <1>6, <1>7 DEF AuthAccepted, SetConnected

LEMMA AuthNeedsCodeInv ==
  ASSUME Inv, NEW s \in Sessions, AuthNeedsCode(s) PROVE Inv' /\ StepOf(s)
<1> DEFINE a == [ac[s] EXCEPT !.asked = FALSE, !.code = "wanted"]
<1>1. Idle(a) /\ a.code # "none"
  <2>1. ac[s] \in Account
    BY DEF Inv, TypeOK
  <2>2. a.code = "wanted"
    BY <2>1 DEF Account
  <2> QED
    BY <2>2, AnsweredIdle DEF AuthNeedsCode
<1>2. PICK o \in Dial(a, "pic_connect", PicConnected(a)) :
        ac' = [ac EXCEPT ![s] = o.ac]
  BY DEF AuthNeedsCode
<1>3. verify' \in VerifyType
  BY DEF AuthNeedsCode, Inv, TypeOK, VerifyType, Account
<1>4. crashed' \in BOOLEAN
  BY MayCrashType DEF AuthNeedsCode
<1>5. UNCHANGED <<accountVars, shut>>
  BY DEF AuthNeedsCode
<1> HIDE DEF a
<1>6. Good(o.ac)
  BY <1>1, ConnectedGood, DialGood DEF Watches
<1> QED
  BY <1>2, <1>3, <1>4, <1>5, <1>6, RecordInv, AnsweredIdle DEF AuthNeedsCode

LEMMA AuthBadChallengeInv ==
  ASSUME Inv, NEW s \in Sessions, AuthBadChallenge(s) PROVE Inv' /\ StepOf(s)
<1> DEFINE a == [ac[s] EXCEPT !.asked = FALSE, !.code = "wanted"]
<1>1. Dispatch(s, "push", {Reporting(a, 1)}) /\ UNCHANGED verify
  BY DEF AuthBadChallenge
<1>2. Good(a)
  BY AnsweredIdle, IdleIsGood DEF AuthBadChallenge
<1>3. \A o \in {Reporting(a, 1)} : Good(o.ac)
  BY <1>2, OutcomeAc
<1> QED
  BY <1>1, <1>3, DispatchInv, VerifyKept

LEMMA AuthRefusedInv ==
  ASSUME Inv, NEW s \in Sessions, AuthRefused(s) PROVE Inv' /\ StepOf(s)
<1> DEFINE b == [ac[s] EXCEPT !.asked = FALSE]
<1>1. Good(b)
  BY AnsweredIdle, IdleIsGood DEF AuthRefused
<1>2. ac' = [ac EXCEPT ![s] = b] /\ UNCHANGED <<accountVars, shut, verify>>
  BY DEF AuthRefused, Inv, TypeOK
<1>3. crashed' \in BOOLEAN
  BY MayCrashType DEF AuthRefused
<1> QED
  BY <1>1, <1>2, <1>3, RecordInv, VerifyKept, AnsweredIdle DEF AuthRefused

LEMMA DeregisteredInv ==
  ASSUME Inv, NEW s \in Sessions, Deregistered(s) PROVE Inv' /\ StepOf(s)
BY OutcomeAc, DispatchInv, VerifyKept DEF Deregistered, Inv

LEMMA PushFailsInv ==
  ASSUME Inv, NEW s \in Sessions, PushFails(s) PROVE Inv' /\ StepOf(s)
<1>1. Good(Stop(ac[s], "push"))
  BY StopGood DEF Inv, Stop
<1> QED
  BY <1>1, OutcomeAc, DispatchInv, VerifyKept DEF PushFails

LEMMA PushEndsInv ==
  ASSUME Inv, NEW s \in Sessions, PushEnds(s) PROVE Inv' /\ StepOf(s)
<1> DEFINE a == Stop(ac[s], "push")
           b == [a EXCEPT !.freed = TRUE]
<1>1. Good(a)
  BY StopGood DEF Inv, Stop
<1>2. Good(b)
  <2> HIDE DEF a
  <2>1. /\ b \in Account /\ b.armed = a.armed /\ b.asked = a.asked
        /\ b.prompt = a.prompt /\ b.code = a.code
    BY <1>1 DEF Good, Account
  <2>2. Pending(b) = Pending(a)
    BY <2>1 DEF Pending
  <2> HIDE DEF b
  <2> QED
    BY <1>1, <2>1, <2>2 DEF Good
<1>3. ac' = [ac EXCEPT ![s] = b] /\ UNCHANGED <<accountVars, shut, verify>>
  BY DEF PushEnds, Inv, TypeOK
<1>4. crashed' \in BOOLEAN
  BY MayCrashType DEF PushEnds
<1>5. ac[s] # NewAccount
  BY DEF PushEnds, NewAccount
<1> QED
  BY <1>2, <1>3, <1>4, <1>5, RecordInv, VerifyKept

-----------------------------------------------------------------------------
(* Telepathy's side                                                        *)

LEMMA NewConnectionInv ==
  ASSUME Inv, NEW s \in Sessions, NewConnection(s) PROVE Inv' /\ StepOf(s)
<1>1. \A r \in Sessions : tp'[r] = tp[r] \/ tp[r] = "none"
  BY DEF NewConnection, Inv, TypeOK
<1>2. StepOf(s)
  BY <1>1 DEF NewConnection, StepOf, NotStarted
<1> QED
  BY <1>2 DEF NewConnection, Inv, TypeOK, EnabledHasData, OneKeepAlive

(* The session that starts has a new record: nothing was ever pending.     *)
LEMMA ConnectInv ==
  ASSUME Inv, NEW s \in Sessions, Connect(s), Idle(ac[s]) PROVE Inv' /\ StepOf(s)
<1>1. /\ data' = s /\ enabled' = TRUE /\ tp' \in [Sessions -> Statuses]
      /\ UNCHANGED <<conn, connect_state, timers, keep_alive_source, shut,
                     verify, crashed>>
  BY DEF Connect, Inv, TypeOK, Statuses
<1>2. ac' \in [Sessions -> Account] /\ \A r \in Sessions : Good(ac'[r])
  <2>1. CASE UNCHANGED ac
    BY <2>1 DEF Inv, TypeOK
  <2>2. CASE \E o \in SslConnected(ac[s]) \cup {Quietly(Arm(ac[s], "ssl_connect"))} :
               ac' = [ac EXCEPT ![s] = o.ac]
    <3>1. PICK o \in SslConnected(ac[s]) \cup {Quietly(Arm(ac[s], "ssl_connect"))} :
            ac' = [ac EXCEPT ![s] = o.ac]
      BY <2>2
    <3>2. Good(Arm(ac[s], "ssl_connect"))
      BY ArmGood DEF Watches
    <3>3. Good(o.ac) /\ o.ac \in Account
      BY <3>2, SslConnectedGood, OutcomeAc DEF Good
    <3> QED
      BY <3>1, <3>3 DEF Inv, TypeOK
  <2> QED
    BY <2>1, <2>2 DEF Connect
<1>3. s # None
  BY SessionAssumption DEF Sessions, None
<1>4. StepOf(s)
  <2>1. tp'[s] \notin NotStarted /\ \A r \in Sessions \ {s} : tp'[r] = tp[r]
    BY DEF Connect, Inv, TypeOK, NotStarted
  <2>2. \A r \in Sessions \ {s} : ac'[r] = ac[r]
    BY DEF Connect, Inv, TypeOK
  <2> QED
    BY <1>1, <2>1, <2>2 DEF StepOf
<1> QED
  BY <1>1, <1>2, <1>3, <1>4 DEF Inv, TypeOK, Statuses, EnabledHasData, OneKeepAlive

LEMMA DisconnectInv ==
  ASSUME Inv, NEW s \in Sessions, Disconnect(s) PROVE Inv' /\ StepOf(s)
<1>1. ac \in [Sessions -> Account] /\ \A r \in Sessions : Good(ac[r])
  BY DEF Inv, TypeOK
<1>2. Kept /\ tp' \in [Sessions -> Statuses] /\ crashed' \in BOOLEAN
  BY <1>1, DisconnectedKept, MayCrashType DEF Disconnect
<1>3. ac[s] # NewAccount \/ tp'[s] \notin NotStarted
  BY DEF Disconnect, Disconnected, Inv, TypeOK, NotStarted
<1>4. StepOf(s)
  BY <1>1, <1>3, DisconnectedOf DEF Disconnect, StepOf
<1> QED
  BY <1>2, <1>4, KeptInv, VerifyKept DEF Disconnect

LEMMA SetOfflineInv ==
  ASSUME Inv, NEW s \in Sessions, SetOffline(s) PROVE Inv' /\ StepOf(s)
<1>1. ac \in [Sessions -> Account] /\ \A r \in Sessions : Good(ac[r])
  BY DEF Inv, TypeOK
<1>2. Kept /\ crashed' \in BOOLEAN
  BY <1>1, AccountCloseKept, MayCrashType DEF SetOffline
<1>3. tp' \in [Sessions -> Statuses]
  BY DEF SetOffline, Inv, TypeOK, Statuses
<1>4. StepOf(s)
  BY <1>1, AccountCloseOf DEF SetOffline, StepOf, NotStarted
<1> QED
  BY <1>2, <1>3, <1>4, KeptInv, VerifyKept DEF SetOffline

LEMMA KeepAliveStopsInv ==
  ASSUME Inv, NEW s \in Sessions, KeepAliveStops(s) PROVE Inv' /\ StepOf(s)
<1>1. timers' = {}
  BY DEF KeepAliveStops, Inv, OneKeepAlive
<1>2. crashed' \in BOOLEAN
  BY MayCrashType DEF KeepAliveStops
<1>3. StepOf(s)
  BY DEF KeepAliveStops, StepOf
<1> QED
  BY <1>1, <1>2, <1>3 DEF KeepAliveStops, Inv, TypeOK, EnabledHasData, OneKeepAlive

-----------------------------------------------------------------------------
(* The specification                                                       *)

IInv == Inv /\ Unstarted

LEMMA NewAccountIdle == Idle(NewAccount)
BY DEF Idle, NewAccount, Account, Pending

LEMMA InitInv == Init => IInv
<1> SUFFICES ASSUME Init PROVE IInv
  OBVIOUS
<1>1. TypeOK
  BY NewAccountIdle DEF Init, TypeOK, Idle
<1>2. \A s \in Sessions : ac[s] = NewAccount
  BY DEF Init
<1>3. \A s \in Sessions : Good(ac[s])
  BY <1>2, NewAccountIdle, IdleIsGood
<1> QED
  BY <1>1, <1>2, <1>3
     DEF Init, IInv, Inv, Unstarted, EnabledHasData, OneKeepAlive

LEMMA NextInv == IInv /\ [Next]_vars => IInv'
<1> SUFFICES ASSUME IInv, [Next]_vars PROVE IInv'
  OBVIOUS
<1>1. ASSUME NEW s \in Sessions, Inv' /\ StepOf(s)
      PROVE  IInv'
  BY <1>1, UnstartedStep DEF IInv
<1>2. CASE UNCHANGED vars
  BY <1>2 DEF vars, accountVars, IInv, Inv, TypeOK, Unstarted, EnabledHasData,
              OneKeepAlive
<1>3. ASSUME NEW s \in Sessions, Connect(s)
      PROVE  IInv'
  <2>1. Idle(ac[s])
    BY <1>3, NewAccountIdle DEF Connect, IInv, Unstarted, NotStarted
  <2> QED
    BY <1>1, <1>3, <2>1, ConnectInv DEF IInv
<1>4. ASSUME NEW s \in Sessions,
             \/ NewConnection(s) \/ Disconnect(s) \/ SetOffline(s)
             \/ KeepAliveStops(s)
      PROVE  IInv'
  BY <1>1, <1>4, NewConnectionInv, DisconnectInv, SetOfflineInv,
     KeepAliveStopsInv DEF IInv
<1>5. ASSUME NEW s \in Sessions,
             \/ SslConnect(s) \/ SsiAuth(s) \/ SsiNeedsCode(s)
             \/ PicConnect(s) \/ PicRead(s) \/ CodeEntered(s) \/ CodeCancelled(s)
      PROVE  IInv'
  BY <1>1, <1>5, SslConnectInv, SsiAuthInv, SsiNeedsCodeInv, PicConnectInv,
     PicReadInv, CodeEnteredInv, CodeCancelledInv DEF IInv
<1>6. ASSUME NEW s \in Sessions,
             \/ CfgConnect(s) \/ CfgRead(s) \/ SipcConnect(s)
             \/ SipcRegFails(s) \/ SipcReg(s)
      PROVE  IInv'
  BY <1>1, <1>6, CfgConnectInv, CfgReadInv, SipcConnectInv, SipcRegFailsInv,
     SipcRegInv DEF IInv
<1>7. ASSUME NEW s \in Sessions,
             \/ AuthAccepted(s) \/ AuthNeedsCode(s) \/ AuthBadChallenge(s)
             \/ AuthRefused(s) \/ Deregistered(s) \/ PushFails(s) \/ PushEnds(s)
      PROVE  IInv'
  BY <1>1, <1>7, AuthAcceptedInv, AuthNeedsCodeInv, AuthBadChallengeInv,
     AuthRefusedInv, DeregisteredInv, PushFailsInv, PushEndsInv DEF IInv
<1> QED
  BY <1>2, <1>3, <1>4, <1>5, <1>6, <1>7 DEF Next

LEMMA Inductive == Spec => []IInv
BY InitInv, NextInv, PTL DEF Spec

(* Every variable keeps its type, whatever the sockets deliver.            *)
THEOREM TypeCorrect == Spec => []TypeOK
<1>1. IInv => TypeOK
  BY DEF IInv, Inv
<1> QED
  BY <1>1, Inductive, PTL

(* No two keep alive timers run, and none for an account that is not       *)
(* connected, although the chain of a closed session may go on.            *)
THEOREM KeepAliveSafe == Spec => []OneKeepAlive
<1>1. IInv => OneKeepAlive
  BY DEF IInv, Inv
<1> QED
  BY <1>1, Inductive, PTL

(* The chain of callbacks of a session never forks, through any number of  *)
(* verifications and later sessions.                                       *)
THEOREM ChainNeverForks == Spec => []OneStep
<1>1. IInv => OneStep
  BY DEF IInv, Inv, Good, OneStep
<1> QED
  BY <1>1, Inductive, PTL

(* pic_download_cb and pic_code_ok_cb find the verification they use.      *)
THEOREM VerificationThere == Spec => []VerificationPresent
<1>1. IInv => VerificationPresent
  BY DEF IInv, Inv, Good, VerificationPresent
<1> QED
  BY <1>1, Inductive, PTL

=============================================================================
