--------------------------- MODULE GatewayProofs ---------------------------
(***************************************************************************)
(* Proofs about Gateway, for any configurations, hosts and number of       *)
(* requests, and a reload between any two reads of any of them: types,     *)
(* what a reload leaves behind, what a request may serve, and that tls-ask *)
(* agrees with the public handler.  And proofs about the label of a host   *)
(* (Labels, Names), for keys and labels of any length in any base: labels  *)
(* are canonical, and the label of a valid manifest leads back to it.      *)
(***************************************************************************)
EXTENDS Gateway, Names, SequenceTheorems, WellFoundedInduction, TLAPS

----------------------------------------------------------------------------
(* The process: the reload goroutine and the operator.                     *)

ProcessOK ==
  /\ file \in Configs /\ signal \in BOOLEAN /\ told \in BOOLEAN
  /\ loader \in {"boot", "wait", "load", "apply", "backends", "blossom"}
  /\ reloaded \in Configs /\ cfg \in Configs /\ be \in Configs
  /\ bs \in {c.listen : c \in Configs} \union {Off}
  /\ alive \in BOOLEAN

\* Where the reload stands decides which of the configuration in force, the
\* backends and the Blossom server it has replaced already.
ReloadAgrees ==
  /\ cfg.valid
  /\ loader \in {"boot", "wait", "load", "apply"} => cfg = be /\ (bs = Off <=> cfg.listen = Off)
  /\ loader = "apply" => reloaded.valid
  /\ loader \in {"backends", "blossom"} => cfg = reloaded
  /\ loader = "blossom" => be = reloaded

ProcessInv == ProcessOK /\ ReloadAgrees

\* main starts with a configuration that is valid and could be built.
LEMMA ProcessInit == Init => ProcessInv
<1> SUFFICES ASSUME Init PROVE ProcessInv
  OBVIOUS
<1>1. file \in Good /\ file \in Configs /\ file.valid
  BY DEF Init, Good
<1>2. signal \in BOOLEAN /\ told \in BOOLEAN /\ alive \in BOOLEAN /\ alive
  BY Zenon DEF Init
<1>3. ProcessOK
  BY <1>1, <1>2 DEF Init, ProcessOK
<1>4. ReloadAgrees
  BY <1>1 DEF Init, ReloadAgrees
<1> QED
  BY <1>3, <1>4 DEF ProcessInv

\* The flags stay flags.
LEMMA FlagsStep ==
  ASSUME ProcessOK, [Next]_vars
  PROVE  signal' \in BOOLEAN /\ told' \in BOOLEAN /\ alive' \in BOOLEAN
<1> USE DEF ProcessOK
<1>1. CASE \E c \in Configs : WriteConfig(c)
  BY <1>1, Zenon DEF WriteConfig
<1>2. CASE Hup
  BY <1>2, Zenon DEF Hup
<1>3. CASE Notify \/ TakeSignal
  BY <1>3, Zenon DEF Notify, TakeSignal
<1>4. CASE Load \/ Reload
  BY <1>4, Zenon DEF Load, Reload
<1>5. CASE ApplyBackends
  <2>1. signal' = signal /\ told' = told /\ (alive' = alive \/ alive' = FALSE)
    BY <1>5, Zenon DEF ApplyBackends
  <2> QED
    BY <2>1, Zenon
<1>6. CASE ReloadBlossom
  <2>1. signal' = signal /\ told' = told /\ (alive' = alive \/ alive' = FALSE)
    BY <1>6 DEF ReloadBlossom
  <2> QED
    BY <2>1, Zenon
<1>7. CASE (\E p \in Procs : Handle(p) \/ \E r \in Requests : Begin(p, r)) \/ UNCHANGED vars
  <2>1. UNCHANGED process
    BY <1>7 DEF Handle, CheckApex, ParseHost, FindCustom, CheckAllowed, ServeSite, Begin, vars
  <2> QED
    BY <2>1, Zenon DEF process
<1> QED
  BY <1>1, <1>2, <1>3, <1>4, <1>5, <1>6, <1>7 DEF Next, ReloadStep

\* Every step of the reload leaves the parts it has replaced in agreement.
LEMMA ProcessStep == ASSUME ProcessInv, [Next]_vars PROVE ProcessInv'
<1> USE DEF ProcessInv
<1>1. signal' \in BOOLEAN /\ told' \in BOOLEAN /\ alive' \in BOOLEAN
  BY FlagsStep
<1> DEFINE TypesAgree ==
      /\ file' \in Configs /\ reloaded' \in Configs /\ cfg' \in Configs /\ be' \in Configs
      /\ loader' \in {"boot", "wait", "load", "apply", "backends", "blossom"}
      /\ bs' \in {c.listen : c \in Configs} \union {Off}
      /\ ReloadAgrees'
<1>3. CASE (\E c \in Configs : WriteConfig(c)) \/ Hup
  <2>1. file' \in Configs /\ UNCHANGED <<loader, reloaded, cfg, be, bs>>
    BY <1>3 DEF WriteConfig, Hup, ProcessOK
  <2>2. TypesAgree
    BY <2>1 DEF ProcessOK, ReloadAgrees
  <2> QED
    BY <1>1, <2>2 DEF ProcessOK
<1>4. CASE Notify \/ TakeSignal
  <2>1. /\ UNCHANGED <<file, reloaded, cfg, be, bs>>
        /\ loader \in {"boot", "wait"} /\ loader' \in {"wait", "load"}
    BY <1>4 DEF Notify, TakeSignal
  <2>2. TypesAgree
    BY <2>1 DEF ProcessOK, ReloadAgrees
  <2> QED
    BY <1>1, <2>2 DEF ProcessOK
<1>5. CASE Load
  <2>1. TypesAgree
    BY <1>5 DEF Load, ProcessOK, ReloadAgrees
  <2> QED
    BY <1>1, <2>1 DEF ProcessOK
<1>6. CASE Reload
  <2>1. TypesAgree
    BY <1>6 DEF Reload, Swapped, ProcessOK, ReloadAgrees
  <2> QED
    BY <1>1, <2>1 DEF ProcessOK
<1>7. CASE ApplyBackends
  <2>1. TypesAgree
    BY <1>7 DEF ApplyBackends, ProcessOK, ReloadAgrees
  <2> QED
    BY <1>1, <2>1 DEF ProcessOK
<1>8. CASE ReloadBlossom
  <2>1. /\ UNCHANGED <<file, reloaded, cfg, be>> /\ loader = "blossom"
        /\ \/ UNCHANGED <<bs, loader>>
           \/ /\ loader' = "wait"
              /\ bs' = IF (bs = Off /\ reloaded.listen # Off) \/ reloaded.listen = Off
                       THEN reloaded.listen ELSE bs
    BY <1>8 DEF ReloadBlossom
  <2>2. TypesAgree
    BY <2>1 DEF ProcessOK, ReloadAgrees
  <2> QED
    BY <1>1, <2>2 DEF ProcessOK
<1>9. CASE (\E p \in Procs : Handle(p) \/ \E r \in Requests : Begin(p, r)) \/ UNCHANGED vars
  <2>1. UNCHANGED process
    BY <1>9 DEF Handle, CheckApex, ParseHost, FindCustom, CheckAllowed, ServeSite, Begin, vars
  <2>2. TypesAgree
    BY <2>1 DEF process, ProcessOK, ReloadAgrees
  <2> QED
    BY <1>1, <2>2 DEF ProcessOK
<1> QED
  BY <1>3, <1>4, <1>5, <1>6, <1>7, <1>8, <1>9 DEF Next, ReloadStep

\* The process invariant holds throughout.
LEMMA ProcessAlways == Spec => []ProcessInv
<1>1. ProcessInv /\ [Next]_vars => ProcessInv'
  BY ProcessStep
<1> QED
  BY ProcessInit, <1>1, PTL DEF Spec

\* Between reloads the handlers and the backends have one and the same valid
\* configuration, and the local Blossom server runs if and only if it says so.
THEOREM ReloadLeavesAgreement == Spec => []BackendsMatchConfig
<1>1. ProcessInv => BackendsMatchConfig
  BY DEF ProcessInv, ReloadAgrees, BackendsMatchConfig
<1> QED
  BY <1>1, ProcessAlways, PTL

----------------------------------------------------------------------------
(* The requests.                                                           *)

Codes == {"none", "apex", "site", "404", "ok", "403"}

RequestOK ==
  /\ pc \in [Procs -> {"idle", "apex", "parse", "custom", "allow", "serve"}]
  /\ req \in [Procs -> Requests]
  /\ site \in [Procs -> Sites \union {NoSite}]
  /\ answer \in [Procs -> [code : Codes, site : Sites \union {NoSite}]]
  /\ window \in [Procs -> SUBSET Configs]

\* What a request has read so far it read from configurations of its window, and
\* the one in force is in it.
ReadInWindow(p) ==
  /\ pc[p] # "idle" => cfg \in window[p] /\ answer[p].code = "none"
  /\ pc[p] \in {"allow", "serve"} =>
       site[p] \in Sites /\ \E c \in window[p] : Names(c, req[p].host, site[p])
  /\ pc[p] = "serve" => /\ req[p].handler = "public"
                        /\ \E c \in window[p] : Permits(c, site[p])

\* A site that was served was permitted and named.
WasAllowed(p) ==
  answer[p].code = "site" => /\ \E c \in window[p] : Permits(c, answer[p].site)
                             /\ \E c \in window[p] : Names(c, req[p].host, answer[p].site)

\* Where all reads were of one configuration c, they fit together: the request is
\* on its way to the answer that c gives.
ReadsFit(p, c) ==
  LET h == req[p].host IN
  /\ pc[p] \in {"parse", "custom", "allow", "serve"} => ~ IsApex(c, h)
  /\ pc[p] = "custom" => h.domain # c.domain
  /\ pc[p] \in {"allow", "serve"} => Names(c, h, site[p])
  /\ pc[p] = "serve" => Allowlisted(c, site[p])
  /\ (pc[p] = "idle" /\ req[p].path = "good" /\ answer[p].code # "none")
       => (answer[p].code \in {"apex", "site", "ok"} <=> Serves(c, h))

RequestFits(p) == /\ ReadInWindow(p) /\ WasAllowed(p)
                  /\ \A c \in Configs : window[p] = {c} => ReadsFit(p, c)

RequestInv == RequestOK /\ cfg \in Configs /\ \A p \in Procs : RequestFits(p)

\* Custom domains are outside the gateway's own and name sites.
LEMMA CustomDomains ==
  ASSUME NEW c \in Configs, NEW h \in DOMAIN c.custom
  PROVE  h.domain # c.domain /\ c.custom[h] \in Sites
  BY GatewayAssumption

\* A configuration names at most one site by a host.
LEMMA NamesOne ==
  ASSUME NEW c, NEW h, NEW s, NEW t, Names(c, h, s), Names(c, h, t) PROVE s = t
  BY DEF Names

\* Only what the allowlist admits is permitted, and all of it but snapshots is.
LEMMA AllowlistedPermits ==
  ASSUME NEW c, NEW s
  PROVE  /\ Allowlisted(c, s) => Permits(c, s)
         /\ s.type # "snapshot" /\ Permits(c, s) => Allowlisted(c, s)
  BY DEF Allowlisted, Permits

\* A host that is no apex and names s is served exactly if s may be.
LEMMA ServesNamed ==
  ASSUME NEW c, NEW h, NEW s \in Sites, ~ IsApex(c, h), Names(c, h, s)
  PROVE  Serves(c, h) <=> s.type # "snapshot" /\ Allowlisted(c, s)
<1>1. ASSUME Serves(c, h) PROVE s.type # "snapshot" /\ Allowlisted(c, s)
  <2>1. PICK t \in Sites : t.type # "snapshot" /\ Names(c, h, t) /\ Permits(c, t)
    BY <1>1 DEF Serves
  <2>2. t = s
    BY <2>1, NamesOne
  <2> QED
    BY <2>1, <2>2, AllowlistedPermits
<1>2. ASSUME s.type # "snapshot", Allowlisted(c, s) PROVE Serves(c, h)
  BY <1>2, AllowlistedPermits DEF Serves
<1> QED
  BY <1>1, <1>2

\* No request has begun.
LEMMA RequestInit == Init => RequestInv
<1> SUFFICES ASSUME Init PROVE RequestInv
  OBVIOUS
<1>1. (CHOOSE r \in Requests : TRUE) \in Requests
  <2>1. \E r \in Requests : TRUE
    <3>1. PICK h \in Hosts : TRUE
      BY GatewayAssumption
    <3>2. [handler |-> "ask", host |-> h, path |-> "good"] \in Requests
      BY <3>1 DEF Requests
    <3> QED
      BY <3>2
  <2> QED
    BY <2>1
<1>2. NoAnswer \in [code : Codes, site : Sites \union {NoSite}] /\ NoAnswer.code = "none"
  BY DEF NoAnswer, Answer, Codes
<1>3. RequestOK
  BY <1>1, <1>2 DEF Init, RequestOK
<1>4. cfg \in Configs
  BY DEF Init, Good
<1>5. \A p \in Procs : RequestFits(p)
  BY <1>2 DEF Init, RequestFits, ReadInWindow, WasAllowed, ReadsFit
<1> QED
  BY <1>3, <1>4, <1>5 DEF RequestInv

\* A step that leaves p and the configuration alone keeps what p has read.
LEMMA FitsFrame ==
  ASSUME NEW p \in Procs, RequestFits(p), cfg' = cfg, pc'[p] = pc[p], req'[p] = req[p],
         site'[p] = site[p], answer'[p] = answer[p], window'[p] = window[p]
  PROVE  RequestFits(p)'
  BY DEF RequestFits, ReadInWindow, WasAllowed, ReadsFit

\* What a step of the handler for p does to the rest: nothing.
LEMMA HandlerFrame ==
  ASSUME RequestInv, RequestOK', NEW p \in Procs, cfg' = cfg, RequestFits(p)',
         \A q \in Procs : q # p => /\ pc'[q] = pc[q] /\ req'[q] = req[q] /\ site'[q] = site[q]
                                   /\ answer'[q] = answer[q] /\ window'[q] = window[q]
  PROVE  RequestInv'
<1>1. ASSUME NEW q \in Procs, q # p PROVE RequestFits(q)'
  BY <1>1, FitsFrame DEF RequestInv
<1> QED
  BY <1>1 DEF RequestInv

\* A reload adds the new configuration to the window of every request under way,
\* so that a window of one configuration means that nothing changed.
LEMMA ReloadKeepsRequests ==
  ASSUME RequestInv, reloaded \in Configs, Reload PROVE RequestInv'
<1>1. /\ cfg' = reloaded /\ UNCHANGED <<pc, req, site, answer>>
      /\ window' = [p \in Procs |-> IF pc[p] = "idle" THEN window[p]
                                    ELSE window[p] \union {cfg'}]
  BY DEF Reload, Swapped
<1>2. RequestOK' /\ cfg' \in Configs
  BY <1>1 DEF RequestInv, RequestOK
<1>3. ASSUME NEW p \in Procs PROVE RequestFits(p)'
  <2>1. RequestFits(p) /\ cfg \in Configs
    BY DEF RequestInv
  <2>2. ReadInWindow(p)' /\ WasAllowed(p)'
    <3>1. pc[p] # "idle" => cfg' \in window'[p]
      BY <1>1
    <3>2. window[p] \subseteq window'[p]
      BY <1>1
    <3> QED
      BY <1>1, <2>1, <3>1, <3>2 DEF RequestFits, ReadInWindow, WasAllowed
  <2>3. ASSUME NEW c \in Configs, window'[p] = {c} PROVE ReadsFit(p, c)'
    <3>1. window[p] = {c}
      BY <1>1, <2>1, <2>3 DEF RequestFits, ReadInWindow
    <3>2. ReadsFit(p, c)
      BY <2>1, <3>1 DEF RequestFits
    <3> QED
      BY <1>1, <3>2 DEF ReadsFit
  <2> QED
    BY <2>2, <2>3 DEF RequestFits
<1> QED
  BY <1>2, <1>3 DEF RequestInv

\* A request begins with nothing read.
LEMMA BeginKeeps ==
  ASSUME RequestInv, NEW p \in Procs, NEW r \in Requests, Begin(p, r) PROVE RequestInv'
<1>1. /\ cfg' = cfg /\ cfg \in Configs /\ pc[p] = "idle"
      /\ req' = [req EXCEPT ![p] = r] /\ window' = [window EXCEPT ![p] = {cfg}]
      /\ site' = [site EXCEPT ![p] = NoSite]
  BY DEF Begin, RequestInv, process
<1>2. \/ /\ r.path = "internal" /\ pc' = [pc EXCEPT ![p] = "idle"]
         /\ answer' = [answer EXCEPT ![p] = Answer("404", NoSite)]
      \/ /\ pc' = [pc EXCEPT ![p] = "apex"]
         /\ answer' = [answer EXCEPT ![p] = Answer("none", NoSite)]
  BY DEF Begin, Reply, Goto, NoAnswer
<1>3. RequestOK'
  BY <1>1, <1>2 DEF RequestInv, RequestOK, Answer, Codes
<1>4. /\ req'[p] = r /\ window'[p] = {cfg}
      /\ \/ r.path = "internal" /\ pc'[p] = "idle" /\ answer'[p].code = "404"
         \/ pc'[p] = "apex" /\ answer'[p].code = "none"
      /\ \A q \in Procs : q # p => /\ pc'[q] = pc[q] /\ req'[q] = req[q] /\ site'[q] = site[q]
                                   /\ answer'[q] = answer[q] /\ window'[q] = window[q]
  BY <1>1, <1>2 DEF RequestInv, RequestOK, Answer
<1>5. RequestFits(p)'
  BY <1>1, <1>4 DEF RequestFits, ReadInWindow, WasAllowed, ReadsFit
<1> QED
  BY <1>1, <1>3, <1>4, <1>5, HandlerFrame

\* What the five steps of a handler have in common: the request itself and its
\* window stay, and the step moves on or answers.
LEMMA HandleFrame ==
  ASSUME RequestInv, NEW p \in Procs, Handle(p)
  PROVE  /\ UNCHANGED <<process, req, window>> /\ cfg' = cfg /\ cfg \in Configs
         /\ RequestOK' /\ cfg \in window[p] /\ answer[p].code = "none"
         /\ \A q \in Procs : q # p => /\ pc'[q] = pc[q] /\ req'[q] = req[q]
                                      /\ site'[q] = site[q] /\ answer'[q] = answer[q]
                                      /\ window'[q] = window[q]
<1>1. UNCHANGED <<process, req, window>> /\ cfg' = cfg /\ cfg \in Configs
  BY DEF Handle, CheckApex, ParseHost, FindCustom, CheckAllowed, ServeSite, process, RequestInv
<1>2. pc[p] # "idle" /\ RequestFits(p)
  BY DEF Handle, CheckApex, ParseHost, FindCustom, CheckAllowed, ServeSite, RequestInv
<1>3. PICK l \in {"idle", "parse", "custom", "allow", "serve"} : pc' = [pc EXCEPT ![p] = l]
  BY DEF Handle, CheckApex, ParseHost, FindCustom, CheckAllowed, ServeSite, Goto, Reply, Refuse
<1>4. PICK s \in Sites \union {NoSite} : site' = [site EXCEPT ![p] = s]
  <2>1. CASE ParseHost(p)
    BY <2>1 DEF ParseHost, RequestInv, RequestOK
  <2>2. CASE FindCustom(p)
    BY <1>1, <2>2, CustomDomains DEF FindCustom, RequestInv, RequestOK
  <2>3. CASE CheckApex(p) \/ CheckAllowed(p) \/ ServeSite(p)
    BY <2>3 DEF CheckApex, CheckAllowed, ServeSite, RequestInv, RequestOK
  <2> QED
    BY <2>1, <2>2, <2>3 DEF Handle
<1>5. PICK a \in [code : Codes, site : Sites \union {NoSite}] : answer' = [answer EXCEPT ![p] = a]
  <2>1. \/ answer' = answer
        \/ \E k \in Codes, t \in {NoSite, site[p]} : answer' = [answer EXCEPT ![p] = Answer(k, t)]
    BY DEF Handle, CheckApex, ParseHost, FindCustom, CheckAllowed, ServeSite, Reply, Refuse, Codes
  <2> QED
    BY <2>1 DEF RequestInv, RequestOK, Answer
<1>6. RequestOK'
  BY <1>1, <1>3, <1>4, <1>5 DEF RequestInv, RequestOK
<1>7. \A q \in Procs : q # p => /\ pc'[q] = pc[q] /\ req'[q] = req[q] /\ site'[q] = site[q]
                                /\ answer'[q] = answer[q] /\ window'[q] = window[q]
  BY <1>1, <1>3, <1>4, <1>5 DEF RequestInv, RequestOK
<1> QED
  BY <1>1, <1>2, <1>6, <1>7 DEF RequestFits, ReadInWindow

\* Refusals are right: where all reads were of c, c does not serve the host.
LEMMA RefuseFits ==
  ASSUME RequestInv, NEW p \in Procs, cfg' = cfg, UNCHANGED <<req, window>>,
         pc'[p] = "idle", answer'[p].code \in {"404", "403"},
         \A c \in Configs : (window[p] = {c} /\ req[p].path = "good") => ~ Serves(c, req[p].host)
  PROVE  RequestFits(p)'
  BY DEF RequestFits, ReadInWindow, WasAllowed, ReadsFit, Serves, IsApex, Names, Permits

\* isApex: an apex is answered, any other host goes on.
LEMMA CheckApexFits ==
  ASSUME RequestInv, NEW p \in Procs, CheckApex(p) PROVE RequestFits(p)'
<1>1. RequestFits(p) /\ RequestOK
  BY DEF RequestInv
<1>2. /\ UNCHANGED <<req, site, window>> /\ cfg' = cfg
      /\ cfg \in window[p] /\ answer[p].code = "none"
  BY HandleFrame DEF Handle, CheckApex
<1>3. CASE IsApex(cfg, req[p].host)
  <2>1. pc'[p] = "idle" /\ answer'[p].code \in {"apex", "ok"}
    BY <1>1, <1>3 DEF CheckApex, Reply, Answer, RequestOK
  <2>2. \A c \in Configs : window[p] = {c} => Serves(c, req[p].host)
    BY <1>2, <1>3 DEF Serves
  <2> QED
    BY <1>2, <2>1, <2>2 DEF RequestFits, ReadInWindow, WasAllowed, ReadsFit, Serves, IsApex,
                            Names, Permits
<1>4. CASE ~ IsApex(cfg, req[p].host)
  <2>1. pc'[p] = "parse" /\ answer' = answer
    BY <1>1, <1>4 DEF CheckApex, Goto, RequestOK
  <2> QED
    BY <1>2, <1>4, <2>1 DEF RequestFits, ReadInWindow, WasAllowed, ReadsFit, IsApex
<1> QED
  BY <1>3, <1>4

\* parseHost: a host of the gateway's domain is the site of its label or refused.
LEMMA ParseHostFits ==
  ASSUME RequestInv, NEW p \in Procs, ParseHost(p) PROVE RequestFits(p)'
<1> DEFINE h == req[p].host
<1>1. RequestFits(p) /\ RequestOK /\ pc[p] = "parse"
  BY DEF RequestInv, ParseHost
<1>2. /\ UNCHANGED <<req, window>> /\ cfg' = cfg
      /\ cfg \in window[p] /\ answer[p].code = "none"
  BY HandleFrame DEF Handle, ParseHost
<1>3. \A c \in Configs : window[p] = {c} => c = cfg /\ ~ IsApex(c, h)
  BY <1>1, <1>2 DEF RequestFits, ReadsFit
<1>4. CASE h.domain # cfg.domain
  <2>1. pc'[p] = "custom" /\ answer' = answer
    BY <1>1, <1>4 DEF ParseHost, Goto, RequestOK
  <2> QED
    BY <1>2, <1>3, <1>4, <2>1 DEF RequestFits, ReadInWindow, WasAllowed, ReadsFit, IsApex
<1>5. CASE h.domain = cfg.domain /\ h.label \in Sites
  <2>1. pc'[p] = "allow" /\ answer' = answer /\ site'[p] = h.label
    BY <1>1, <1>5 DEF ParseHost, Goto, RequestOK
  <2>2. Names(cfg, h, site'[p])
    BY <1>5, <2>1 DEF Names
  <2>3. ReadInWindow(p)' /\ WasAllowed(p)'
    BY <1>2, <1>5, <2>1, <2>2 DEF ReadInWindow, WasAllowed
  <2>4. ASSUME NEW c \in Configs, window'[p] = {c} PROVE ReadsFit(p, c)'
    BY <1>2, <1>3, <2>1, <2>2, <2>4 DEF ReadsFit
  <2> QED
    BY <2>3, <2>4 DEF RequestFits
<1>6. CASE h.domain = cfg.domain /\ h.label \notin Sites
  <2>1. pc'[p] = "idle" /\ answer'[p].code \in {"404", "403"}
    BY <1>1, <1>6 DEF ParseHost, Refuse, Reply, Answer, RequestOK
  <2>2. \A s \in Sites : ~ Names(cfg, h, s)
    BY <1>6 DEF Names
  <2>3. \A c \in Configs : window[p] = {c} => ~ Serves(c, h)
    BY <1>3, <2>2 DEF Serves
  <2> QED
    BY <1>2, <2>1, <2>3, RefuseFits
<1> QED
  BY <1>4, <1>5, <1>6

\* Any other host is a custom domain's site or refused.
LEMMA FindCustomFits ==
  ASSUME RequestInv, NEW p \in Procs, FindCustom(p) PROVE RequestFits(p)'
<1> DEFINE h == req[p].host
<1>1. RequestFits(p) /\ RequestOK /\ pc[p] = "custom" /\ cfg \in Configs
  BY DEF RequestInv, FindCustom
<1>2. /\ UNCHANGED <<req, window>> /\ cfg' = cfg
      /\ cfg \in window[p] /\ answer[p].code = "none"
  BY HandleFrame DEF Handle, FindCustom
<1>3. \A c \in Configs : window[p] = {c} => c = cfg /\ ~ IsApex(c, h) /\ h.domain # c.domain
  BY <1>1, <1>2 DEF RequestFits, ReadsFit
<1>4. CASE h \in DOMAIN cfg.custom
  <2>1. pc'[p] = "allow" /\ answer' = answer /\ site'[p] = cfg.custom[h]
    BY <1>1, <1>4 DEF FindCustom, Goto, RequestOK
  <2>2. Names(cfg, h, site'[p]) /\ site'[p] \in Sites
    BY <1>1, <1>4, <2>1, CustomDomains DEF Names
  <2>3. ReadInWindow(p)' /\ WasAllowed(p)'
    BY <1>2, <2>1, <2>2 DEF ReadInWindow, WasAllowed
  <2>4. ASSUME NEW c \in Configs, window'[p] = {c} PROVE ReadsFit(p, c)'
    BY <1>2, <1>3, <2>1, <2>2, <2>4 DEF ReadsFit
  <2> QED
    BY <2>3, <2>4 DEF RequestFits
<1>5. CASE h \notin DOMAIN cfg.custom
  <2>1. pc'[p] = "idle" /\ answer'[p].code \in {"404", "403"}
    BY <1>1, <1>5 DEF FindCustom, Refuse, Reply, Answer, RequestOK
  <2>2. \A c \in Configs : window[p] = {c} => ~ Serves(c, h)
    BY <1>3, <1>5 DEF Serves, Names
  <2> QED
    BY <1>2, <2>1, <2>2, RefuseFits
<1> QED
  BY <1>4, <1>5

\* The allowlist decides, for tls-ask after the type of the site.
LEMMA CheckAllowedFits ==
  ASSUME RequestInv, NEW p \in Procs, CheckAllowed(p) PROVE RequestFits(p)'
<1> DEFINE h == req[p].host
           ask == req[p].handler = "ask"
           accepted == (ask => MayCertify(site[p])) /\ Allowlisted(cfg, site[p])
<1>1. RequestFits(p) /\ RequestOK /\ pc[p] = "allow" /\ site[p] \in Sites
  BY DEF RequestInv, CheckAllowed, RequestFits, ReadInWindow
<1>2. /\ UNCHANGED <<req, site, window>> /\ cfg' = cfg
      /\ cfg \in window[p] /\ answer[p].code = "none"
  BY HandleFrame DEF Handle, CheckAllowed
<1>3. \A c \in Configs : window[p] = {c} => c = cfg /\ ~ IsApex(c, h) /\ Names(c, h, site[p])
  BY <1>1, <1>2 DEF RequestFits, ReadsFit
<1>4. \A c \in Configs : window[p] = {c} =>
        (Serves(c, h) <=> site[p].type # "snapshot" /\ Allowlisted(cfg, site[p]))
  BY <1>1, <1>3, ServesNamed
<1>5. CASE ~ accepted \/ req[p].path = "bad"
  <2>1. pc'[p] = "idle" /\ answer'[p].code \in {"404", "403"}
    BY <1>1, <1>5 DEF CheckAllowed, Refuse, Reply, Answer, RequestOK
  <2>2. \A c \in Configs : (window[p] = {c} /\ req[p].path = "good") => ~ Serves(c, h)
    BY <1>4, <1>5 DEF MayCertify
  <2> QED
    BY <1>2, <2>1, <2>2, RefuseFits
<1>6. CASE accepted /\ req[p].path # "bad" /\ ask
  <2>1. pc'[p] = "idle" /\ answer'[p].code = "ok"
    BY <1>1, <1>6 DEF CheckAllowed, Reply, Answer, RequestOK
  <2>2. \A c \in Configs : window[p] = {c} => Serves(c, h)
    BY <1>4, <1>6 DEF MayCertify
  <2>3. ReadInWindow(p)' /\ WasAllowed(p)'
    BY <2>1 DEF ReadInWindow, WasAllowed
  <2>4. ASSUME NEW c \in Configs, window'[p] = {c} PROVE ReadsFit(p, c)'
    <3>1. Serves(c, req'[p].host)
      BY <1>2, <2>2, <2>4
    <3> QED
      BY <2>1, <3>1 DEF ReadsFit, Serves, IsApex, Names, Permits
  <2> QED
    BY <2>3, <2>4 DEF RequestFits
<1>7. CASE accepted /\ req[p].path # "bad" /\ ~ ask
  <2>1. pc'[p] = "serve" /\ answer' = answer /\ req[p].handler = "public"
    BY <1>1, <1>7 DEF CheckAllowed, Goto, RequestOK, Requests
  <2>2. Permits(cfg, site[p]) /\ Allowlisted(cfg, site[p])
    BY <1>7, AllowlistedPermits
  <2>3. ReadInWindow(p)' /\ WasAllowed(p)'
    BY <1>1, <1>2, <2>1, <2>2 DEF RequestFits, ReadInWindow, WasAllowed
  <2>4. ASSUME NEW c \in Configs, window'[p] = {c} PROVE ReadsFit(p, c)'
    BY <1>2, <1>3, <2>1, <2>2, <2>4 DEF ReadsFit
  <2> QED
    BY <2>3, <2>4 DEF RequestFits
<1> QED
  BY <1>5, <1>6, <1>7

\* serveSite answers with the site that was found, unless it is a snapshot.
LEMMA ServeSiteFits ==
  ASSUME RequestInv, NEW p \in Procs, ServeSite(p) PROVE RequestFits(p)'
<1> DEFINE h == req[p].host
<1>1. RequestFits(p) /\ RequestOK /\ pc[p] = "serve" /\ site[p] \in Sites
  BY DEF RequestInv, ServeSite, RequestFits, ReadInWindow
<1>2. /\ UNCHANGED <<req, site, window>> /\ cfg' = cfg
      /\ cfg \in window[p] /\ answer[p].code = "none"
  BY HandleFrame DEF Handle, ServeSite
<1>3. \A c \in Configs : window[p] = {c} =>
        ~ IsApex(c, h) /\ Names(c, h, site[p]) /\ Allowlisted(c, site[p])
  BY <1>1 DEF RequestFits, ReadsFit
<1>4. \A c \in Configs : window[p] = {c} => (Serves(c, h) <=> site[p].type # "snapshot")
  BY <1>1, <1>3, ServesNamed
<1>5. CASE site[p].type = "snapshot"
  <2>1. pc'[p] = "idle" /\ answer'[p].code \in {"404", "403"}
    BY <1>1, <1>5 DEF ServeSite, Reply, Answer, RequestOK
  <2> QED
    BY <1>2, <1>4, <1>5, <2>1, RefuseFits
<1>6. CASE site[p].type # "snapshot"
  <2>1. pc'[p] = "idle" /\ answer'[p].code = "site" /\ answer'[p].site = site[p]
    BY <1>1, <1>6 DEF ServeSite, Reply, Answer, RequestOK
  <2>2. ReadInWindow(p)'
    BY <2>1 DEF ReadInWindow
  <2>3. WasAllowed(p)'
    BY <1>1, <1>2, <2>1 DEF RequestFits, ReadInWindow, WasAllowed
  <2>4. ASSUME NEW c \in Configs, window'[p] = {c} PROVE ReadsFit(p, c)'
    <3>1. Serves(c, req'[p].host)
      BY <1>2, <1>4, <1>6, <2>4
    <3> QED
      BY <2>1, <3>1 DEF ReadsFit, Serves, IsApex, Names, Permits
  <2> QED
    BY <2>2, <2>3, <2>4 DEF RequestFits
<1> QED
  BY <1>5, <1>6

\* Every step keeps what the requests have read.
LEMMA RequestStep ==
  ASSUME RequestInv, ProcessInv, [Next]_vars PROVE RequestInv'
<1>1. ASSUME NEW p \in Procs, Handle(p) PROVE RequestInv'
  <2>1. RequestFits(p)'
    BY <1>1, CheckApexFits, ParseHostFits, FindCustomFits, CheckAllowedFits, ServeSiteFits
       DEF Handle
  <2> QED
    BY <1>1, <2>1, HandleFrame, HandlerFrame
<1>2. ASSUME NEW p \in Procs, NEW r \in Requests, Begin(p, r) PROVE RequestInv'
  BY <1>2, BeginKeeps
<1>3. CASE Reload
  BY <1>3, ReloadKeepsRequests DEF ProcessInv, ProcessOK
<1>4. CASE \/ \E c \in Configs : WriteConfig(c)
           \/ Hup \/ Notify \/ TakeSignal \/ Load \/ ApplyBackends \/ ReloadBlossom
           \/ UNCHANGED vars
  <2>1. UNCHANGED <<cfg, pc, req, site, answer, window>>
    BY <1>4 DEF WriteConfig, Hup, Notify, TakeSignal, Load, ApplyBackends, ReloadBlossom, vars,
                process, requests
  <2>2. RequestOK' /\ cfg' \in Configs
    BY <2>1 DEF RequestInv, RequestOK
  <2>3. \A p \in Procs : RequestFits(p)'
    BY <2>1, FitsFrame DEF RequestInv
  <2> QED
    BY <2>2, <2>3 DEF RequestInv
<1> QED
  BY <1>1, <1>2, <1>3, <1>4 DEF Next, ReloadStep

\* The two invariants hold throughout.
LEMMA GatewayAlways == Spec => [](ProcessInv /\ RequestInv)
<1>1. ProcessInv /\ RequestInv /\ [Next]_vars => (ProcessInv /\ RequestInv)'
  BY ProcessStep, RequestStep
<1> QED
  BY ProcessInit, RequestInit, <1>1, PTL DEF Spec

\* The state has its type, whatever the operator writes and whenever it reloads.
THEOREM GatewayTypeCorrect == Spec => []TypeOK
<1>1. ProcessInv /\ RequestInv => TypeOK
  BY DEF ProcessInv, ProcessOK, RequestInv, RequestOK, Codes, TypeOK
<1> QED
  BY <1>1, GatewayAlways, PTL

\* A site is served only if configurations in force during the request permitted
\* it and named it by the host, wherever reloads fall among its reads.
THEOREM OnlyAllowedServed == Spec => []ServedWasAllowed
<1>1. RequestInv => ServedWasAllowed
  BY DEF RequestInv, RequestFits, WasAllowed, ServedWasAllowed
<1> QED
  BY <1>1, GatewayAlways, PTL

\* tls-ask and the public handler agree with the configuration, and so with each
\* other, on every host for which no reload comes between a request's reads, but for
\* a snapshot asked of the public handler in open mode.
THEOREM AskAgreesWithPublic == Spec => []AskMatchesPublic
<1>1. RequestInv => AskMatchesPublic
  BY DEF RequestInv, RequestFits, ReadsFit, AskMatchesPublic
<1> QED
  BY <1>1, GatewayAlways, PTL

----------------------------------------------------------------------------
(* Induction over data.  The recursive functions that the operators on names *)
(* are defined by have solutions, and facts follow along them: a set of      *)
(* natural numbers has a least element, so a set that holds 0 and with every *)
(* number the next holds them all.                                           *)

\* A set of natural numbers that is not empty has a least element.
LEMMA NatMin ==
  ASSUME NEW T, T \subseteq Nat, T # {}
  PROVE  \E x \in T : \A y \in T : x <= y
<1>1. PICK x \in T : \A y \in T : ~ (<<y, x>> \in OpToRel(<, Nat))
  BY NatLessThanWellFounded, WFMin
<1>2. \A y \in T : ~ (y < x)
  BY <1>1 DEF OpToRel
<1> QED
  BY <1>2

\* Induction over the natural numbers, for a set: a least number outside it cannot be.
LEMMA Induction ==
  ASSUME NEW S, 0 \in S, \A n \in Nat : n \in S => n + 1 \in S
  PROVE  \A n \in Nat : n \in S
<1> DEFINE T == Nat \ S
<1> SUFFICES ASSUME T # {} PROVE FALSE
  OBVIOUS
<1>1. PICK x \in T : \A y \in T : x <= y
  BY NatMin
<1>2. x # 0 /\ x - 1 \in Nat /\ x - 1 \notin T
  BY <1>1
<1> QED
  BY <1>2

\* A recursive definition over 0..n has a solution.
LEMMA Recursion ==
  ASSUME NEW X, NEW a \in X, NEW n \in Nat, NEW F \in [1..n -> [X -> X]]
  PROVE  \E f \in [0..n -> X] : f[0] = a /\ \A i \in 1..n : f[i] = F[i][f[i - 1]]
<1> DEFINE Sol(m, f) == f[0] = a /\ \A i \in 1..m : f[i] = F[i][f[i - 1]]
           S == {m \in Nat : m <= n => \E f \in [0..m -> X] : Sol(m, f)}
<1>1. 0 \in S
  <2>1. [i \in 0..0 |-> a] \in [0..0 -> X] /\ Sol(0, [i \in 0..0 |-> a])
    OBVIOUS
  <2> QED BY <2>1
<1>2. ASSUME NEW m \in Nat, m \in S PROVE m + 1 \in S
  <2> SUFFICES ASSUME m + 1 <= n PROVE \E f \in [0..(m + 1) -> X] : Sol(m + 1, f)
    OBVIOUS
  <2>1. PICK f \in [0..m -> X] : Sol(m, f)
    BY <1>2
  <2> DEFINE g == [i \in 0..(m + 1) |-> IF i <= m THEN f[i] ELSE F[m + 1][f[m]]]
  <2>2. F[m + 1][f[m]] \in X
    OBVIOUS
  <2>3. g \in [0..(m + 1) -> X]
    BY <2>2
  <2>4. \A i \in 0..m : g[i] = f[i]
    OBVIOUS
  <2>5. g[m + 1] = F[m + 1][f[m]]
    OBVIOUS
  <2> HIDE DEF g
  <2>6. Sol(m + 1, g)
    <3> SUFFICES ASSUME NEW i \in 1..(m + 1) PROVE g[i] = F[i][g[i - 1]]
      BY <2>1, <2>4
    <3>1. CASE i = m + 1
      BY <3>1, <2>4, <2>5
    <3>2. CASE i <= m
      BY <3>2, <2>1, <2>4
    <3> QED BY <3>1, <3>2
  <2> QED BY <2>3, <2>6
<1> HIDE DEF S
<1>3. n \in S
  BY <1>1, <1>2, Induction
<1> QED BY <1>3 DEF S

\* Induction along 0..n.
LEMMA InductionTo ==
  ASSUME NEW n \in Nat, NEW S, 0 \in S, \A i \in 1..n : i - 1 \in S => i \in S
  PROVE  \A i \in 0..n : i \in S
<1> DEFINE R == {m \in Nat : m <= n => m \in S}
<1>1. 0 \in R
  OBVIOUS
<1>2. \A m \in Nat : m \in R => m + 1 \in R
  OBVIOUS
<1> HIDE DEF R
<1>3. \A m \in Nat : m \in R
  BY <1>1, <1>2, Induction
<1> QED
  BY <1>3 DEF R

\* The values of a function along 0..n stay in a set that each step stays in.
LEMMA TypeAlong ==
  ASSUME NEW n \in Nat, NEW X, NEW g, g[0] \in X,
         \A i \in 1..n : g[i - 1] \in X => g[i] \in X
  PROVE  \A i \in 0..n : g[i] \in X
<1> DEFINE S == {i \in 0..n : g[i] \in X}
<1>1. 0 \in S /\ \A i \in 1..n : i - 1 \in S => i \in S
  OBVIOUS
<1> HIDE DEF S
<1>2. \A i \in 0..n : i \in S
  BY <1>1, InductionTo
<1> QED
  BY <1>2 DEF S

----------------------------------------------------------------------------
(* Labels: the digits of a key and its value, and the forms of labels.       *)

\* What LabelsAssumption says of the constants.
LEMMA Constants ==
  /\ Base \in Nat /\ Width \in Nat /\ KeyCount \in Nat /\ MaxD \in Nat
  /\ Base > 0 /\ Width > 0 /\ KeyCount > 0 /\ MaxD > 0
  /\ LetterN \in Nat /\ LetterV \in Nat /\ LetterN < Base /\ LetterV < Base
  /\ LetterN # LetterV
BY LabelsAssumption DEF Digits

\* The powers of the base are the recursive function they are defined as.
LEMMA PowerRec ==
  /\ Power \in [0..Width -> Nat \ {0}]
  /\ Power[0] = 1
  /\ \A n \in 1..Width : Power[n] = Power[n - 1] * Base
<1> DEFINE X == Nat \ {0}
           F == [i \in 1..Width |-> [x \in X |-> x * Base]]
           Eq(f) == f = [n \in 0..Width |-> IF n = 0 THEN 1 ELSE f[n - 1] * Base]
<1>0. Width \in Nat /\ 1 \in X /\ \A x \in X : x * Base \in X
  BY Constants
<1>1. /\ F \in [1..Width -> [X -> X]]
      /\ \A i \in 1..Width : \A x \in X : F[i][x] = x * Base
  BY <1>0
<1> HIDE DEF X, F
<1>2. PICK f \in [0..Width -> X] : f[0] = 1 /\ \A i \in 1..Width : f[i] = F[i][f[i - 1]]
  BY <1>0, <1>1, Recursion
<1>3. \A i \in 1..Width : f[i - 1] \in X /\ f[i] = f[i - 1] * Base
  BY <1>1, <1>2, <1>0
<1>4. Eq(f)
  BY <1>2, <1>3, <1>0
<1>5. Eq(Power)
  BY <1>4 DEF Power
<1> HIDE DEF Eq
<1>6. Power[0] = 1
  BY <1>5, <1>0 DEF Eq
<1>7. \A n \in 1..Width : Power[n] = Power[n - 1] * Base
  BY <1>5, <1>0 DEF Eq
<1>8. \A n \in 0..Width : Power[n] \in X
  BY <1>6, <1>7, <1>0, TypeAlong
<1>9. Power = [n \in 0..Width |-> Power[n]]
  BY <1>5 DEF Eq
<1> QED
  BY <1>6, <1>7, <1>8, <1>9 DEF X

\* So is the number that the first i digits stand for, as Value computes it.
LEMMA NumberRec ==
  ASSUME NEW n \in Nat, NEW s, \A i \in 1..n : s[i] \in Nat
  PROVE  LET v == CHOOSE f : f = [i \in 0..n |-> IF i = 0 THEN 0 ELSE f[i - 1] * Base + s[i]] IN
         v \in [0..n -> Nat] /\ v[0] = 0 /\ \A i \in 1..n : v[i] = v[i - 1] * Base + s[i]
<1> DEFINE X == Nat
           F == [i \in 1..n |-> [x \in X |-> x * Base + s[i]]]
           Eq(f) == f = [i \in 0..n |-> IF i = 0 THEN 0 ELSE f[i - 1] * Base + s[i]]
           v == CHOOSE f : Eq(f)
<1>1. n \in Nat /\ 0 \in X
  OBVIOUS
<1>2. \A i \in 1..n : \A x \in X : x * Base + s[i] \in X
  <2>1. Base \in Nat /\ \A x \in Nat : x * Base \in Nat
    BY Constants
  <2> QED
    BY <2>1
<1> HIDE DEF X
<1>3. \A i \in 1..n : \A x \in X : F[i][x] = x * Base + s[i]
  OBVIOUS
<1>4. F \in [1..n -> [X -> X]]
  BY <1>2
<1> HIDE DEF F
<1>5. PICK f \in [0..n -> X] : f[0] = 0 /\ \A i \in 1..n : f[i] = F[i][f[i - 1]]
  BY ONLY <1>1, <1>4, Recursion
<1>6. \A i \in 1..n : f[i - 1] \in X /\ f[i] = f[i - 1] * Base + s[i]
  BY <1>3, <1>5
<1>7. Eq(f)
  BY <1>5, <1>6
<1>8. Eq(v)
  BY <1>7
<1> HIDE DEF v, Eq
<1>9. v[0] = 0
  BY <1>8 DEF Eq
<1>10. \A i \in 1..n : v[i] = v[i - 1] * Base + s[i]
  BY <1>8 DEF Eq
<1>11. \A i \in 0..n : v[i] \in X
  <2>1. v[0] \in X /\ \A i \in 1..n : v[i - 1] \in X => v[i] \in X
    BY <1>1, <1>2, <1>9, <1>10
  <2> QED
    BY ONLY <1>1, <2>1, TypeAlong
<1>12. v = [i \in 0..n |-> v[i]]
  BY <1>8 DEF Eq
<1>13. v \in [0..n -> Nat]
  BY <1>11, <1>12 DEF X
<1> QED
  BY <1>9, <1>10, <1>13 DEF v, Eq

\* Value is the last of those numbers.
LEMMA ValueRec ==
  ASSUME NEW s \in Seq(Nat)
  PROVE  \E v \in [0..Len(s) -> Nat] :
           /\ v[0] = 0
           /\ \A i \in 1..Len(s) : v[i] = v[i - 1] * Base + s[i]
           /\ Value(s) = v[Len(s)]
<1> DEFINE v == CHOOSE f : f = [i \in 0..Len(s) |-> IF i = 0 THEN 0 ELSE f[i - 1] * Base + s[i]]
<1>1. Len(s) \in Nat /\ s \in [1..Len(s) -> Nat]
  BY LenProperties
<1>2. /\ v \in [0..Len(s) -> Nat] /\ v[0] = 0
      /\ \A i \in 1..Len(s) : v[i] = v[i - 1] * Base + s[i]
  BY <1>1, NumberRec, Zenon
<1>3. Value(s) = v[Len(s)]
  BY DEF Value
<1> QED
  BY <1>2, <1>3

\* A smaller multiple is smaller by the factor.
LEMMA MulMono ==
  ASSUME NEW b \in Nat, NEW q \in Nat, NEW r \in Nat, q < r
  PROVE  q * b + b <= r * b
OBVIOUS

\* Division with a rest.
LEMMA DivMod ==
  ASSUME NEW a \in Nat, NEW b \in Nat \ {0}
  PROVE  /\ a \div b \in Nat /\ a % b \in Nat /\ a % b < b
         /\ a = (a \div b) * b + (a % b)
OBVIOUS

\* Quotient and rest are unique.
LEMMA DivUnique ==
  ASSUME NEW a \in Nat, NEW b \in Nat \ {0}, NEW q \in Nat, NEW r \in Nat, r < b, a = q * b + r
  PROVE  a \div b = q /\ a % b = r
<1> DEFINE x == a \div b
           y == a % b
<1>1. x \in Nat /\ y \in Nat /\ y < b /\ a = x * b + y
  OBVIOUS
<1> HIDE DEF x, y
<1>2. ~ (x < q)
  <2> SUFFICES ASSUME x < q PROVE FALSE
    OBVIOUS
  <2>1. x * b + b <= q * b
    BY MulMono, <1>1
  <2> QED
    BY <2>1, <1>1
<1>3. ~ (q < x)
  <2> SUFFICES ASSUME q < x PROVE FALSE
    OBVIOUS
  <2>1. q * b + b <= x * b
    BY MulMono, <1>1
  <2> QED
    BY <2>1, <1>1
<1>4. x = q
  BY <1>2, <1>3, <1>1
<1>5. y = r
  BY <1>4, <1>1
<1> QED
  BY <1>4, <1>5 DEF x, y

\* A quotient is written by the next one and a digit.
LEMMA DivDiv ==
  ASSUME NEW k \in Nat, NEW m \in Nat \ {0}, NEW b \in Nat \ {0}
  PROVE  k \div m = (k \div (m * b)) * b + ((k \div m) % b)
<1> DEFINE q == k \div m
           r == k % m
           x == q \div b
           y == q % b
<1>1. q \in Nat /\ r \in Nat /\ r < m /\ k = q * m + r
  BY DivMod
<1> HIDE DEF q, r
<1>2. x \in Nat /\ y \in Nat /\ y < b /\ q = x * b + y
  BY <1>1, DivMod
<1> HIDE DEF x, y
<1>3. y * m + m <= b * m
  BY <1>1, <1>2, MulMono
<1>4. y * m + r \in Nat /\ y * m + r < m * b /\ m * b \in Nat \ {0}
  BY <1>1, <1>2, <1>3
<1>5. k = (x * b + y) * m + r
  BY <1>1, <1>2
<1>6. (x * b + y) * m = x * (m * b) + y * m
  BY <1>1, <1>2
<1>7. k = x * (m * b) + (y * m + r)
  BY <1>1, <1>2, <1>5, <1>6
<1>8. k \div (m * b) = x
  BY <1>4, <1>7, <1>2, DivUnique
<1> QED
  BY <1>2, <1>8 DEF q, y

\* A key is written with Width digits.
LEMMA EncodeType ==
  ASSUME NEW k \in Nat
  PROVE  /\ Base36Encode32(k) \in Seq(Digits)
         /\ Base36Encode32(k) \in Seq(Nat)
         /\ Len(Base36Encode32(k)) = Width
         /\ \A i \in 1..Width : Base36Encode32(k)[i] = (k \div Power[Width - i]) % Base
<1> DEFINE e == Base36Encode32(k)
<1>1. ASSUME NEW i \in 1..Width
      PROVE  /\ (k \div Power[Width - i]) % Base \in Nat
             /\ (k \div Power[Width - i]) % Base < Base
  <2>1. Power[Width - i] \in Nat \ {0} /\ Base \in Nat \ {0}
    BY PowerRec, Constants
  <2>2. k \div Power[Width - i] \in Nat
    BY <2>1, DivMod
  <2> QED
    BY <2>1, <2>2, DivMod
<1>2. e = [i \in 1..Width |-> (k \div Power[Width - i]) % Base]
  BY DEF Base36Encode32
<1>3. \A i \in 1..Width : e[i] \in Digits /\ e[i] \in Nat
  BY <1>1, <1>2, Constants DEF Digits
<1> HIDE DEF e
<1>4. e \in [1..Width -> Digits] /\ e \in [1..Width -> Nat]
  BY <1>2, <1>3
<1>5. e \in Seq(Digits) /\ e \in Seq(Nat)
  BY <1>4, Constants, SeqDef
<1>6. Len(e) = Width
  BY <1>4, <1>5, Constants, LenProperties
<1> QED
  BY <1>2, <1>5, <1>6 DEF e

\* The value of the digits written for a key is the key.
LEMMA ValueOfEncoded ==
  ASSUME NEW k \in LabelKeys
  PROVE  Value(Base36Encode32(k)) = k
<1> DEFINE s == Base36Encode32(k)
<1>1. k \in Nat /\ k < KeyCount
  BY Constants DEF LabelKeys
<1>2. /\ s \in Seq(Nat) /\ Len(s) = Width
      /\ \A i \in 1..Width : s[i] = (k \div Power[Width - i]) % Base
  BY <1>1, EncodeType
<1> HIDE DEF s
<1>3. PICK v \in [0..Width -> Nat] :
        v[0] = 0 /\ (\A i \in 1..Width : v[i] = v[i - 1] * Base + s[i]) /\ Value(s) = v[Width]
  BY <1>2, ValueRec
<1>4. k < Power[Width]
  <2>1. LetterN \in Nat /\ LetterN < Base /\ Base \in Nat /\ Power[Width - 1] \in Nat
        /\ KeyCount <= LetterN * Power[Width - 1]
    BY LabelsAssumption, PowerRec, Constants
  <2>2. LetterN * Power[Width - 1] + Power[Width - 1] <= Base * Power[Width - 1]
    BY <2>1, MulMono
  <2>3. Power[Width] = Power[Width - 1] * Base
    BY PowerRec, Constants
  <2> QED
    BY <1>1, <2>1, <2>2, <2>3, Constants
<1> DEFINE S == {i \in 0..Width : v[i] = k \div Power[Width - i]}
<1>5. 0 \in S
  <2>1. Power[Width] \in Nat \ {0} /\ Width - 0 = Width
    BY PowerRec, Constants
  <2>2. k = 0 * Power[Width] + k
    BY <1>1, <2>1
  <2>3. k \div Power[Width] = 0
    BY <1>1, <1>4, <2>1, <2>2, DivUnique
  <2> QED
    BY <1>3, <2>1, <2>3, Constants
<1>6. ASSUME NEW i \in 1..Width, i - 1 \in S PROVE i \in S
  <2> DEFINE m == Power[Width - i]
  <2>1. m \in Nat \ {0} /\ Base \in Nat \ {0}
    BY PowerRec, Constants
  <2>2. Power[Width - (i - 1)] = m * Base
    <3>1. Width - (i - 1) \in 1..Width /\ (Width - (i - 1)) - 1 = Width - i
      BY Constants
    <3> QED
      BY <3>1, PowerRec
  <2>3. v[i - 1] = k \div (m * Base)
    BY <1>6, <2>2
  <2>4. s[i] = (k \div m) % Base
    BY <1>2
  <2>5. v[i] = v[i - 1] * Base + s[i]
    BY <1>3
  <2> HIDE DEF m
  <2>6. k \div m = (k \div (m * Base)) * Base + ((k \div m) % Base)
    BY <1>1, <2>1, DivDiv
  <2>7. v[i] = k \div m
    BY <2>3, <2>4, <2>5, <2>6
  <2> QED
    BY <2>7 DEF m
<1> HIDE DEF S
<1>7. Width \in S
  <2>1. Width \in Nat
    BY Constants
  <2>2. \A i \in 1..Width : i - 1 \in S => i \in S
    BY <1>6
  <2>3. \A i \in 0..Width : i \in S
    BY ONLY <1>5, <2>1, <2>2, InductionTo
  <2> QED
    BY <2>1, <2>3
<1>8. v[Width] = k \div Power[0]
  BY <1>7, Constants DEF S
<1>9. k \div 1 = k
  BY <1>1
<1> QED
  BY <1>3, <1>8, <1>9, PowerRec DEF s

\* The first digit of a key is below the letters: no named label starts with one.
LEMMA FirstDigit ==
  ASSUME NEW k \in LabelKeys
  PROVE  Base36Encode32(k)[1] < LetterN /\ Base36Encode32(k)[1] < LetterV
<1> DEFINE P == Power[Width - 1]
           q == k \div P
           r == k % P
<1>1. k \in Nat /\ k < KeyCount /\ KeyCount \in Nat
  BY Constants DEF LabelKeys
<1>2. P \in Nat \ {0}
  BY PowerRec, Constants
<1>3. Base36Encode32(k)[1] = q % Base
  BY <1>1, EncodeType, Constants
<1>4. q \in Nat /\ r \in Nat /\ k = q * P + r
  BY <1>1, <1>2, DivMod
<1>5. ASSUME NEW c \in {LetterN, LetterV} PROVE q < c
  <2>1. c \in Nat /\ KeyCount <= c * P
    BY LabelsAssumption, Constants
  <2> HIDE DEF P, q, r
  <2> SUFFICES ASSUME c <= q PROVE FALSE
    BY <1>4, <2>1
  <2>2. c * P <= q * P
    BY <1>2, <1>4, <2>1, MulMono
  <2> QED
    BY <1>1, <1>2, <1>4, <2>1, <2>2
<1> HIDE DEF q
<1>6. q < Base /\ q = 0 * Base + q
  BY <1>4, <1>5, Constants
<1>7. q % Base = q
  BY <1>4, <1>6, DivUnique, Constants
<1> QED
  BY <1>3, <1>5, <1>7

\* What is written for the value of Width digits is those digits.
LEMMA EncodedValue ==
  ASSUME NEW s \in Seq(Nat), Len(s) = Width, AllIn(s, Digits)
  PROVE  Base36Encode32(Value(s)) = s
<1>1. PICK v \in [0..Width -> Nat] :
        v[0] = 0 /\ (\A i \in 1..Width : v[i] = v[i - 1] * Base + s[i]) /\ Value(s) = v[Width]
  BY ValueRec
<1>2. \A i \in 1..Width : s[i] \in Nat /\ s[i] < Base
  BY Constants DEF AllIn, Digits
<1>3. Base \in Nat \ {0} /\ Width \in Nat /\ Width > 0
  BY Constants
<1> DEFINE S == {j \in 0..Width : \E r \in Nat : /\ r < Power[j]
                                                /\ v[Width] = v[Width - j] * Power[j] + r}
<1>4. 0 \in S
  <2>1. Power[0] = 1 /\ v[Width - 0] = v[Width] /\ v[Width] \in Nat
    BY PowerRec, <1>3
  <2>2. 0 < Power[0] /\ v[Width] = v[Width - 0] * Power[0] + 0
    BY <2>1
  <2> QED
    BY <2>2, <1>3
<1>5. ASSUME NEW j \in 1..Width, j - 1 \in S PROVE j \in S
  <2> DEFINE P == Power[j - 1]
             a == Width - j
  <2>1. P \in Nat \ {0} /\ Power[j] = P * Base /\ a \in 0..(Width - 1) /\ Width - (j - 1) = a + 1
    BY PowerRec, <1>3
  <2>2. PICK r \in Nat : r < P /\ v[Width] = v[a + 1] * P + r
    BY <1>5, <2>1
  <2>3. /\ a + 1 \in 1..Width /\ v[a] \in Nat
        /\ v[a + 1] = v[a] * Base + s[a + 1]
    <3>1. a + 1 \in 1..Width /\ (a + 1) - 1 = a /\ v[a] \in Nat
      BY <2>1, <1>3
    <3> HIDE DEF a
    <3>2. v[a + 1] = v[(a + 1) - 1] * Base + s[a + 1]
      BY ONLY <1>1, <3>1
    <3> QED
      BY <3>1, <3>2
  <2> DEFINE d == s[a + 1]
             x == v[a]
  <2>4. d \in Nat /\ d < Base /\ x \in Nat
    BY <1>2, <2>3
  <2>5. v[Width] = (x * Base + d) * P + r
    BY <2>2, <2>3
  <2> HIDE DEF P, d, x
  <2>6. (x * Base + d) * P = x * (P * Base) + d * P
    BY <2>1, <2>4, <1>3
  <2>7. d * P + P <= Base * P
    BY <2>1, <2>4, <1>3, MulMono
  <2>8. x * (P * Base) \in Nat /\ d * P \in Nat /\ Base * P = P * Base /\ P * Base \in Nat
    BY <2>1, <2>4, <1>3
  <2>9. d * P + r \in Nat /\ d * P + r < P * Base
    <3> DEFINE u == d * P
               w == P * Base
    <3>1. u \in Nat /\ w \in Nat /\ u + P <= w
      BY <2>7, <2>8
    <3> HIDE DEF u, w
    <3>2. u + r \in Nat /\ u + r < w
      BY <3>1, <2>1, <2>2
    <3> QED
      BY <3>2 DEF u, w
  <2>10. v[Width] = x * (P * Base) + (d * P + r)
    BY <2>2, <2>5, <2>6, <2>8
  <2> QED
    BY <2>1, <2>9, <2>10 DEF x
<1> HIDE DEF S
<1>6. \A j \in 0..Width : j \in S
  <2>1. \A j \in 1..Width : j - 1 \in S => j \in S
    BY <1>5
  <2> QED
    BY ONLY <1>3, <1>4, <2>1, InductionTo
<1>7. ASSUME NEW i \in 1..Width PROVE Base36Encode32(Value(s))[i] = s[i]
  <2> DEFINE P == Power[Width - i]
  <2>1. P \in Nat \ {0} /\ Width - i \in 0..Width /\ Width - (Width - i) = i
    BY PowerRec, <1>3
  <2>2. PICK r \in Nat : r < P /\ v[Width] = v[i] * P + r
    BY <1>6, <2>1 DEF S
  <2>3. v[i] \in Nat /\ v[i - 1] \in Nat /\ v[Width] \in Nat
    BY <1>3
  <2>a. v[i] = v[i - 1] * Base + s[i]
    BY <1>1
  <2> HIDE DEF P
  <2>4. v[Width] \div P = v[i]
    BY <2>1, <2>2, <2>3, DivUnique
  <2>5. v[i] % Base = s[i]
    BY <2>3, <2>a, <1>2, <1>3, DivUnique
  <2>6. Base36Encode32(Value(s))[i] = (v[Width] \div P) % Base
    BY <1>1, <2>3, EncodeType DEF P
  <2> QED
    BY <2>4, <2>5, <2>6
<1>8. /\ Base36Encode32(Value(s)) \in Seq(Nat)
      /\ Len(Base36Encode32(Value(s))) = Width
  BY <1>1, <1>3, EncodeType
<1> QED
  BY <1>7, <1>8, SeqEqual

\* DecodeLabel tries the forms in turn.
LEMMA DecodeCases ==
  ASSUME NEW l
  PROVE  /\ IsNPub(l) => DecodeLabel(l) = DecodeNPub(l)
         /\ (~ IsNPub(l) /\ IsSnapshot(l)) => DecodeLabel(l) = DecodeSnapshot(l)
         /\ (~ IsNPub(l) /\ ~ IsSnapshot(l) /\ IsNamed(l)) => DecodeLabel(l) = DecodeNamed(l)
         /\ (~ IsNPub(l) /\ ~ IsSnapshot(l) /\ ~ IsNamed(l)) => DecodeLabel(l) = None
BY DEF DecodeLabel

\* The canonical label of each form of site.
LEMMA LabelCases ==
  ASSUME NEW k, NEW d
  PROVE  /\ LabelOf(SiteOf("root", k, d)) = NPub(k)
         /\ LabelOf(SiteOf("named", k, d)) = NamedLabel(k, d)
         /\ LabelOf(SiteOf("snapshot", k, d)) = SnapshotLabel(k)
BY DEF LabelOf, SiteOf

\* What follows the first n characters.
LEMMA FromIs ==
  ASSUME NEW l \in Seq(Nat), NEW n \in 0..Len(l)
  PROVE  /\ From(l, n) \in Seq(Nat)
         /\ Len(From(l, n)) = Len(l) - n
         /\ \A i \in 1..(Len(l) - n) : From(l, n)[i] = l[n + i]
<1>1. Len(l) \in Nat /\ n + 1 \in Int /\ Len(l) \in Int /\ \A i \in (n + 1)..Len(l) : l[i] \in Nat
  OBVIOUS
<1>2. /\ SubSeq(l, n + 1, Len(l)) \in Seq(Nat)
      /\ Len(SubSeq(l, n + 1, Len(l))) = IF n + 1 <= Len(l) THEN Len(l) - (n + 1) + 1 ELSE 0
      /\ \A i \in 1..(Len(l) - (n + 1) + 1) : SubSeq(l, n + 1, Len(l))[i] = l[n + 1 + i - 1]
  BY <1>1, SubSeqProperties
<1> QED
  BY <1>1, <1>2 DEF From

\* A label is its first n characters and the others.
LEMMA Parts ==
  ASSUME NEW l \in Seq(Nat), NEW n \in 0..Len(l)
  PROVE  /\ SubSeq(l, 1, n) \in Seq(Nat) /\ Len(SubSeq(l, 1, n)) = n
         /\ \A i \in 1..n : SubSeq(l, 1, n)[i] = l[i]
         /\ SubSeq(l, 1, n) \o From(l, n) = l
<1>1. Len(l) \in Nat /\ n \in Nat /\ n <= Len(l) /\ \A i \in 1..n : l[i] \in Nat
  OBVIOUS
<1>2. /\ SubSeq(l, 1, n) \in Seq(Nat) /\ Len(SubSeq(l, 1, n)) = IF 1 <= n THEN n - 1 + 1 ELSE 0
      /\ \A i \in 1..(n - 1 + 1) : SubSeq(l, 1, n)[i] = l[1 + i - 1]
  BY <1>1, SubSeqProperties
<1>3. /\ SubSeq(l, 1, n) \in Seq(Nat) /\ Len(SubSeq(l, 1, n)) = n
      /\ \A i \in 1..n : SubSeq(l, 1, n)[i] = l[i]
  BY <1>1, <1>2
<1> DEFINE a == SubSeq(l, 1, n)
           b == From(l, n)
<1>4. b \in Seq(Nat) /\ Len(b) = Len(l) - n /\ \A i \in 1..(Len(l) - n) : b[i] = l[n + i]
  BY FromIs
<1> HIDE DEF a, b
<1>5. /\ a \o b \in Seq(Nat) /\ Len(a \o b) = Len(a) + Len(b)
      /\ \A i \in 1..(Len(a) + Len(b)) : (a \o b)[i] = IF i <= Len(a) THEN a[i] ELSE b[i - Len(a)]
  BY <1>3, <1>4, ConcatProperties DEF a
<1>6. Len(a) = n /\ \A i \in 1..n : a[i] = l[i]
  BY <1>3 DEF a
<1>7. Len(a \o b) = Len(l)
  BY <1>1, <1>4, <1>5, <1>6
<1>8. ASSUME NEW i \in 1..Len(l) PROVE (a \o b)[i] = l[i]
  <2>0. (a \o b)[i] = IF i <= n THEN a[i] ELSE b[i - n]
    BY <1>1, <1>4, <1>5, <1>6
  <2>1. CASE i <= n
    <3>1. i \in 1..n
      BY <2>1, <1>1
    <3> QED
      BY <2>0, <2>1, <3>1, <1>6
  <2>2. CASE i > n
    <3>1. i - n \in 1..(Len(l) - n) /\ n + (i - n) = i
      BY <1>1, <2>2
    <3> QED
      BY <2>0, <3>1, <2>2, <1>1, <1>4
  <2>3. i <= n \/ i > n
    BY <1>1
  <2> QED
    BY <2>1, <2>2, <2>3
<1>9. a \o b = l
  BY <1>5, <1>7, <1>8, SeqEqual
<1> QED
  BY <1>3, <1>9 DEF a, b

\* The core of DecodedIsCanonical: what DecodeLabel accepts is the label of what it returns.
LEMMA Canonical ==
  ASSUME NEW l \in Seq(Nat), DecodeLabel(l) # None
  PROVE  IsSite(DecodeLabel(l)) /\ LabelOf(DecodeLabel(l)) = l
<1>1. CASE IsNPub(l)
  <2>1. DecodeNPub(l) # None
    BY <1>1, DecodeCases
  <2>2. \E k \in LabelKeys : l = NPub(k)
    BY <2>1 DEF DecodeNPub
  <2> DEFINE k == CHOOSE k \in LabelKeys : l = NPub(k)
  <2>3. k \in LabelKeys /\ l = NPub(k)
    BY <2>2
  <2>4. DecodeLabel(l) = SiteOf("root", k, <<>>)
    BY <1>1, <2>2, DecodeCases DEF DecodeNPub
  <2> HIDE DEF k
  <2>5. IsSite(SiteOf("root", k, <<>>))
    BY <2>3 DEF IsSite, SiteOf
  <2> QED
    BY <2>3, <2>4, <2>5, LabelCases
<1>2. CASE ~ IsNPub(l) /\ IsSnapshot(l)
  <2> DEFINE t == From(l, 1)
             k == Value(t)
  <2>1. Decodes(t) /\ DecodeLabel(l) = SiteOf("snapshot", k, <<>>)
    BY <1>2, DecodeCases DEF DecodeSnapshot
  <2>2. Len(l) = Width + 1 /\ l[1] = LetterV /\ 1 \in 0..Len(l)
    BY <1>2, Constants DEF IsSnapshot
  <2>3. t \in Seq(Nat)
    BY <2>2, FromIs
  <2>4. Len(t) = Width /\ AllIn(t, Digits) /\ k \in LabelKeys
    BY <2>1 DEF Decodes
  <2>5. Base36Encode32(k) = t
    BY <2>3, <2>4, EncodedValue
  <2>6. SubSeq(l, 1, 1) = <<LetterV>>
    <3>1. SubSeq(l, 1, 1) \in Seq(Nat) /\ Len(SubSeq(l, 1, 1)) = 1 /\ SubSeq(l, 1, 1)[1] = l[1]
      BY <2>2, Parts
    <3>2. <<LetterV>> \in Seq(Nat) /\ Len(<<LetterV>>) = 1 /\ <<LetterV>>[1] = LetterV
      BY Constants
    <3> DEFINE a == SubSeq(l, 1, 1)
               b == <<LetterV>>
    <3>3. a \in Seq(Nat) /\ b \in Seq(Nat) /\ Len(a) = Len(b) /\ \A i \in 1..Len(a) : a[i] = b[i]
      BY <3>1, <3>2, <2>2
    <3> HIDE DEF a, b
    <3>4. a = b
      BY <3>3, SeqEqual
    <3> QED
      BY <3>4 DEF a, b
  <2>7. <<LetterV>> \o t = l
    BY <2>2, <2>6, Parts
  <2> HIDE DEF k, t
  <2>8. SnapshotLabel(k) = l
    BY <2>5, <2>7 DEF SnapshotLabel
  <2>9. IsSite(SiteOf("snapshot", k, <<>>))
    BY <2>4 DEF IsSite, SiteOf
  <2> QED
    BY <2>1, <2>8, <2>9, LabelCases
<1>3. CASE ~ IsNPub(l) /\ ~ IsSnapshot(l) /\ IsNamed(l)
  <2> DEFINE s == SubSeq(l, 1, Width)
             k == Value(s)
             d == From(l, Width)
  <2>1. Decodes(s) /\ DecodeLabel(l) = SiteOf("named", k, d)
    BY <1>3, DecodeCases DEF DecodeNamed
  <2>2. /\ Len(l) \in (Width + 1)..(Width + MaxD) /\ Width \in 0..Len(l)
        /\ AllIn(d, Digits \union {Dash}) /\ l[Len(l)] # Dash
    BY <1>3, Constants DEF IsNamed
  <2>3. s \in Seq(Nat) /\ s \o d = l
    BY <2>2, Parts
  <2>4. Len(s) = Width /\ AllIn(s, Digits) /\ k \in LabelKeys
    BY <2>1 DEF Decodes
  <2>5. Base36Encode32(k) = s
    BY <2>3, <2>4, EncodedValue
  <2>6. Len(d) = Len(l) - Width /\ \A i \in 1..(Len(l) - Width) : d[i] = l[Width + i]
    BY <2>2, FromIs
  <2> HIDE DEF k, s, d
  <2>7. Len(d) \in 1..MaxD /\ d[Len(d)] # Dash
    <3>1. Len(l) - Width \in 1..MaxD /\ Width + (Len(l) - Width) = Len(l)
      BY <2>2, Constants
    <3> QED
      BY <3>1, <2>2, <2>6
  <2>8. IsValidD(d)
    BY <2>2, <2>7 DEF IsValidD
  <2>9. NamedLabel(k, d) = l
    BY <2>3, <2>5 DEF NamedLabel
  <2>10. IsSite(SiteOf("named", k, d))
    BY <2>4, <2>8 DEF IsSite, SiteOf
  <2> QED
    BY <2>1, <2>9, <2>10, LabelCases
<1> QED
  BY <1>1, <1>2, <1>3, DecodeCases

\* Two keys are not written alike.
LEMMA EncodeInjective ==
  ASSUME NEW k \in LabelKeys, NEW j \in LabelKeys, Base36Encode32(k) = Base36Encode32(j)
  PROVE  k = j
BY ValueOfEncoded

\* What is after a prefix.
LEMMA FromConcat ==
  ASSUME NEW a \in Seq(Nat), NEW b \in Seq(Nat)
  PROVE  /\ a \o b \in Seq(Nat) /\ Len(a \o b) = Len(a) + Len(b)
         /\ SubSeq(a \o b, 1, Len(a)) = a
         /\ From(a \o b, Len(a)) = b
         /\ \A i \in 1..Len(a) : (a \o b)[i] = a[i]
         /\ \A i \in 1..Len(b) : (a \o b)[Len(a) + i] = b[i]
<1> DEFINE l == a \o b
           n == Len(a)
<1>1. n \in Nat /\ Len(b) \in Nat
  OBVIOUS
<1>2. /\ l \in Seq(Nat) /\ Len(l) = n + Len(b)
      /\ \A i \in 1..(n + Len(b)) : l[i] = IF i <= n THEN a[i] ELSE b[i - n]
  BY ConcatProperties
<1> HIDE DEF l
<1>3. \A i \in 1..n : l[i] = a[i]
  BY <1>1, <1>2
<1>4. ASSUME NEW i \in 1..Len(b) PROVE l[n + i] = b[i]
  <2>1. n + i \in 1..(n + Len(b)) /\ ~ (n + i <= n) /\ (n + i) - n = i
    BY <1>1
  <2> QED
    BY <1>2, <2>1
<1>5. n \in 0..Len(l)
  BY <1>1, <1>2
<1>6. SubSeq(l, 1, n) = a
  <2> DEFINE x == SubSeq(l, 1, n)
  <2>1. x \in Seq(Nat) /\ Len(x) = n /\ \A i \in 1..n : x[i] = l[i]
    BY <1>2, <1>5, Parts
  <2> HIDE DEF x
  <2>2. \A i \in 1..Len(x) : x[i] = a[i]
    BY <2>1, <1>3
  <2>3. x = a
    BY <2>1, <2>2, SeqEqual
  <2> QED
    BY <2>3 DEF x
<1>7. From(l, n) = b
  <2> DEFINE x == From(l, n)
  <2>1. x \in Seq(Nat) /\ Len(x) = Len(l) - n /\ \A i \in 1..(Len(l) - n) : x[i] = l[n + i]
    BY <1>2, <1>5, FromIs
  <2> HIDE DEF x
  <2>2. Len(x) = Len(b) /\ \A i \in 1..Len(x) : x[i] = b[i]
    BY <2>1, <1>1, <1>2, <1>4
  <2>3. x = b
    BY <2>1, <2>2, SeqEqual
  <2> QED
    BY <2>3 DEF x
<1> QED
  BY <1>2, <1>3, <1>4, <1>6, <1>7 DEF l, n

\* The key of an npub label.
LEMMA NPubKey ==
  ASSUME NEW k \in LabelKeys
  PROVE  /\ NPub(k) \in Seq(Nat) /\ Len(NPub(k)) > 0 /\ NPub(k)[1] = LetterN
         /\ SubSeq(From(NPub(k), 1), 1, Width) = Base36Encode32(k)
<1> DEFINE e == Base36Encode32(k)
           c == <<k % Base>>
           n == <<LetterN>>
<1>1. k \in Nat /\ k % Base \in Nat
  BY Constants, DivMod DEF LabelKeys
<1>2. e \in Seq(Nat) /\ Len(e) = Width
  BY <1>1, EncodeType
<1>3. c \in Seq(Nat) /\ n \in Seq(Nat) /\ Len(n) = 1 /\ n[1] = LetterN
  BY <1>1, Constants
<1>4. NPub(k) = (n \o e) \o c
  BY DEF NPub
<1> HIDE DEF e, c, n
<1>5. (n \o e) \o c = n \o (e \o c)
  BY <1>2, <1>3, ConcatAssociative
<1>6. e \o c \in Seq(Nat) /\ SubSeq(e \o c, 1, Width) = e
  BY <1>2, <1>3, FromConcat
<1>7. /\ n \o (e \o c) \in Seq(Nat) /\ Len(n \o (e \o c)) = Len(n) + Len(e \o c)
      /\ From(n \o (e \o c), Len(n)) = e \o c
      /\ (n \o (e \o c))[1] = n[1]
  <2> DEFINE f == e \o c
  <2>1. f \in Seq(Nat) /\ 1 \in 1..Len(n)
    BY <1>3, <1>6
  <2> HIDE DEF f
  <2>2. /\ n \o f \in Seq(Nat) /\ Len(n \o f) = Len(n) + Len(f) /\ From(n \o f, Len(n)) = f
        /\ (n \o f)[1] = n[1]
    BY <1>3, <2>1, FromConcat
  <2> QED
    BY <2>2 DEF f
<1>8. NPub(k) = n \o (e \o c)
  BY <1>4, <1>5
<1>9. Len(e \o c) \in Nat
  BY <1>6
<1>10. NPub(k) \in Seq(Nat) /\ Len(NPub(k)) > 0 /\ NPub(k)[1] = LetterN
  BY <1>3, <1>7, <1>8, <1>9
<1>11. SubSeq(From(NPub(k), 1), 1, Width) = e
  BY <1>3, <1>6, <1>7, <1>8
<1> QED
  BY <1>10, <1>11 DEF e

\* The label of a root site is decoded to it.
LEMMA RootReached ==
  ASSUME NEW k \in LabelKeys
  PROVE  DecodeLabel(NPub(k)) = SiteOf("root", k, <<>>)
<1>1. IsNPub(NPub(k))
  BY NPubKey DEF IsNPub
<1>2. \A j \in LabelKeys : NPub(k) = NPub(j) => j = k
  BY NPubKey, EncodeInjective
<1>3. (CHOOSE j \in LabelKeys : NPub(k) = NPub(j)) = k
  BY <1>2
<1>4. DecodeNPub(NPub(k)) = SiteOf("root", k, <<>>)
  BY <1>3 DEF DecodeNPub
<1> QED
  BY <1>1, <1>4, DecodeCases

\* So is the label of a snapshot.
LEMMA SnapshotReached ==
  ASSUME NEW k \in LabelKeys
  PROVE  DecodeLabel(SnapshotLabel(k)) = SiteOf("snapshot", k, <<>>)
<1> DEFINE e == Base36Encode32(k)
           n == <<LetterV>>
           l == n \o e
<1>1. k \in Nat
  BY Constants DEF LabelKeys
<1>2. e \in Seq(Nat) /\ e \in Seq(Digits) /\ Len(e) = Width
  BY <1>1, EncodeType
<1>3. n \in Seq(Nat) /\ Len(n) = 1 /\ n[1] = LetterV
  BY Constants
<1>4. Value(e) = k
  BY ValueOfEncoded
<1>5. \A i \in 1..Width : e[i] \in Digits
  BY <1>2
<1>6. SnapshotLabel(k) = l
  BY DEF SnapshotLabel
<1> HIDE DEF e, n
<1>7. /\ l \in Seq(Nat) /\ Len(l) = 1 + Width /\ From(l, 1) = e
      /\ \A i \in 1..1 : l[i] = n[i]
      /\ \A i \in 1..Width : l[1 + i] = e[i]
  <2>1. /\ l \in Seq(Nat) /\ Len(l) = Len(n) + Len(e) /\ From(l, Len(n)) = e
        /\ \A i \in 1..Len(n) : l[i] = n[i]
        /\ \A i \in 1..Len(e) : l[Len(n) + i] = e[i]
    BY <1>2, <1>3, FromConcat
  <2> QED
    BY <2>1, <1>2, <1>3
<1> HIDE DEF l
<1>8. l[1] = LetterV
  BY <1>3, <1>7
<1>9. ASSUME NEW i \in 1..Len(l) PROVE l[i] \in Digits
  <2>1. CASE i = 1
    BY <2>1, <1>8, Constants DEF Digits
  <2>2. CASE i > 1
    <3>1. i - 1 \in 1..Width /\ 1 + (i - 1) = i
      BY <2>2, <1>7, Constants
    <3> QED
      BY <3>1, <1>5, <1>7
  <2> QED
    BY <2>1, <2>2
<1>10. IsSnapshot(l)
  BY <1>7, <1>8, <1>9, Constants DEF IsSnapshot, AllIn
<1>11. ~ IsNPub(l)
  BY <1>8, Constants DEF IsNPub
<1>12. Decodes(e)
  BY <1>2, <1>4, <1>5 DEF Decodes, AllIn
<1>13. DecodeSnapshot(l) = SiteOf("snapshot", k, <<>>)
  BY <1>4, <1>7, <1>12 DEF DecodeSnapshot
<1> QED
  BY <1>6, <1>10, <1>11, <1>13, DecodeCases

\* And that of a named site: its first digit makes it neither an npub nor a snapshot.
LEMMA NamedReached ==
  ASSUME NEW k \in LabelKeys, NEW d \in Seq(Nat), IsValidD(d)
  PROVE  DecodeLabel(NamedLabel(k, d)) = SiteOf("named", k, d)
<1> DEFINE e == Base36Encode32(k)
           l == e \o d
<1>1. k \in Nat
  BY Constants DEF LabelKeys
<1>2. e \in Seq(Nat) /\ e \in Seq(Digits) /\ Len(e) = Width
  BY <1>1, EncodeType
<1>3. e[1] \in Nat /\ e[1] < LetterN /\ e[1] < LetterV
  BY <1>2, FirstDigit, Constants
<1>4. Value(e) = k
  BY ValueOfEncoded
<1>5. \A i \in 1..Width : e[i] \in Digits
  BY <1>2
<1>6. Len(d) \in 1..MaxD /\ AllIn(d, Digits \union {Dash}) /\ d[Len(d)] # Dash
  BY DEF IsValidD
<1>7. NamedLabel(k, d) = l
  BY DEF NamedLabel
<1> HIDE DEF e
<1>8. /\ l \in Seq(Nat) /\ Len(l) = Width + Len(d)
      /\ SubSeq(l, 1, Width) = e /\ From(l, Width) = d
      /\ \A i \in 1..Width : l[i] = e[i]
      /\ \A i \in 1..Len(d) : l[Width + i] = d[i]
  BY <1>2, FromConcat
<1> HIDE DEF l
<1>9. l[1] # LetterN /\ l[1] # LetterV
  BY <1>3, <1>8, Constants
<1>10. ~ IsNPub(l) /\ ~ IsSnapshot(l)
  BY <1>9 DEF IsNPub, IsSnapshot
<1>11. l[Len(l)] = d[Len(d)]
  BY <1>6, <1>8
<1>12. Len(l) \in (Width + 1)..(Width + MaxD)
  BY <1>6, <1>8, Constants
<1>13. AllIn(e, Digits)
  BY <1>2, <1>5 DEF AllIn
<1>14. IsNamed(l)
  BY <1>6, <1>8, <1>11, <1>12, <1>13 DEF IsNamed
<1>15. Decodes(e)
  BY <1>2, <1>4, <1>13 DEF Decodes
<1>16. DecodeNamed(l) = SiteOf("named", k, d)
  BY <1>4, <1>8, <1>15 DEF DecodeNamed
<1> QED
  BY <1>7, <1>10, <1>14, <1>16, DecodeCases

\* Every site is reached by its label.
LEMMA Reached ==
  ASSUME NEW t, NEW k, NEW d \in Seq(Nat), IsSite(SiteOf(t, k, d))
  PROVE  DecodeLabel(LabelOf(SiteOf(t, k, d))) = SiteOf(t, k, d)
<1>1. t \in {"root", "named", "snapshot"} /\ k \in LabelKeys
  BY DEF IsSite, SiteOf
<1>2. IF t = "named" THEN IsValidD(d) ELSE d = <<>>
  BY DEF IsSite, SiteOf
<1>3. CASE t = "root"
  BY <1>1, <1>2, <1>3, RootReached, LabelCases
<1>4. CASE t = "snapshot"
  BY <1>1, <1>2, <1>4, SnapshotReached, LabelCases
<1>5. CASE t = "named"
  BY <1>1, <1>2, <1>5, NamedReached, LabelCases
<1> QED
  BY <1>1, <1>3, <1>4, <1>5

\* A manifest without errors names a site.
LEMMA ValidNames ==
  ASSUME NEW e \in Events, Errors(e) = {}
  PROVE  IsSite(SiteNamed(e)) /\ DecodeLabel(LabelOf(SiteNamed(e))) = SiteNamed(e)
<1>1. e.key \in LabelKeys /\ e.id \in LabelKeys /\ e.ds \in Seq(Seq(Nat))
  BY NamesAssumption
<1>2. Error("bad_kind", e.kind \notin {"root", "named", "snapshot"}) = {} /\ DErrors(e) = {}
  BY DEF Errors
<1>3. e.kind \in {"root", "named", "snapshot"}
  BY <1>2 DEF Error
<1>4. e.kind = "named" => e.ds # <<>> /\ Len(e.ds) <= 1 /\ IsValidD(e.ds[1])
  BY <1>1, <1>2 DEF DErrors, Error
<1>5. e.kind = "named" => e.ds[1] \in Seq(Nat)
  BY <1>1, <1>4
<1> DEFINE t == e.kind
           k == IF e.kind = "snapshot" THEN e.id ELSE e.key
           d == IF e.kind = "named" THEN e.ds[1] ELSE <<>>
<1>6. SiteNamed(e) = SiteOf(t, k, d)
  BY DEF SiteNamed
<1>7. k \in LabelKeys /\ d \in Seq(Nat) /\ t \in {"root", "named", "snapshot"}
  BY <1>1, <1>3, <1>5
<1>8. IF t = "named" THEN IsValidD(d) ELSE d = <<>>
  BY <1>4
<1> HIDE DEF t, k, d
<1>9. IsSite(SiteOf(t, k, d))
  BY <1>7, <1>8 DEF IsSite, SiteOf
<1> QED
  BY <1>6, <1>7, <1>9, Reached

\* After a call its argument is one of the instance and its result is the function's.
LabelCall ==
  /\ call = "DecodeLabel" => arg \in HostLabels /\ result = DecodeLabel(arg)
  /\ call = "Validate" => arg \in Events /\ result = Errors(arg)

\* LabelCall is inductive: a call is made once.
LEMMA LabelCallAlways == NamesSpec => []LabelCall
<1>1. NamesInit => LabelCall
  BY DEF NamesInit, LabelCall
<1>2. LabelCall /\ [NamesNext]_namesVars => LabelCall'
  <2> SUFFICES ASSUME LabelCall, [NamesNext]_namesVars PROVE LabelCall'
    OBVIOUS
  <2>1. CASE \E l \in HostLabels : CallDecodeLabel(l)
    BY <2>1, Zenon DEF CallDecodeLabel, Returns, LabelCall
  <2>2. CASE \E u \in Urls : CallNormalisePath(u)
    BY <2>2, Zenon DEF CallNormalisePath, Returns, LabelCall
  <2>3. CASE \E e \in Events : CallValidate(e)
    BY <2>3, Zenon DEF CallValidate, Returns, LabelCall
  <2>4. CASE UNCHANGED namesVars
    BY <2>4 DEF namesVars, LabelCall
  <2> QED
    BY <2>1, <2>2, <2>3, <2>4 DEF NamesNext
<1> QED
  BY <1>1, <1>2, PTL DEF NamesSpec

\* DecodeLabel accepts a label only as the canonical label of the site it returns,
\* for keys of any length, in digits of any base.
THEOREM LabelsAreCanonical == NamesSpec => []DecodedIsCanonical
<1>1. LabelCall => DecodedIsCanonical
  <2> SUFFICES ASSUME LabelCall, call = "DecodeLabel", result # None PROVE DecodedIsCanonical
    BY Zenon DEF DecodedIsCanonical
  <2>1. arg \in Seq(Nat) /\ result = DecodeLabel(arg)
    BY NamesAssumption DEF LabelCall
  <2>2. IsSite(result) /\ LabelOf(result) = arg
    BY <2>1, Canonical, Zenon
  <2> QED
    BY <2>2 DEF DecodedIsCanonical
<1> QED
  BY <1>1, LabelCallAlways, PTL

\* The label of a valid manifest is decoded to the site that published it.
THEOREM ValidManifestsReachable == NamesSpec => []ValidIsReachable
<1>1. LabelCall => ValidIsReachable
  <2> SUFFICES ASSUME LabelCall, call = "Validate", result = {} PROVE ValidIsReachable
    BY Zenon DEF ValidIsReachable
  <2>1. arg \in Events /\ Errors(arg) = {}
    BY DEF LabelCall
  <2>2. IsSite(SiteNamed(arg)) /\ DecodeLabel(LabelOf(SiteNamed(arg))) = SiteNamed(arg)
    BY <2>1, ValidNames, Zenon
  <2> QED
    BY <2>2 DEF ValidIsReachable
<1> QED
  BY <1>1, LabelCallAlways, PTL
=============================================================================
