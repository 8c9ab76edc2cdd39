------------------------------ MODULE Gateway ------------------------------
(***************************************************************************)
(* The gateway process: the SIGHUP reload (cmd/nostrhost-nsite/main.go),   *)
(* the configuration it swaps, and the public and tls-ask handlers that    *)
(* read it (internal/server/server.go).                                    *)
(*                                                                         *)
(* A handler takes s.mu several times in one request, so a reload can come *)
(* between two of its reads; each lock region is one step here.  Finding   *)
(* and sending the content of a site that is served is the subject of      *)
(* Resolver, BundleStore and BlobStore: here a served site is an answer.   *)
(*                                                                         *)
(* A host is a record: its left-most label, as DecodeLabel reads it, and   *)
(* the domain that is left.                                                *)
(***************************************************************************)
EXTENDS Naturals, FiniteSets

CONSTANTS Procs,    \* goroutines of the two HTTP servers
          Keys,     \* public keys and event ids
          Hosts,    \* what a Host header may be
          Configs,  \* what the operator may write to nsite.toml
          Off       \* the address of a local Blossom server that is not enabled

SiteTypes == {"root", "named", "snapshot"}
Sites == [type : SiteTypes, key : Keys]
\* A host that is a domain itself has the label "apex", and one whose label
\* DecodeLabel refuses has the label "bad".
Labels == [type : SiteTypes \union {"apex", "bad"}, key : Keys]

\* valid: Load accepts the file.  buildable: the cache directories can be made.
\* bindable: the local Blossom server's address and directory can be used.
\* Validate keeps custom domains out of the gateway's own domain.
ASSUME GatewayAssumption ==
  /\ Hosts # {} /\ \A h \in Hosts : h.label \in Labels
  /\ \A c \in Configs :
       /\ c.mode \in {"hosted", "open"} /\ c.allow \subseteq Keys
       /\ {c.valid, c.buildable, c.bindable} \subseteq BOOLEAN
       /\ \A h \in DOMAIN c.custom : /\ h \in Hosts /\ h.domain # c.domain
                                     /\ c.custom[h] \in Sites /\ c.custom[h].type # "snapshot"

Good == {c \in Configs : c.valid /\ c.buildable /\ c.bindable}

VARIABLES file,      \* nsite.toml
          signal,    \* a SIGHUP waits in the channel, whose buffer holds one
          told,      \* a SIGHUP was sent after the last write (for the properties)
          loader,    \* where the reload goroutine is
          reloaded,  \* the configuration it has loaded
          cfg,       \* s.cfg, s.allow and s.custom
          be,        \* the configuration that s.be was built from
          bs,        \* the address the local Blossom server listens on
          alive,     \* the process runs
          pc,        \* where a request is
          req,       \* its input: handler, host and path
          site,      \* what parseHost found
          answer,    \* its answer
          window     \* the configurations in force since it began (for the properties)

process == <<file, signal, told, loader, reloaded, cfg, be, bs, alive>>
requests == <<pc, req, site, answer, window>>
vars == <<process, requests>>

Requests == [handler : {"public"}, host : Hosts, path : {"good", "bad", "internal"}]
            \union [handler : {"ask"}, host : Hosts, path : {"good"}]
NoSite == [type |-> "none", key |-> CHOOSE k \in Keys : TRUE]
Answer(a, s) == [code |-> a, site |-> s]
NoAnswer == Answer("none", NoSite)

\* main has started: New, applyBackends and startBlossom are done, and the reload
\* goroutine is about to run.
Init == /\ file \in Good
        /\ signal = FALSE /\ told = TRUE
        /\ loader = "boot" /\ reloaded = file
        /\ cfg = file /\ be = file /\ bs = file.listen
        /\ alive = TRUE
        /\ pc = [p \in Procs |-> "idle"]
        /\ req = [p \in Procs |-> CHOOSE r \in Requests : TRUE]
        /\ site = [p \in Procs |-> NoSite]
        /\ answer = [p \in Procs |-> NoAnswer]
        /\ window = [p \in Procs |-> {}]

----------------------------------------------------------------------------
\* The operator replaces the file ...
WriteConfig(c) == /\ file # c
                  /\ file' = c /\ told' = FALSE
                  /\ UNCHANGED <<signal, loader, reloaded, cfg, be, bs, alive, requests>>

\* A mutant of Hup: the channel has no buffer.
HupUnbuffered == /\ signal' = (signal \/ loader = "wait") /\ told' = TRUE
                 /\ alive' = (loader # "boot")
                 /\ UNCHANGED <<file, loader, reloaded, cfg, be, bs, requests>>

\* ... and sends SIGHUP, which is dropped if one is waiting already.  It ends a
\* process that has not called signal.Notify for it yet.
Hup == /\ signal' = TRUE /\ told' = TRUE
       /\ alive' = (loader # "boot")
       /\ UNCHANGED <<file, loader, reloaded, cfg, be, bs, requests>>

\* The reload goroutine calls signal.Notify.
Notify == /\ loader = "boot"
          /\ loader' = "wait"
          /\ UNCHANGED <<file, signal, told, reloaded, cfg, be, bs, alive, requests>>

\* The reload goroutine takes the signal.
TakeSignal == /\ loader = "wait" /\ signal
              /\ signal' = FALSE /\ loader' = "load"
              /\ UNCHANGED <<file, told, reloaded, cfg, be, bs, alive, requests>>

\* A mutant of Load: the file is not validated.
LoadUnvalidated == /\ loader = "load"
                   /\ reloaded' = file /\ loader' = "apply"
                   /\ UNCHANGED <<file, signal, told, cfg, be, bs, alive, requests>>

\* config.Load: an error leaves everything as it is.
Load == /\ loader = "load"
        /\ IF file.valid
           THEN reloaded' = file /\ loader' = "apply"
           ELSE loader' = "wait" /\ UNCHANGED reloaded
        /\ UNCHANGED <<file, signal, told, cfg, be, bs, alive, requests>>

\* A mutant of Swapped: keys that were allowed stay so.
SwappedMerged(c) == [c EXCEPT !.allow = @ \union cfg.allow]

\* apply builds the allowlist and the custom domains from the new file alone.
Swapped(c) == c

\* Server.Reload: config, allowlist and custom domains change in one lock region.
Reload == /\ loader = "apply"
          /\ cfg' = Swapped(reloaded)
          /\ loader' = "backends"
          /\ window' = [p \in Procs |-> IF pc[p] = "idle" THEN window[p]
                                        ELSE window[p] \union {cfg'}]
          /\ UNCHANGED <<file, signal, told, reloaded, be, bs, alive, pc, req, site, answer>>

\* applyBackends: new caches, resolver and fetcher, or os.Exit if a cache
\* directory cannot be made.
ApplyBackends == /\ loader = "backends"
                 /\ IF reloaded.buildable
                    THEN be' = reloaded /\ loader' = "blossom" /\ UNCHANGED alive
                    ELSE alive' = FALSE /\ UNCHANGED <<be, loader>>
                 /\ UNCHANGED <<file, signal, told, reloaded, cfg, bs, requests>>

\* reloadBlossom starts or stops the local server; a running one stays as it is.
\* A server that cannot start ends the process.
ReloadBlossom ==
  LET starts == bs = Off /\ reloaded.listen # Off
  IN /\ loader = "blossom"
     /\ IF starts /\ ~ reloaded.bindable
        THEN alive' = FALSE /\ UNCHANGED <<bs, loader>>
        ELSE /\ bs' = IF starts \/ reloaded.listen = Off THEN reloaded.listen ELSE bs
             /\ loader' = "wait"
             /\ UNCHANGED alive
     /\ UNCHANGED <<file, signal, told, reloaded, cfg, be, requests>>

ReloadStep == Notify \/ TakeSignal \/ Load \/ Reload \/ ApplyBackends \/ ReloadBlossom

----------------------------------------------------------------------------
Goto(p, l) == pc' = [pc EXCEPT ![p] = l]
Reply(p, a, s) == /\ pc' = [pc EXCEPT ![p] = "idle"]
                  /\ answer' = [answer EXCEPT ![p] = Answer(a, s)]

\* The answer of a handler that does not accept the host: reject, or a 403.
Refuse(p) == Reply(p, IF req[p].handler = "public" THEN "404" ELSE "403", NoSite)

\* A request reaches handlePublic or handleTLSAsk.
Begin(p, r) ==
  /\ pc[p] = "idle"
  /\ req' = [req EXCEPT ![p] = r]
  /\ window' = [window EXCEPT ![p] = {cfg}]
  /\ site' = [site EXCEPT ![p] = NoSite]
  /\ IF r.handler = "public" /\ r.path = "internal"
     THEN Reply(p, "404", NoSite)
     ELSE Goto(p, "apex") /\ answer' = [answer EXCEPT ![p] = NoAnswer]
  /\ UNCHANGED process

\* isApex, one lock region.
IsApex(c, h) == h.domain = c.domain /\ h.label.type = "apex"
CheckApex(p) == /\ pc[p] = "apex"
                /\ IF IsApex(cfg, req[p].host)
                   THEN Reply(p, IF req[p].handler = "public" THEN "apex" ELSE "ok", NoSite)
                   ELSE Goto(p, "parse") /\ UNCHANGED answer
                /\ UNCHANGED <<process, req, site, window>>

\* parseHost: the domain is read in one region; a host in it is decoded ...
ParseHost(p) ==
  LET h == req[p].host
  IN /\ pc[p] = "parse"
     /\ IF h.domain # cfg.domain THEN Goto(p, "custom") /\ UNCHANGED <<site, answer>>
        ELSE IF h.label \in Sites
        THEN Goto(p, "allow") /\ site' = [site EXCEPT ![p] = h.label] /\ UNCHANGED answer
        ELSE Refuse(p) /\ UNCHANGED site
     /\ UNCHANGED <<process, req, window>>

\* ... and any other is looked up among the custom domains in a second region.
FindCustom(p) ==
  LET h == req[p].host
  IN /\ pc[p] = "custom"
     /\ IF h \in DOMAIN cfg.custom
        THEN Goto(p, "allow") /\ site' = [site EXCEPT ![p] = cfg.custom[h]] /\ UNCHANGED answer
        ELSE Refuse(p) /\ UNCHANGED site
     /\ UNCHANGED <<process, req, window>>

\* allowlisted: any site in open mode, the sites of allowed keys in hosted mode.
Allowlisted(c, s) == \/ c.mode = "open"
                     \/ s.type # "snapshot" /\ s.key \in c.allow

\* A mutant of MayCertify: tls-ask does not look at the type of the site.
MayCertifyAny(s) == TRUE

\* handleTLSAsk: no certificate for snapshots.
MayCertify(s) == s.type # "snapshot"

\* A mutant of CheckAllowed: only tls-ask consults the allowlist.
CheckAllowedAsk(p) ==
  LET ask == req[p].handler = "ask"
      accepted == ask => (MayCertify(site[p]) /\ Allowlisted(cfg, site[p]))
  IN /\ pc[p] = "allow"
     /\ IF ~ accepted \/ req[p].path = "bad" THEN Refuse(p)
        ELSE IF ask THEN Reply(p, "ok", NoSite)
        ELSE Goto(p, "serve") /\ UNCHANGED answer
     /\ UNCHANGED <<process, req, site, window>>

\* The allowlist is read in one lock region; tls-ask looks at the type before.
CheckAllowed(p) ==
  LET ask == req[p].handler = "ask"
      accepted == (ask => MayCertify(site[p])) /\ Allowlisted(cfg, site[p])
  IN /\ pc[p] = "allow"
     /\ IF ~ accepted \/ req[p].path = "bad" THEN Refuse(p)
        ELSE IF ask THEN Reply(p, "ok", NoSite)
        ELSE Goto(p, "serve") /\ UNCHANGED answer
     /\ UNCHANGED <<process, req, site, window>>

\* serveSite with the backends of this moment.  A snapshot is always a 404: no
\* event id reaches Manifest.
ServeSite(p) ==
  /\ pc[p] = "serve"
  /\ IF site[p].type = "snapshot" THEN Reply(p, "404", NoSite) ELSE Reply(p, "site", site[p])
  /\ UNCHANGED <<process, req, site, window>>

Handle(p) == CheckApex(p) \/ ParseHost(p) \/ FindCustom(p) \/ CheckAllowed(p) \/ ServeSite(p)

Next == alive /\ \/ \E c \in Configs : WriteConfig(c)
                 \/ Hup \/ ReloadStep
                 \/ \E p \in Procs : Handle(p) \/ \E r \in Requests : Begin(p, r)

\* The reload goroutine goes on while the process lives.
Spec == Init /\ [][Next]_vars /\ WF_vars(alive /\ ReloadStep)

----------------------------------------------------------------------------
TypeOK ==
  /\ file \in Configs /\ signal \in BOOLEAN /\ told \in BOOLEAN
  /\ loader \in {"boot", "wait", "load", "apply", "backends", "blossom"}
  /\ reloaded \in Configs /\ cfg \in Configs /\ be \in Configs
  /\ bs \in {c.listen : c \in Configs} \union {Off}
  /\ alive \in BOOLEAN
  /\ pc \in [Procs -> {"idle", "apex", "parse", "custom", "allow", "serve"}]
  /\ req \in [Procs -> Requests]
  /\ site \in [Procs -> Sites \union {NoSite}]
  /\ answer \in [Procs -> [code : {"none", "apex", "site", "404", "ok", "403"},
                           site : Sites \union {NoSite}]]
  /\ window \in [Procs -> SUBSET Configs]

\* The sites a configuration permits, and the site it names by a host.
Permits(c, s) == c.mode = "open" \/ s.key \in c.allow
Names(c, h, s) == IF h.domain = c.domain THEN h.label = s
                  ELSE h \in DOMAIN c.custom /\ c.custom[h] = s

\* A site is served only if some configuration in force
\* during the request allows it and some one names it by the host, wherever
\* reloads come between the handler's reads.
ServedWasAllowed ==
  \A p \in Procs : answer[p].code = "site" =>
    /\ \E c \in window[p] : Permits(c, answer[p].site)
    /\ \E c \in window[p] : Names(c, req[p].host, answer[p].site)

\* A host that a configuration serves: its apex, or a host that names a site it
\* permits and that is no snapshot.
Serves(c, h) == \/ IsApex(c, h)
                \/ \E s \in Sites : s.type # "snapshot" /\ Names(c, h, s) /\ Permits(c, s)

\* While one configuration is in force, tls-ask grants a certificate for exactly
\* the hosts that the configuration serves, and the public handler serves exactly
\* these.  Of a snapshot that is asked of the public handler in open mode nothing is
\* claimed: allowlisted says that "Open mode (Phase 5) serves any decodable label"
\* (server.go:204-205), but its event id does not reach Manifest (server.go:344)
\* and the answer is a 404.  In hosted mode a custom domain is served only if its
\* key is on the allowlist, as server.go:204 has it for every site, though
\* config.go:117 has "the gateway simply serves the mapped site".
AskMatchesPublic ==
  \A p \in Procs, c \in Configs :
    LET h == req[p].host
        openSnapshot == c.mode = "open" /\ h.domain = c.domain /\ h.label.type = "snapshot" IN
    (/\ pc[p] = "idle" /\ window[p] = {c}
     /\ req[p].path = "good" /\ answer[p].code # "none"
     /\ ~ (openSnapshot /\ req[p].handler = "public"))
    => (answer[p].code \in {"apex", "site", "ok"} <=> Serves(c, h))

\* Between reloads the handlers and the backends have the same configuration, a
\* valid one, whatever was in the file, and the local Blossom server runs if and
\* only if it is enabled there.
BackendsMatchConfig ==
  (alive /\ loader = "wait") => /\ cfg = be /\ cfg.valid
                                /\ bs = Off <=> cfg.listen = Off

\* SIGHUPs that come during a reload are not lost: if the file is not written
\* again after one, and the process lives, it comes into force.
ReloadTakesEffect ==
  \A c \in Good : <>[](alive /\ file = c /\ told) => <>[](cfg = c /\ be = c)
=============================================================================
