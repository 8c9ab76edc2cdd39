------------------------------ MODULE Fetcher ------------------------------
(***************************************************************************)
(* fetchFirst (internal/server/server.go) and the Fetcher it uses          *)
(* (internal/blossom/blob.go), for one blob.  The servers are strangers:   *)
(* they are named by the site's author, their names may resolve to another *)
(* address at every dial, and they may redirect anywhere, send any status, *)
(* send any bytes, without end, or nothing at all.                         *)
(*                                                                         *)
(* Requests share one http.Transport: a connection that some request       *)
(* dialled may carry a later one for the same scheme and host, without a   *)
(* dial and so without checkDialAddr.  All URLs here have one host name,   *)
(* since what it resolves to is any address at any time.                   *)
(***************************************************************************)
EXTENDS Naturals, FiniteSets

CONSTANTS Procs,         \* requests that fetch the blob
          Public,        \* addresses forbiddenIP does not forbid
          Private,       \* private, link-local, unspecified ... addresses
          Loopback,      \* addresses on the loopback interface
          Zoned,         \* IPv6 addresses with a zone, which net.ParseIP does not parse
          AllowAddrs,    \* AllowLoopbackAddrs: the local Blossom server's address
          MaxBytes,      \* the size cap
          MaxRedirects,  \* Options.MaxRedirects
          MaxServers,    \* bound: the servers a request has to try
          Size,          \* the size of the blob that is wanted
          Nowhere        \* no address

Addrs == Public \union Private \union Loopback \union Zoned
Schemes == {"https", "http", "other"}

ASSUME FetcherAssumption ==
  /\ {MaxBytes, MaxRedirects, MaxServers, Size} \subseteq Nat /\ MaxRedirects > 0
  /\ Nowhere \notin Addrs
  /\ Public \intersect (Private \union Loopback) = {}

VARIABLES allowHTTP,  \* Options.AllowHTTP, as configured
          pool,       \* the transport's open connections: scheme and address
          pc,         \* where a request is
          left,       \* left[p]: servers p has still to try
          gone,       \* gone[p]: how the context fetchFirst was given has ended, if it has
          scheme,     \* scheme[p]: of the URL p is at
          conn,       \* conn[p]: the connection p's request is on
          via,        \* via[p]: the requests this Fetch has sent, until one is answered
          got,        \* got[p]: the bytes of the body it has read
          result      \* result[p]: fetchFirst's result: "ok" or its error's class

vars == <<allowHTTP, pool, pc, left, gone, scheme, conn, via, got, result>>

Init == /\ allowHTTP \in BOOLEAN
        /\ pool = {}
        /\ pc = [p \in Procs |-> "idle"]
        /\ left = [p \in Procs |-> 0]
        /\ gone = [p \in Procs |-> "no"]
        /\ scheme = [p \in Procs |-> "other"]
        /\ conn = [p \in Procs |-> Nowhere]
        /\ via = [p \in Procs |-> 0]
        /\ got = [p \in Procs |-> 0]
        /\ result = [p \in Procs |-> "none"]

\* Fetch returns: the connection and the buffer are no longer p's.
Ended(p) == /\ conn' = [conn EXCEPT ![p] = Nowhere]
            /\ scheme' = [scheme EXCEPT ![p] = "other"]
            /\ via' = [via EXCEPT ![p] = 0]
            /\ got' = [got EXCEPT ![p] = 0]

\* Fetch returns an error: fetchFirst tries the next server, or returns this
\* error, which ClassifyFetchError puts in one of its classes.
Fails(p, class) ==
  /\ pc' = [pc EXCEPT ![p] = IF left[p] = 0 THEN "idle" ELSE "next"]
  /\ result' = [result EXCEPT ![p] = IF left[p] = 0 THEN class ELSE @]
  /\ Ended(p)

\* fetchFirst is called with n servers.
FetchFirst(p, n) ==
  /\ pc[p] = "idle"
  /\ left' = [left EXCEPT ![p] = n]
  /\ gone' = [gone EXCEPT ![p] = "no"]
  /\ IF n = 0
     THEN result' = [result EXCEPT ![p] = "network"] /\ UNCHANGED pc
     ELSE result' = [result EXCEPT ![p] = "none"] /\ pc' = [pc EXCEPT ![p] = "next"]
  /\ UNCHANGED <<allowHTTP, pool, scheme, conn, via, got>>

\* validateScheme, for the first URL and for each redirect.
ValidScheme(s) == s = "https" \/ (s = "http" /\ allowHTTP)

\* Fetch begins with the next server; a context that has ended fails it.
Fetch(p, s) ==
  /\ pc[p] = "next"
  /\ left' = [left EXCEPT ![p] = @ - 1]
  /\ IF ~ ValidScheme(s) \/ gone[p] # "no"
     THEN /\ pc' = [pc EXCEPT ![p] = IF left[p] = 1 THEN "idle" ELSE "next"]
          /\ result' = [result EXCEPT ![p] = IF left[p] > 1 THEN @
                                             ELSE IF ValidScheme(s) THEN gone[p]
                                             ELSE "network"]
          /\ UNCHANGED scheme
     ELSE /\ pc' = [pc EXCEPT ![p] = "dial"]
          /\ scheme' = [scheme EXCEPT ![p] = s]
          /\ UNCHANGED result
  /\ UNCHANGED <<allowHTTP, pool, gone, conn, via, got>>

\* The request goes out on connection c.
Send(p, c) == /\ pc' = [pc EXCEPT ![p] = "sent"]
              /\ conn' = [conn EXCEPT ![p] = c]
              /\ via' = [via EXCEPT ![p] = @ + 1]

\* checkDialAddr: the exact addresses that are allowed, if they are loopback, and
\* otherwise whatever is not forbidden.  What net.ParseIP cannot parse is not looked
\* at and passes.
CheckDialAddr(a) == \/ a \in AllowAddrs /\ a \in Loopback
                    \/ a \notin Private \union Loopback
                    \/ a \in Zoned

\* A mutant of Dial: the name is resolved and checked, then resolved again.
DialResolved(p, a) ==
  /\ pc[p] = "dial"
  /\ IF \E b \in Addrs : CheckDialAddr(b)
     THEN /\ pool' = pool \union {<<scheme[p], a>>}
          /\ Send(p, <<scheme[p], a>>) /\ UNCHANGED <<scheme, got, result>>
     ELSE Fails(p, "forbidden") /\ UNCHANGED pool
  /\ UNCHANGED <<allowHTTP, left, gone>>

\* The name resolves to a: net.Dialer calls Control with the address it is about
\* to connect to.
Dial(p, a) ==
  /\ pc[p] = "dial"
  /\ IF CheckDialAddr(a)
     THEN /\ pool' = pool \union {<<scheme[p], a>>}
          /\ Send(p, <<scheme[p], a>>) /\ UNCHANGED <<scheme, got, result>>
     ELSE Fails(p, "forbidden") /\ UNCHANGED pool
  /\ UNCHANGED <<allowHTTP, left, gone>>

\* An open connection for the scheme and host carries the request.
Reuse(p, c) == /\ pc[p] = "dial" /\ c \in pool /\ c[1] = scheme[p]
               /\ Send(p, c)
               /\ UNCHANGED <<allowHTTP, pool, left, gone, scheme, got, result>>

\* A connection closes: idle for a minute, or dropped by the server.
Close(c) == /\ pool' = pool \ {c}
            /\ UNCHANGED <<allowHTTP, pc, left, gone, scheme, conn, via, got, result>>

\* A mutant of TooMany: CheckRedirect only looks at the scheme, and takes the place
\* of the limit that net/http has by default.
TooManyNever(p) == FALSE

\* CheckRedirect gets the requests made so far, the first one included.
TooMany(p) == via[p] >= MaxRedirects

\* The server redirects to a URL with scheme s.
Redirect(p, s) ==
  /\ pc[p] = "sent"
  /\ IF TooMany(p) THEN Fails(p, "redirect")
     ELSE IF ~ ValidScheme(s) THEN Fails(p, "network")
     ELSE /\ pc' = [pc EXCEPT ![p] = "dial"]
          /\ scheme' = [scheme EXCEPT ![p] = s]
          /\ conn' = [conn EXCEPT ![p] = Nowhere]
          /\ UNCHANGED <<via, got, result>>
  /\ UNCHANGED <<allowHTTP, pool, left, gone>>

\* The server answers with another status, or with 200 and a body.
BadStatus(p) == /\ pc[p] = "sent" /\ Fails(p, "status")
                /\ UNCHANGED <<allowHTTP, pool, left, gone>>
Answer(p) == /\ pc[p] = "sent"
             /\ pc' = [pc EXCEPT ![p] = "body"]
             /\ via' = [via EXCEPT ![p] = 0]
             /\ UNCHANGED <<allowHTTP, pool, left, gone, scheme, conn, got, result>>

\* io.LimitReader: one byte more than the cap shows that there is too much.
Limit == MaxBytes + 1
Read(p) == /\ pc[p] = "body" /\ got[p] < Limit
           /\ got' = [got EXCEPT ![p] = @ + 1]
           /\ UNCHANGED <<allowHTTP, pool, pc, left, gone, scheme, conn, via, result>>

\* The body ends, or the limit is reached: its length and then its digest are
\* checked.  Honest bytes are those of the blob.
ReadAll(p, honest) ==
  /\ pc[p] = "body"
  /\ IF got[p] > MaxBytes THEN Fails(p, "oversize")
     ELSE IF ~ (honest /\ got[p] = Size) THEN Fails(p, "hash")
     ELSE /\ pc' = [pc EXCEPT ![p] = "idle"]
          /\ result' = [result EXCEPT ![p] = "ok"]
          /\ Ended(p)
  /\ UNCHANGED <<allowHTTP, pool, left, gone>>

\* The connection breaks, or cannot be made.
Broken(p) == /\ pc[p] \in {"dial", "sent", "body"} /\ Fails(p, "network")
             /\ UNCHANGED <<allowHTTP, pool, left, gone>>

\* A mutant of Timeout: it does not cover the body.
TimeoutHeaders(p) == /\ pc[p] \in {"dial", "sent"} /\ Fails(p, "timeout")
                     /\ UNCHANGED <<allowHTTP, pool, left, gone>>

\* The time this Fetch has, redirects and body included, is over.
Timeout(p) == /\ pc[p] \in {"dial", "sent", "body"} /\ Fails(p, "timeout")
              /\ UNCHANGED <<allowHTTP, pool, left, gone>>

\* The client goes away ("canceled"), or the 20 seconds of serveFromNpk are over
\* ("timeout").
Cancel(p, how) ==
  /\ pc[p] # "idle" /\ gone[p] = "no"
  /\ gone' = [gone EXCEPT ![p] = how]
  /\ IF pc[p] = "next" THEN UNCHANGED <<pc, scheme, conn, via, got, result>>
     ELSE Fails(p, how)
  /\ UNCHANGED <<allowHTTP, pool, left>>

Network(p) == \/ \E a \in Addrs : Dial(p, a)
              \/ \E c \in pool : Reuse(p, c)
              \/ \E s \in Schemes : Redirect(p, s)
              \/ BadStatus(p) \/ Answer(p) \/ Read(p) \/ Broken(p)
              \/ \E honest \in BOOLEAN : ReadAll(p, honest)

Next == \/ \E p \in Procs :
             \/ \E n \in 0..MaxServers : FetchFirst(p, n)
             \/ \E s \in Schemes : Fetch(p, s)
             \/ Network(p) \/ Timeout(p)
             \/ \E how \in {"canceled", "timeout"} : Cancel(p, how)
        \/ \E c \in pool : Close(c)

\* A request goes to its next server, and timers fire.  Nothing is assumed of the
\* servers and the network.
Spec == /\ Init /\ [][Next]_vars
        /\ \A p \in Procs : /\ WF_vars(\E s \in Schemes : Fetch(p, s))
                            /\ WF_vars(Timeout(p))

----------------------------------------------------------------------------
Classes == {"forbidden", "timeout", "canceled", "hash", "oversize", "redirect", "status", "network"}

TypeOK ==
  /\ allowHTTP \in BOOLEAN
  /\ pool \subseteq (Schemes \X Addrs)
  /\ pc \in [Procs -> {"idle", "next", "dial", "sent", "body"}]
  /\ left \in [Procs -> 0..MaxServers]
  /\ gone \in [Procs -> {"no", "canceled", "timeout"}]
  /\ scheme \in [Procs -> Schemes]
  /\ conn \in [Procs -> (Schemes \X Addrs) \union {Nowhere}]
  /\ via \in [Procs -> Nat]
  /\ got \in [Procs -> 0..(MaxBytes + 1)]
  /\ result \in [Procs -> Classes \union {"ok", "none"}]

\* No request is ever on a connection to a private or loopback address that
\* net.ParseIP can parse, other than the one local server the operator allowed, nor,
\* unless http is allowed, on one without TLS: not after a redirect, not when the
\* name resolves anew, and not on a connection that another request opened.  Zoned
\* addresses are exempt, link-local and loopback ones too: checkDialAddr lets them
\* all pass (blob.go:63-74), and what the package comment says of its "dial-time
\* resolved-IP policy" (blob.go:2-3) does not hold of them.
OnlyPermittedPeers ==
  \A p \in Procs : conn[p] # Nowhere =>
    /\ conn[p][2] \in Public \union (AllowAddrs \intersect Loopback) \union Zoned
    /\ conn[p][1] = "https" \/ (conn[p][1] = "http" /\ allowHTTP)

\* A fetch follows no more redirects than "the cap" (blob.go:149-150), so it sends at
\* most MaxRedirects + 1 requests on its connections, and it holds at most one byte
\* more than the size cap, whatever servers send.  (It follows one redirect fewer
\* than the cap: CheckRedirect counts the first request too, blob.go:115.)
WorkBounded == \A p \in Procs : via[p] <= MaxRedirects + 1 /\ got[p] <= MaxBytes + 1

\* Whatever servers send, and for how long, fetchFirst returns.
EveryFetchEnds == \A p \in Procs : pc[p] = "next" ~> pc[p] = "idle"
=============================================================================
