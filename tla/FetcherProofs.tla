--------------------------- MODULE FetcherProofs ---------------------------
(***************************************************************************)
(* Proofs about Fetcher, for any number of fetches that share the pool,    *)
(* any addresses and any limits, whatever servers and names do: types, the *)
(* peers a request may be on, and the bounds on what a fetch sends and     *)
(* holds.                                                                  *)
(***************************************************************************)
EXTENDS Fetcher, TLAPS

\* What checkDialAddr and validateScheme let through, of a connection.
Permitted(c) == /\ c[2] \in Public \union (AllowAddrs \intersect Loopback) \union Zoned
                /\ ValidScheme(c[1])

\* The pool is as safe as a dial: what another request left there was checked.
PoolPermitted == \A c \in pool : Permitted(c)

\* The URL of a request under way has passed validateScheme.
UrlPermitted == \A p \in Procs : pc[p] \in {"dial", "sent", "body"} => ValidScheme(scheme[p])

\* Outside a Fetch nothing is counted, and before a dial there is room for one
\* more request.
RequestsCounted ==
  \A p \in Procs : /\ via[p] <= MaxRedirects
                   /\ pc[p] \in {"idle", "next"} => via[p] = 0
                   /\ pc[p] = "dial" => via[p] < MaxRedirects

\* fetchFirst goes round its loop only with a server left.
ServerLeft == \A p \in Procs : pc[p] = "next" => left[p] > 0

FetchInv == /\ TypeOK /\ ServerLeft
            /\ PoolPermitted /\ UrlPermitted /\ OnlyPermittedPeers
            /\ RequestsCounted

----------------------------------------------------------------------------
(* What the steps have in common.                                          *)

\* The limits are numbers, and a fetch may send one request.
LEMMA Limits == /\ MaxBytes \in Nat /\ MaxRedirects \in Nat /\ MaxServers \in Nat
                /\ MaxRedirects > 0
  BY FetcherAssumption

\* checkDialAddr lets no other address through.
LEMMA DialChecked ==
  ASSUME NEW a \in Addrs, CheckDialAddr(a)
  PROVE  a \in Public \union (AllowAddrs \intersect Loopback) \union Zoned
  BY DEF CheckDialAddr, Addrs

\* Fetch has begun when the loop starts.
LEMMA FetchInit == Init => FetchInv
<1> SUFFICES ASSUME Init PROVE FetchInv
  OBVIOUS
<1>0. allowHTTP \in BOOLEAN
  BY Zenon DEF Init
<1>1. TypeOK
  BY <1>0, Limits DEF Init, TypeOK, Schemes, Classes
<1>2. ServerLeft /\ PoolPermitted /\ UrlPermitted /\ OnlyPermittedPeers /\ RequestsCounted
  BY Limits DEF Init, ServerLeft, PoolPermitted, UrlPermitted, OnlyPermittedPeers, RequestsCounted
<1> QED
  BY <1>1, <1>2 DEF FetchInv

\* A Fetch that fails leaves the loop with the next server or with none.
LEMMA FailsKeeps ==
  ASSUME FetchInv, NEW p \in Procs, NEW class \in Classes, Fails(p, class),
         allowHTTP' = allowHTTP, pool' = pool, left' = left,
         gone' \in [Procs -> {"no", "canceled", "timeout"}]
  PROVE  FetchInv'
<1>1. left[p] \in 0..MaxServers /\ MaxServers \in Nat
  BY Limits DEF FetchInv, TypeOK
<1>2. TypeOK'
  <2>1. /\ pc' \in [Procs -> {"idle", "next", "dial", "sent", "body"}]
        /\ result' \in [Procs -> Classes \union {"ok", "none"}]
    BY DEF Fails, FetchInv, TypeOK
  <2>2. /\ conn' \in [Procs -> (Schemes \X Addrs) \union {Nowhere}]
        /\ scheme' \in [Procs -> Schemes]
    BY DEF Fails, Ended, FetchInv, TypeOK, Schemes
  <2>3. via' \in [Procs -> Nat] /\ got' \in [Procs -> 0..(MaxBytes + 1)]
    BY Limits DEF Fails, Ended, FetchInv, TypeOK
  <2> QED
    BY <2>1, <2>2, <2>3 DEF FetchInv, TypeOK
<1>3. /\ pc'[p] \in {"idle", "next"}
      /\ pc'[p] = "next" => left[p] > 0
      /\ conn'[p] = Nowhere /\ via'[p] = 0
      /\ \A q \in Procs : q # p => /\ pc'[q] = pc[q] /\ conn'[q] = conn[q]
                                   /\ scheme'[q] = scheme[q] /\ via'[q] = via[q]
  BY <1>1 DEF Fails, Ended, FetchInv, TypeOK
<1>4. ServerLeft'
  BY <1>3 DEF FetchInv, ServerLeft
<1>5. PoolPermitted' /\ UrlPermitted'
  BY <1>3 DEF FetchInv, PoolPermitted, UrlPermitted, Permitted, ValidScheme
<1>6. OnlyPermittedPeers'
  BY <1>3 DEF FetchInv, OnlyPermittedPeers
<1>7. RequestsCounted'
  BY <1>3, Limits DEF FetchInv, RequestsCounted
<1> QED
  BY <1>2, <1>4, <1>5, <1>6, <1>7 DEF FetchInv

\* A request goes out on a connection that is permitted.
LEMMA SendKeeps ==
  ASSUME FetchInv, NEW p \in Procs, NEW c \in Schemes \X Addrs, Permitted(c),
         pc[p] = "dial", Send(p, c), pool' \subseteq pool \union {c},
         UNCHANGED <<allowHTTP, left, gone, scheme, got, result>>
  PROVE  FetchInv'
<1>1. via[p] \in Nat /\ via[p] < MaxRedirects
  BY DEF FetchInv, TypeOK, RequestsCounted
<1>2. TypeOK'
  <2>1. pool' \subseteq Schemes \X Addrs
    BY DEF FetchInv, TypeOK
  <2>2. /\ pc' \in [Procs -> {"idle", "next", "dial", "sent", "body"}]
        /\ conn' \in [Procs -> (Schemes \X Addrs) \union {Nowhere}]
    BY DEF Send, FetchInv, TypeOK
  <2>3. via' \in [Procs -> Nat]
    BY <1>1 DEF Send, FetchInv, TypeOK
  <2> QED
    BY <2>1, <2>2, <2>3 DEF FetchInv, TypeOK
<1>3. /\ pc'[p] = "sent" /\ conn'[p] = c /\ via'[p] = via[p] + 1
      /\ \A q \in Procs : q # p => pc'[q] = pc[q] /\ conn'[q] = conn[q] /\ via'[q] = via[q]
  BY <1>1 DEF Send, FetchInv, TypeOK
<1>4. ServerLeft'
  BY <1>3 DEF FetchInv, ServerLeft
<1>5. PoolPermitted'
  BY DEF FetchInv, PoolPermitted, Permitted, ValidScheme
<1>6. UrlPermitted'
  BY <1>3 DEF FetchInv, UrlPermitted, ValidScheme
<1>7. OnlyPermittedPeers'
  BY <1>3 DEF FetchInv, OnlyPermittedPeers, Permitted, ValidScheme
<1>8. RequestsCounted'
  BY <1>1, <1>3, Limits DEF FetchInv, RequestsCounted
<1> QED
  BY <1>2, <1>4, <1>5, <1>6, <1>7, <1>8 DEF FetchInv

----------------------------------------------------------------------------
(* One lemma for the steps of the loop, one for those of the network.      *)

\* fetchFirst's own steps: the call, the next server.
LEMMA LoopKeeps ==
  ASSUME FetchInv, NEW p \in Procs,
         \/ \E n \in 0..MaxServers : FetchFirst(p, n)
         \/ \E s \in Schemes : Fetch(p, s)
  PROVE  FetchInv'
<1>1. ASSUME NEW n \in 0..MaxServers, FetchFirst(p, n) PROVE FetchInv'
  <2>1. /\ left' = [left EXCEPT ![p] = n] /\ gone' = [gone EXCEPT ![p] = "no"]
        /\ pc[p] = "idle"
        /\ UNCHANGED <<allowHTTP, pool, scheme, conn, via, got>>
        /\ \/ n = 0 /\ pc' = pc /\ result' = [result EXCEPT ![p] = "network"]
           \/ /\ n > 0 /\ pc' = [pc EXCEPT ![p] = "next"]
              /\ result' = [result EXCEPT ![p] = "none"]
    BY <1>1, Limits DEF FetchFirst
  <2>2. TypeOK'
    BY <2>1 DEF FetchInv, TypeOK, Classes
  <2>3. /\ pc'[p] \in {"idle", "next"} /\ via[p] = 0
        /\ pc'[p] = "next" => left'[p] > 0
        /\ \A q \in Procs : q # p => pc'[q] = pc[q] /\ left'[q] = left[q]
    BY <2>1 DEF FetchInv, TypeOK, RequestsCounted
  <2>4. ServerLeft' /\ PoolPermitted' /\ UrlPermitted'
    BY <2>1, <2>3 DEF FetchInv, ServerLeft, PoolPermitted, UrlPermitted, Permitted, ValidScheme
  <2>5. OnlyPermittedPeers' /\ RequestsCounted'
    BY <2>1, <2>3, Limits DEF FetchInv, OnlyPermittedPeers, RequestsCounted
  <2> QED
    BY <2>2, <2>4, <2>5 DEF FetchInv
<1>2. ASSUME NEW s \in Schemes, Fetch(p, s) PROVE FetchInv'
  <2>1. /\ pc[p] = "next" /\ left[p] \in 1..MaxServers /\ MaxServers \in Nat /\ via[p] = 0
        /\ gone[p] \in {"no", "canceled", "timeout"}
    BY <1>2, Limits DEF Fetch, FetchInv, TypeOK, ServerLeft, RequestsCounted
  <2>2. left' = [left EXCEPT ![p] = left[p] - 1] /\ left' \in [Procs -> 0..MaxServers]
    BY <1>2, <2>1 DEF Fetch, FetchInv, TypeOK
  <2>3. UNCHANGED <<allowHTTP, pool, gone, conn, via, got>>
    BY <1>2 DEF Fetch
  <2>4. CASE ~ ValidScheme(s) \/ gone[p] # "no"
    <3>1. /\ pc' = [pc EXCEPT ![p] = IF left[p] = 1 THEN "idle" ELSE "next"]
          /\ result' = [result EXCEPT ![p] = IF left[p] > 1 THEN result[p]
                                             ELSE IF ValidScheme(s) THEN gone[p]
                                             ELSE "network"]
          /\ scheme' = scheme
      BY <1>2, <2>4 DEF Fetch
    <3>2. result' \in [Procs -> Classes \union {"ok", "none"}]
      BY <2>1, <2>4, <3>1 DEF FetchInv, TypeOK, Classes
    <3>3. TypeOK'
      BY <2>2, <2>3, <3>1, <3>2 DEF FetchInv, TypeOK
    <3>4. /\ pc'[p] \in {"idle", "next"}
          /\ pc'[p] = "next" => left'[p] > 0
          /\ \A q \in Procs : q # p => pc'[q] = pc[q] /\ left'[q] = left[q]
      BY <2>1, <2>2, <3>1 DEF FetchInv, TypeOK
    <3>5. ServerLeft' /\ PoolPermitted' /\ UrlPermitted'
      BY <2>3, <3>1, <3>4 DEF FetchInv, ServerLeft, PoolPermitted, UrlPermitted, Permitted,
                              ValidScheme
    <3>6. OnlyPermittedPeers' /\ RequestsCounted'
      BY <2>1, <2>3, <3>4, Limits DEF FetchInv, OnlyPermittedPeers, RequestsCounted
    <3> QED
      BY <3>3, <3>5, <3>6 DEF FetchInv
  <2>5. CASE ValidScheme(s) /\ gone[p] = "no"
    <3>1. /\ pc' = [pc EXCEPT ![p] = "dial"]
          /\ scheme' = [scheme EXCEPT ![p] = s]
          /\ result' = result
      BY <1>2, <2>5 DEF Fetch
    <3>2. TypeOK'
      BY <2>2, <2>3, <3>1 DEF FetchInv, TypeOK
    <3>3. /\ pc'[p] = "dial" /\ scheme'[p] = s
          /\ \A q \in Procs : q # p => /\ pc'[q] = pc[q] /\ left'[q] = left[q]
                                       /\ scheme'[q] = scheme[q]
      BY <2>2, <3>1 DEF FetchInv, TypeOK
    <3>4. ServerLeft' /\ PoolPermitted' /\ UrlPermitted'
      BY <2>3, <2>5, <3>3 DEF FetchInv, ServerLeft, PoolPermitted, UrlPermitted, Permitted,
                              ValidScheme
    <3>5. OnlyPermittedPeers' /\ RequestsCounted'
      BY <2>1, <2>3, <3>3, Limits DEF FetchInv, OnlyPermittedPeers, RequestsCounted
    <3> QED
      BY <3>2, <3>4, <3>5 DEF FetchInv
  <2> QED
    BY <2>4, <2>5
<1> QED
  BY <1>1, <1>2

\* Every answer of a server, every address a name resolves to.
LEMMA NetworkKeeps == ASSUME FetchInv, NEW p \in Procs, Network(p) PROVE FetchInv'
<1>0. gone \in [Procs -> {"no", "canceled", "timeout"}] /\ scheme[p] \in Schemes
  BY DEF FetchInv, TypeOK
<1>1. ASSUME NEW a \in Addrs, Dial(p, a) PROVE FetchInv'
  <2>1. CASE CheckDialAddr(a)
    <3>1. <<scheme[p], a>> \in Schemes \X Addrs
      BY <1>0
    <3>2. Permitted(<<scheme[p], a>>)
      BY <1>1, <2>1, DialChecked DEF Dial, FetchInv, UrlPermitted, Permitted
    <3> QED
      BY <1>1, <2>1, <3>1, <3>2, SendKeeps DEF Dial
  <2>2. CASE ~ CheckDialAddr(a)
    BY <1>0, <1>1, <2>2, FailsKeeps DEF Dial, Classes
  <2> QED
    BY <2>1, <2>2
<1>2. ASSUME NEW c \in pool, Reuse(p, c) PROVE FetchInv'
  <2>1. c \in Schemes \X Addrs /\ Permitted(c)
    BY DEF FetchInv, TypeOK, PoolPermitted
  <2> QED
    BY <1>2, <2>1, SendKeeps DEF Reuse
<1>3. ASSUME NEW s \in Schemes, Redirect(p, s) PROVE FetchInv'
  <2>1. CASE TooMany(p) \/ ~ ValidScheme(s)
    BY <1>0, <1>3, <2>1, FailsKeeps DEF Redirect, Classes
  <2>2. CASE ~ TooMany(p) /\ ValidScheme(s)
    <3>1. /\ pc[p] = "sent" /\ pc' = [pc EXCEPT ![p] = "dial"]
          /\ scheme' = [scheme EXCEPT ![p] = s]
          /\ conn' = [conn EXCEPT ![p] = Nowhere]
          /\ UNCHANGED <<allowHTTP, pool, left, gone, via, got, result>>
      BY <1>3, <2>2 DEF Redirect
    <3>2. TypeOK'
      BY <3>1 DEF FetchInv, TypeOK
    <3>3. /\ pc'[p] = "dial" /\ scheme'[p] = s /\ conn'[p] = Nowhere
          /\ \A q \in Procs : q # p => /\ pc'[q] = pc[q] /\ scheme'[q] = scheme[q]
                                       /\ conn'[q] = conn[q]
      BY <3>1 DEF FetchInv, TypeOK
    <3>4. via[p] \in Nat /\ via[p] < MaxRedirects
      BY <2>2, Limits DEF TooMany, FetchInv, TypeOK
    <3>5. ServerLeft' /\ PoolPermitted' /\ UrlPermitted'
      BY <2>2, <3>1, <3>3 DEF FetchInv, ServerLeft, PoolPermitted, UrlPermitted, Permitted,
                              ValidScheme
    <3>6. OnlyPermittedPeers' /\ RequestsCounted'
      BY <3>1, <3>3, <3>4 DEF FetchInv, OnlyPermittedPeers, RequestsCounted
    <3> QED
      BY <3>2, <3>5, <3>6 DEF FetchInv
  <2> QED
    BY <2>1, <2>2
<1>4. CASE BadStatus(p) \/ Broken(p)
  BY <1>0, <1>4, FailsKeeps DEF BadStatus, Broken, Classes
<1>5. CASE Answer(p)
  <2>1. /\ pc[p] = "sent" /\ pc' = [pc EXCEPT ![p] = "body"] /\ via' = [via EXCEPT ![p] = 0]
        /\ UNCHANGED <<allowHTTP, pool, left, gone, scheme, conn, got, result>>
    BY <1>5 DEF Answer
  <2>2. TypeOK'
    BY <2>1 DEF FetchInv, TypeOK
  <2>3. /\ pc'[p] = "body" /\ via'[p] = 0
        /\ \A q \in Procs : q # p => pc'[q] = pc[q] /\ via'[q] = via[q]
    BY <2>1 DEF FetchInv, TypeOK
  <2>4. ServerLeft' /\ PoolPermitted' /\ UrlPermitted'
    BY <2>1, <2>3 DEF FetchInv, ServerLeft, PoolPermitted, UrlPermitted, Permitted, ValidScheme
  <2>5. OnlyPermittedPeers' /\ RequestsCounted'
    BY <2>1, <2>3, Limits DEF FetchInv, OnlyPermittedPeers, RequestsCounted
  <2> QED
    BY <2>2, <2>4, <2>5 DEF FetchInv
<1>6. CASE Read(p)
  <2>1. /\ got[p] < MaxBytes + 1 /\ got' = [got EXCEPT ![p] = got[p] + 1]
        /\ UNCHANGED <<allowHTTP, pool, pc, left, gone, scheme, conn, via, result>>
    BY <1>6 DEF Read, Limit
  <2>2. got' \in [Procs -> 0..(MaxBytes + 1)]
    BY <2>1, Limits DEF FetchInv, TypeOK
  <2>3. TypeOK'
    BY <2>1, <2>2 DEF FetchInv, TypeOK
  <2>4. ServerLeft' /\ PoolPermitted' /\ UrlPermitted' /\ OnlyPermittedPeers' /\ RequestsCounted'
    BY <2>1 DEF FetchInv, ServerLeft, PoolPermitted, UrlPermitted, Permitted, ValidScheme,
                OnlyPermittedPeers, RequestsCounted
  <2> QED
    BY <2>3, <2>4 DEF FetchInv
<1>7. ASSUME NEW honest \in BOOLEAN, ReadAll(p, honest) PROVE FetchInv'
  <2>1. CASE got[p] > MaxBytes \/ ~ (honest /\ got[p] = Size)
    BY <1>0, <1>7, <2>1, FailsKeeps DEF ReadAll, Classes
  <2>2. CASE ~ (got[p] > MaxBytes) /\ honest /\ got[p] = Size
    <3>1. /\ pc' = [pc EXCEPT ![p] = "idle"] /\ result' = [result EXCEPT ![p] = "ok"]
          /\ conn' = [conn EXCEPT ![p] = Nowhere] /\ scheme' = [scheme EXCEPT ![p] = "other"]
          /\ via' = [via EXCEPT ![p] = 0] /\ got' = [got EXCEPT ![p] = 0]
          /\ UNCHANGED <<allowHTTP, pool, left, gone>>
      BY <1>7, <2>2 DEF ReadAll, Ended
    <3>2. TypeOK'
      BY <3>1, Limits DEF FetchInv, TypeOK, Schemes
    <3>3. /\ pc'[p] = "idle" /\ conn'[p] = Nowhere /\ via'[p] = 0
          /\ \A q \in Procs : q # p => /\ pc'[q] = pc[q] /\ scheme'[q] = scheme[q]
                                       /\ conn'[q] = conn[q] /\ via'[q] = via[q]
      BY <3>1 DEF FetchInv, TypeOK
    <3>4. ServerLeft' /\ PoolPermitted' /\ UrlPermitted'
      BY <3>1, <3>3 DEF FetchInv, ServerLeft, PoolPermitted, UrlPermitted, Permitted, ValidScheme
    <3>5. OnlyPermittedPeers' /\ RequestsCounted'
      BY <3>1, <3>3, Limits DEF FetchInv, OnlyPermittedPeers, RequestsCounted
    <3> QED
      BY <3>2, <3>4, <3>5 DEF FetchInv
  <2> QED
    BY <2>1, <2>2
<1> QED
  BY <1>1, <1>2, <1>3, <1>4, <1>5, <1>6, <1>7 DEF Network

\* Timers, clients that go away and connections that close.
LEMMA EndsKeep ==
  ASSUME FetchInv,
         \/ \E p \in Procs : \/ Timeout(p)
                             \/ \E how \in {"canceled", "timeout"} : Cancel(p, how)
         \/ \E c \in pool : Close(c)
         \/ UNCHANGED vars
  PROVE  FetchInv'
<1>0. gone \in [Procs -> {"no", "canceled", "timeout"}]
  BY DEF FetchInv, TypeOK
<1>1. ASSUME NEW p \in Procs, Timeout(p) PROVE FetchInv'
  BY <1>0, <1>1, FailsKeeps DEF Timeout, Classes
<1>2. ASSUME NEW p \in Procs, NEW how \in {"canceled", "timeout"}, Cancel(p, how) PROVE FetchInv'
  <2>1. gone' \in [Procs -> {"no", "canceled", "timeout"}]
    BY <1>0, <1>2 DEF Cancel
  <2>2. CASE pc[p] = "next"
    <3>1. UNCHANGED <<allowHTTP, pool, left, pc, scheme, conn, via, got, result>>
      BY <1>2, <2>2 DEF Cancel
    <3>2. TypeOK'
      BY <2>1, <3>1 DEF FetchInv, TypeOK
    <3> QED
      BY <3>1, <3>2 DEF FetchInv, ServerLeft, PoolPermitted, UrlPermitted, Permitted,
                        ValidScheme, OnlyPermittedPeers, RequestsCounted
  <2>3. CASE pc[p] # "next"
    BY <1>2, <2>1, <2>3, FailsKeeps DEF Cancel, Classes
  <2> QED
    BY <2>2, <2>3
<1>3. ASSUME (\E c \in pool : Close(c)) \/ UNCHANGED vars PROVE FetchInv'
  <2>1. /\ pool' \subseteq pool
        /\ UNCHANGED <<allowHTTP, pc, left, gone, scheme, conn, via, got, result>>
    BY <1>3 DEF Close, vars
  <2>2. TypeOK'
    BY <2>1 DEF FetchInv, TypeOK
  <2> QED
    BY <2>1, <2>2 DEF FetchInv, ServerLeft, PoolPermitted, UrlPermitted, Permitted,
                      ValidScheme, OnlyPermittedPeers, RequestsCounted
<1> QED
  BY <1>1, <1>2, <1>3

\* Every step keeps the invariant.
LEMMA FetchAlways == Spec => []FetchInv
<1>1. FetchInv /\ [Next]_vars => FetchInv'
  BY LoopKeeps, NetworkKeeps, EndsKeep DEF Next
<1> QED
  BY FetchInit, <1>1, PTL DEF Spec

\* The state has its type, whatever servers answer; fetchFirst never counts below
\* zero servers and a body never grows past the limit of its reader.
THEOREM FetcherTypeCorrect == Spec => []TypeOK
<1>1. FetchInv => TypeOK
  BY DEF FetchInv
<1> QED
  BY <1>1, FetchAlways, PTL

\* No request is ever on a connection to a private or loopback address that has no
\* zone, the allowed local server aside, or with a scheme validateScheme refuses, for any number of requests sharing the transport's connections, any
\* redirects and any answers of the resolver.
THEOREM PeersArePermitted == Spec => []OnlyPermittedPeers
<1>1. FetchInv => OnlyPermittedPeers
  BY DEF FetchInv
<1> QED
  BY <1>1, FetchAlways, PTL

\* A fetch follows no more redirects than the cap and holds at most one byte more
\* than the size cap.
THEOREM WorkIsBounded == Spec => []WorkBounded
<1>1. FetchInv => WorkBounded
  BY Limits DEF FetchInv, TypeOK, RequestsCounted, WorkBounded
<1> QED
  BY <1>1, FetchAlways, PTL
=============================================================================
