------------------------------ MODULE RateLimit ------------------------------
(***************************************************************************)
(* The rate limit of the web application                                   *)
(* (cinoc.interfaces.web.security.rate_limit): for each client address,    *)
(* MaxRequests requests in a fixed window, which the first request opens.  *)
(* Addresses whose window is over are forgotten at each request.           *)
(***************************************************************************)
EXTENDS Integers, FiniteSets

CONSTANTS
  Addresses,
  Watched,              \* one of them, whose requests are remembered
  MaxRequests, Window,  \* max_requests, window_seconds
  MaxTick               \* bound: the last tick of the clock

ASSUME RateAssumption ==
  /\ Watched \in Addresses /\ MaxRequests \in Nat \ {0} /\ Window \in Nat \ {0}
  /\ MaxTick \in Nat

VARIABLES
  now,
  hits,      \* _hits: by address, the start of the window and the count
  admitted,  \* history: the requests of Watched that passed, <<time, rank>>
  refused    \* history: the times at which one was refused

rateVars == <<now, hits, admitted, refused>>

RateInit ==
  /\ now = 0
  /\ hits = [ip \in {} |-> [start |-> 0, count |-> 0]]
  /\ admitted = {}
  /\ refused = {}

ClockTicks ==
  /\ now < MaxTick /\ now' = now + 1
  /\ UNCHANGED <<hits, admitted, refused>>

\* _prune
Live == {ip \in DOMAIN hits : now - hits[ip].start < Window}

Entry(ip) == IF ip \in Live THEN hits[ip] ELSE [start |-> now, count |-> 0]

\* Mutation: one request too many.
OneTooMany(ip) == Entry(ip).count > MaxRequests

Full(ip)    == Entry(ip).count >= MaxRequests
Counted(ip) == [start |-> Entry(ip).start, count |-> Entry(ip).count + 1]

\* The requests that passed in a span of time.
Within(from, to) == {r \in admitted : r[1] >= from /\ r[1] < to}

\* _allow: the middleware serves one request at a time.
Request(ip) ==
  /\ hits' = [k \in Live \union (IF Full(ip) THEN {} ELSE {ip}) |->
                IF k = ip /\ ~Full(ip) THEN Counted(ip) ELSE hits[k]]
  /\ admitted' = IF ip # Watched \/ Full(ip) THEN admitted
                 ELSE admitted \union {<<now, Cardinality(Within(now, now + 1))>>}
  /\ refused' = IF ip = Watched /\ Full(ip) THEN refused \union {now} ELSE refused
  /\ UNCHANGED now

RateNext == ClockTicks \/ \E ip \in Addresses : Request(ip)

RateSpec == RateInit /\ [][RateNext]_rateVars

-----------------------------------------------------------------------------
\* The count restarts with each window: in any span of a window's length fewer
\* than twice MaxRequests pass, and a request is refused only when MaxRequests
\* passed within the span that ends with it.
RateIsBounded ==
  /\ \A a \in 0..now : Cardinality(Within(a, a + Window)) < 2 * MaxRequests
  /\ \A r \in refused : Cardinality(Within(r - Window + 1, r + 1)) >= MaxRequests
=============================================================================
