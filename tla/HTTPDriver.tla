------------------------------ MODULE HTTPDriver ------------------------------
(***************************************************************************)
(* The http driver, with its requests in flight for up to the client's     *)
(* timeout, and the OAuth token cache behind them.  A driver and its cache *)
(* live for one reconcile: DriverFor makes a new one.  The token server    *)
(* mints a token at some time during the exchange; the cache reckons its   *)
(* lifetime from the answer.                                               *)
(***************************************************************************)
EXTENDS DriverCall

CONSTANTS
  EarlyExpiry,  \* earlyExpiry
  Timeout,      \* the timeout of a request
  Lifetimes,    \* lifetimes of a token
  MaxTime       \* bound on the clock

ASSUME TimeAssumption ==
  EarlyExpiry \in Nat /\ Timeout \in Nat /\ MaxTime \in Nat /\ Lifetimes \subseteq Nat

VARIABLES
  now,
  token,   \* the token cache: the token and the time until which it is used
  cred,    \* the token that the request in flight carries
  phase,   \* the request in flight: none, exchange, minted (its answer), send
  since    \* when it started

Token == [minted : Nat, lifetime : Nat]

NoToken == [minted |-> 0, lifetime |-> 0]

NoCache == [token |-> NoToken, expiresAt |-> 0]

wire == <<cred, phase, since>>
http == <<now, token, cred, phase, since>>

\* A lifetime that is absent or too short to cache is taken for two minutes.
TTL(lifetime) == IF lifetime <= EarlyExpiry THEN 2 * EarlyExpiry ELSE lifetime

\* The token, or a static credential, is accepted by the store.
Valid(c) == class.auth = "static" \/ now < c.minted + c.lifetime

-----------------------------------------------------------------------------
(***************************************************************************)
(* do: authorize the request, then send it.  pc is the operation.          *)
(***************************************************************************)
Requesting == class.driver = "http" /\ pc \in {"observe", "delete"} /\ UNCHANGED object

Send(c) == phase' = "send" /\ cred' = c /\ since' = now

CanRequest == pc = "delete" => class.delete

\* Faulty variant: the token is used for as long as it is valid.
CachedToLast == now < token.token.minted + token.token.lifetime

Cached == token # NoCache /\ now < token.expiresAt

\* No credential, or one that is sent as it is.
Authorize ==
  /\ Requesting /\ phase = "none" /\ CanRequest
  /\ class.auth = "static" /\ Send(NoToken)
  /\ UNCHANGED <<call, now, token>>

AuthorizeCached ==
  /\ Requesting /\ phase = "none" /\ CanRequest
  /\ class.auth = "clientCredentials" /\ Cached /\ Send(token.token)
  /\ UNCHANGED <<call, now, token>>

Exchange ==
  /\ Requesting /\ phase = "none" /\ CanRequest
  /\ class.auth = "clientCredentials" /\ ~Cached
  /\ phase' = "exchange" /\ cred' = NoToken /\ since' = now
  /\ UNCHANGED <<call, now, token>>

\* The token server's step.
Mint ==
  /\ phase = "exchange" /\ phase' = "minted"
  /\ \E l \in Lifetimes : cred' = [minted |-> now, lifetime |-> l]
  /\ UNCHANGED <<call, object, now, token, since>>

Exchanged ==
  /\ Requesting /\ phase = "minted"
  /\ token' = [token |-> cred, expiresAt |-> now + TTL(cred.lifetime) - EarlyExpiry]
  /\ Send(cred)
  /\ UNCHANGED <<call, now>>

Answered == phase' = "none" /\ cred' = NoToken /\ since' = 0 /\ UNCHANGED <<now, token>>

\* The key under which Observe publishes the stamp that the class extracts.
StampKey(c) == IF c.stampKey # "unset" THEN c.stampKey ELSE "default"

HTTPObserve ==
  /\ At("http", "observe") /\ phase = "send" /\ Valid(cred)
  /\ Observed(object, stamps[object], StampKey(class))
  /\ Answered /\ UNCHANGED object

\* The store answers with neither success nor 404, because it fails or because it
\* does not accept the token: not a 2xx, so there is nothing at the key.
HTTPObserveRejected ==
  /\ At("http", "observe") /\ phase = "send"
  /\ IF Valid(cred) THEN faults < MaxFaults /\ faults' = faults + 1 ELSE UNCHANGED faults
  /\ IF class.exists = "default" THEN pc' = "absent" /\ UNCHANGED <<observed, ref>>
                                 ELSE ReturnError
  /\ Answered /\ UNCHANGED object

HTTPDelete ==
  /\ At("http", "delete") /\ phase = "send" /\ Valid(cred)
  /\ ReturnNil /\ object' = 0
  /\ Answered

\* The class has no delete request, or the token is not accepted.
HTTPDeleteRefused ==
  /\ At("http", "delete")
  /\ \/ phase = "none" /\ ~class.delete
     \/ phase = "send" /\ ~Valid(cred)
  /\ ReturnError /\ UNCHANGED <<object, faults>>
  /\ Answered

\* The secret cannot be read, a request fails or times out, or is answered with
\* an error.
HTTPFails ==
  /\ class.driver = "http" /\ pc \in {"observe", "delete"} /\ CanRequest /\ CallFails
  /\ \/ UNCHANGED object
     \/ pc = "delete" /\ phase = "send" /\ Valid(cred) /\ object' = 0
  /\ Answered

HTTPStep ==
  \/ Authorize \/ AuthorizeCached \/ Exchange \/ Exchanged
  \/ HTTPObserve \/ HTTPObserveRejected \/ HTTPDelete \/ HTTPDeleteRefused \/ HTTPFails

\* Time passes, but no request is longer under way than its timeout.
Tick ==
  /\ class.driver = "http" /\ pc \notin Over /\ now < MaxTime
  /\ phase # "none" => now < since + Timeout
  /\ now' = now + 1
  /\ UNCHANGED <<call, object, token, cred, phase, since>>

HTTPInit ==
  now = 0 /\ token = NoCache /\ cred = NoToken /\ phase = "none" /\ since = 0

HTTPTypeOK ==
  /\ now \in 0..MaxTime /\ since \in 0..MaxTime
  /\ cred \in Token /\ token \in [token : Token, expiresAt : Int]
  /\ phase \in {"none", "exchange", "minted", "send"}

-----------------------------------------------------------------------------
\* A token that lives longer than earlyExpiry is valid for as long as the request
\* that carries it is under way, from its signing to the timeout (the comment on
\* earlyExpiry), although its lifetime is reckoned from the answer of the token
\* server and not from its minting.  Two timeouts have to fit into earlyExpiry.
TokenOutlivesRequest ==
  class.driver = "http" /\ class.auth = "clientCredentials" /\ phase = "send"
  /\ cred.lifetime > EarlyExpiry => Valid(cred)
=============================================================================
