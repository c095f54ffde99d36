------------------------- MODULE PolarisTokenSource -------------------------
(***************************************************************************)
(* The OAuth token source of the Polaris client (internal/polaris/auth.go):*)
(* the callers of one client, the mutex that serializes them, the token it *)
(* caches and the clock.                                                   *)
(*                                                                         *)
(* A caller asks for a token, waits for the mutex, is given the cached     *)
(* token or fetches a new one (holding the mutex while the exchange        *)
(* lasts), and then presents it with one HTTP request.  Time is counted in *)
(* ticks.  http.Client.Timeout cuts off an exchange, and the request that  *)
(* bears the token, after Timeout ticks.                                   *)
(*                                                                         *)
(* The server counts a token's lifetime from the instant it issues it, the *)
(* source from the instant the answer is back: cached.late is the          *)
(* difference, which the code never sees.                                  *)
(***************************************************************************)
EXTENDS Integers

CONSTANTS
    Callers,          \* goroutines that share the client
    Lead,             \* tokenLeadTime
    Timeout,          \* Config.HTTPTimeout
    DefaultLifetime,  \* what the source assumes when expires_in is missing
    Lifetimes,        \* how long tokens may live, as the server decides
    Horizons          \* bound: where the clock may stop

Free == "nobody"

ASSUME TokenSourceAssumption ==
    /\ Free \notin Callers
    /\ Lead \in Nat
    /\ Timeout \in Nat
    /\ Timeout <= Lead
    /\ DefaultLifetime \in Nat \ {0}
    /\ Lifetimes \subseteq Nat \ {0}
    /\ Horizons \subseteq Nat

VARIABLES
    now,        \* the clock
    horizon,    \* where it stops in this behaviour
    mu,         \* who holds tokenSource.mu
    cached,     \* the cached token
    expiresAt,  \* when the source believes it expires
    at,         \* where each caller is
    since,      \* when its exchange, or the request with its token, began
    bears       \* the token it was given

tokenVars == <<now, horizon, mu, cached, expiresAt, at, since, bears>>

NoToken == [ until |-> 0, late |-> 0, life |-> 0 ]

\* until: the instant the server stops accepting it.
Tokens == [ until : Nat, late : 0..Timeout, life : Lifetimes \cup {0} ]

Places == { "idle", "waiting", "fetching", "bearing", "refused" }

TokenInit ==
    /\ now = 0
    /\ horizon \in Horizons
    /\ mu = Free
    /\ cached = NoToken
    /\ expiresAt = 0
    /\ at = [ c \in Callers |-> "idle" ]
    /\ since = [ c \in Callers |-> 0 ]
    /\ bears = [ c \in Callers |-> NoToken ]

\* An authenticated request is made: injectBearer, or Ping, wants a token.
Call(c) ==
    /\ at[c] = "idle"
    /\ at' = [at EXCEPT ![c] = "waiting"]
    /\ UNCHANGED <<now, horizon, mu, cached, expiresAt, since, bears>>

\* The cached token is worth handing out.
Fresh_WhileItLasts == cached # NoToken /\ expiresAt > now
Fresh == cached # NoToken /\ expiresAt - now > Lead

\* Caller c goes on with tok.
HandOut(c, tok) ==
    /\ at' = [at EXCEPT ![c] = "bearing"]
    /\ since' = [since EXCEPT ![c] = now]
    /\ bears' = [bears EXCEPT ![c] = tok]

\* The mutex is free and what it guards is fresh: lock, look and unlock.
UseCached(c) ==
    /\ at[c] = "waiting"
    /\ mu = Free
    /\ Fresh
    /\ HandOut(c, cached)
    /\ UNCHANGED <<now, horizon, mu, cached, expiresAt>>

\* It is not: the exchange begins, under the mutex.
Fetch_NoRecheck(c) ==
    /\ at[c] = "waiting"
    /\ mu = Free
    /\ mu' = c
    /\ at' = [at EXCEPT ![c] = "fetching"]
    /\ since' = [since EXCEPT ![c] = now]
    /\ UNCHANGED <<now, horizon, cached, expiresAt, bears>>
Fetch(c) ==
    /\ at[c] = "waiting"
    /\ mu = Free
    /\ ~Fresh
    /\ mu' = c
    /\ at' = [at EXCEPT ![c] = "fetching"]
    /\ since' = [since EXCEPT ![c] = now]
    /\ UNCHANGED <<now, horizon, cached, expiresAt, bears>>

\* The answer is back.  The server issued the token at some instant since the
\* exchange began, and may leave out expires_in if the lifetime is the default.
FetchDone(c) ==
    /\ at[c] = "fetching"
    /\ \E life \in Lifetimes, issued \in since[c]..now, told \in BOOLEAN :
        LET tok == [ until |-> issued + life, late |-> now - issued,
                     life |-> life ]
        IN  /\ told \/ life = DefaultLifetime
            /\ cached' = tok
            /\ expiresAt' = now + (IF told THEN life ELSE DefaultLifetime)
            /\ HandOut(c, tok)
    /\ mu' = Free
    /\ UNCHANGED <<now, horizon>>

\* No connection, a status of 400 or more, no JSON or no access_token in it:
\* the caller gets an error and what is cached stays.
FetchFailed_KeepsLock(c) ==
    /\ at[c] = "fetching"
    /\ at' = [at EXCEPT ![c] = "refused"]
    /\ UNCHANGED <<now, horizon, mu, cached, expiresAt, since, bears>>
FetchFailed(c) ==
    /\ at[c] = "fetching"
    /\ at' = [at EXCEPT ![c] = "refused"]
    /\ mu' = Free
    /\ UNCHANGED <<now, horizon, cached, expiresAt, since, bears>>

\* The request is over, or was never sent.
Leave(c) ==
    /\ at[c] \in {"bearing", "refused"}
    /\ at' = [at EXCEPT ![c] = "idle"]
    /\ bears' = [bears EXCEPT ![c] = NoToken]
    /\ UNCHANGED <<now, horizon, mu, cached, expiresAt, since>>

\* Time passes; no exchange and no request outlasts http.Client.Timeout.
Tick ==
    /\ now < horizon
    /\ \A c \in Callers :
        at[c] \in {"fetching", "bearing"} => now - since[c] < Timeout
    /\ now' = now + 1
    /\ UNCHANGED <<horizon, mu, cached, expiresAt, at, since, bears>>

\* The operator restarts: its callers are gone, and so is the token.
Restart ==
    /\ mu' = Free
    /\ cached' = NoToken
    /\ expiresAt' = 0
    /\ at' = [ c \in Callers |-> "idle" ]
    /\ since' = [ c \in Callers |-> 0 ]
    /\ bears' = [ c \in Callers |-> NoToken ]
    /\ UNCHANGED <<now, horizon>>

TokenStep(c) ==
    UseCached(c) \/ Fetch(c) \/ FetchDone(c) \/ FetchFailed(c)

TokenNext ==
    \/ Tick \/ Restart
    \/ \E c \in Callers : Call(c) \/ TokenStep(c) \/ Leave(c)

\* The mutex is fair (sync.Mutex lets nobody starve) and an exchange ends, if
\* only by the timeout.
TokenFairness ==
    \A c \in Callers :
        /\ SF_tokenVars(UseCached(c) \/ Fetch(c))
        /\ WF_tokenVars(FetchDone(c) \/ FetchFailed(c))

TokenSpec == TokenInit /\ [][TokenNext]_tokenVars /\ TokenFairness

-----------------------------------------------------------------------------
(* Properties.                                                             *)

\* Every variable of the token source has its type (internal/polaris/auth.go's
\* tokenSource, its callers and the clock).
TokenTypeOK ==
    /\ now \in 0..horizon
    /\ horizon \in Horizons
    /\ mu \in Callers \cup {Free}
    /\ cached \in Tokens
    /\ expiresAt \in Nat
    /\ at \in [Callers -> Places]
    /\ since \in [Callers -> Nat]
    /\ bears \in [Callers -> Tokens]

\* A token that outlives the lead time is good when the server sees it: at the
\* instant token() hands it out, and later as long as the time the request has
\* taken and the time the issuing answer took fit in tokenLeadTime together.
HandedOutIsValid ==
    \A c \in Callers :
        LET tok == bears[c]
            age == now - since[c]
        IN  /\ at[c] = "bearing"
            /\ tok.life > Lead
            /\ age = 0 \/ age + tok.late <= Lead
            => now < tok.until

\* Callers of token() that find the token about to expire do not all fetch a new
\* one: one exchange is under way at most, and it was due when it began.
OneRefresh ==
    \A c \in Callers : at[c] = "fetching" =>
        /\ \A d \in Callers : at[d] = "fetching" => d = c
        /\ cached = NoToken \/ expiresAt - since[c] <= Lead

\* A caller of token() does not wait for the mutex for ever, whatever happens to
\* the exchanges of the callers before it: it gets a token or an error, unless
\* the operator restarts.
Answered == \A c \in Callers : at[c] = "waiting" ~> at[c] # "waiting"
=============================================================================
