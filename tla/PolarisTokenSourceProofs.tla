---------------------- MODULE PolarisTokenSourceProofs ----------------------
(***************************************************************************)
(* For any callers, lifetimes, lead time and timeout not above it, and     *)
(* with no bound on the clock but the one each behaviour chooses: the      *)
(* types, the validity of what is handed out, and one refresh at a time.   *)
(***************************************************************************)
EXTENDS PolarisTokenSource, TLAPS

\* Who exchanges holds the mutex, and nobody else does.
MutexInv == \A c \in Callers : at[c] = "fetching" <=> mu = c

\* http.Client.Timeout cuts off exchanges and requests.
TimeInv ==
    \A c \in Callers : at[c] \in {"fetching", "bearing"} =>
        /\ since[c] <= now
        /\ now - since[c] <= Timeout

\* The source believes that the cached token lives longer than it does by what
\* its answer took.
ExpiryInv == cached # NoToken => expiresAt = cached.until + cached.late

\* A token was handed out with more than the lead time to go, by that belief.
LeadInv ==
    \A c \in Callers : at[c] = "bearing" /\ bears[c].life > Lead =>
        since[c] + Lead < bears[c].until + bears[c].late

\* An exchange was due when it began.
DueInv ==
    \A c \in Callers : at[c] = "fetching" =>
        cached = NoToken \/ expiresAt - since[c] <= Lead

IInv == TokenTypeOK /\ MutexInv /\ TimeInv /\ ExpiryInv /\ LeadInv /\ DueInv

-----------------------------------------------------------------------------
\* No token is a token, one of no lifetime.
LEMMA NoTokenTyped == NoToken \in Tokens /\ NoToken.life = 0
BY TokenSourceAssumption DEF NoToken, Tokens

\* The fields of a token are numbers.
LEMMA TokenFields ==
    ASSUME NEW tok \in Tokens
    PROVE  tok.until \in Nat /\ tok.late \in Nat /\ tok.life \in Nat
           /\ tok.late <= Timeout
<1>1. tok.until \in Nat /\ tok.late \in 0..Timeout /\ tok.life \in Lifetimes \cup {0}
  BY DEF Tokens
<1>2. tok.late \in Nat /\ tok.late <= Timeout
  BY <1>1, TokenSourceAssumption
<1>3. tok.life \in Nat
  <2>1. Lifetimes \cup {0} \subseteq Nat
    BY TokenSourceAssumption
  <2>2. QED
    BY <1>1, <2>1, Zenon
<1>4. QED
  BY <1>1, <1>2, <1>3

\* At first nobody asks and nothing is cached.
LEMMA InitInv == TokenInit => IInv
<1>1. SUFFICES ASSUME TokenInit PROVE IInv
  OBVIOUS
<1>2. TokenTypeOK
  BY <1>1, NoTokenTyped, TokenSourceAssumption
     DEF TokenInit, TokenTypeOK, Places
<1>3. MutexInv /\ TimeInv /\ LeadInv /\ DueInv
  BY <1>1, TokenSourceAssumption
     DEF TokenInit, MutexInv, TimeInv, LeadInv, DueInv
<1>4. ExpiryInv
  BY <1>1 DEF TokenInit, ExpiryInv
<1>5. QED
  BY <1>2, <1>3, <1>4 DEF IInv

\* Call, Leave and a failed exchange: a caller goes to a place where it neither
\* exchanges nor bears a token.
LEMMA StepAside ==
    ASSUME IInv, NEW c \in Callers, NEW place \in {"idle", "waiting", "refused"},
           at' = [at EXCEPT ![c] = place],
           mu' = IF mu = c THEN Free ELSE mu,
           bears' = bears \/ bears' = [bears EXCEPT ![c] = NoToken],
           UNCHANGED <<now, horizon, cached, expiresAt, since>>
    PROVE  IInv'
<1>1. at \in [Callers -> Places] /\ bears \in [Callers -> Tokens]
  BY DEF IInv, TokenTypeOK
<1>2. /\ at'[c] = place
      /\ \A d \in Callers \ {c} : at'[d] = at[d] /\ bears'[d] = bears[d]
  BY <1>1
<1>3. TokenTypeOK'
  BY <1>1, NoTokenTyped, TokenSourceAssumption DEF IInv, TokenTypeOK, Places
<1>4. MutexInv'
  BY <1>2, TokenSourceAssumption DEF IInv, MutexInv
<1>5. TimeInv' /\ LeadInv' /\ DueInv'
  BY <1>2 DEF IInv, TimeInv, LeadInv, DueInv
<1>6. ExpiryInv'
  BY DEF IInv, ExpiryInv
<1>7. QED
  BY <1>3, <1>4, <1>5, <1>6 DEF IInv

\* A caller is given the cached token.
LEMMA UseCachedInv ==
    ASSUME IInv, NEW c \in Callers, UseCached(c)
    PROVE  IInv'
<1>1. /\ at \in [Callers -> Places] /\ since \in [Callers -> Nat]
      /\ bears \in [Callers -> Tokens]
      /\ now \in Nat /\ cached \in Tokens /\ expiresAt \in Nat
  BY TokenSourceAssumption DEF IInv, TokenTypeOK
<1>2. /\ at'[c] = "bearing" /\ since'[c] = now /\ bears'[c] = cached
      /\ \A d \in Callers \ {c} :
            at'[d] = at[d] /\ since'[d] = since[d] /\ bears'[d] = bears[d]
      /\ UNCHANGED <<now, horizon, mu, cached, expiresAt>>
      /\ mu = Free /\ cached # NoToken /\ expiresAt - now > Lead
  BY <1>1 DEF UseCached, HandOut, Fresh
<1>3. TokenTypeOK'
  BY <1>1 DEF IInv, TokenTypeOK, Places, UseCached, HandOut
<1>4. MutexInv'
  BY <1>2, TokenSourceAssumption DEF IInv, MutexInv
<1>5. TimeInv'
  BY <1>1, <1>2, TokenSourceAssumption DEF IInv, TimeInv
<1>6. LeadInv'
  <2>1. cached.until + cached.late = expiresAt
    BY <1>2 DEF IInv, ExpiryInv
  <2>2. now + Lead < expiresAt
    BY <1>1, <1>2, TokenSourceAssumption
  <2>3. QED
    BY <1>2, <2>1, <2>2 DEF IInv, LeadInv
<1>7. DueInv' /\ ExpiryInv'
  BY <1>2 DEF IInv, DueInv, ExpiryInv
<1>8. QED
  BY <1>3, <1>4, <1>5, <1>6, <1>7 DEF IInv

\* A caller begins an exchange.
LEMMA FetchInv ==
    ASSUME IInv, NEW c \in Callers, Fetch(c)
    PROVE  IInv'
<1>1. /\ at \in [Callers -> Places] /\ since \in [Callers -> Nat]
      /\ now \in Nat /\ expiresAt \in Nat
  BY TokenSourceAssumption DEF IInv, TokenTypeOK
<1>2. /\ at'[c] = "fetching" /\ since'[c] = now
      /\ \A d \in Callers \ {c} : at'[d] = at[d] /\ since'[d] = since[d]
      /\ UNCHANGED <<now, horizon, cached, expiresAt, bears>>
      /\ mu = Free /\ mu' = c
      /\ cached = NoToken \/ expiresAt - now <= Lead
  BY <1>1, TokenSourceAssumption DEF Fetch, Fresh
<1>3. TokenTypeOK'
  BY <1>1 DEF IInv, TokenTypeOK, Places, Fetch
<1>4. MutexInv'
  BY <1>2, TokenSourceAssumption DEF IInv, MutexInv
<1>5. TimeInv'
  BY <1>1, <1>2, TokenSourceAssumption DEF IInv, TimeInv
<1>6. LeadInv' /\ DueInv'
  BY <1>2 DEF IInv, LeadInv, DueInv
<1>7. ExpiryInv'
  BY <1>2 DEF IInv, ExpiryInv
<1>8. QED
  BY <1>3, <1>4, <1>5, <1>6, <1>7 DEF IInv

\* An exchange succeeds.
LEMMA FetchDoneInv ==
    ASSUME IInv, NEW c \in Callers, FetchDone(c)
    PROVE  IInv'
<1>1. /\ at \in [Callers -> Places] /\ since \in [Callers -> Nat]
      /\ bears \in [Callers -> Tokens]
      /\ now \in Nat
  BY TokenSourceAssumption DEF IInv, TokenTypeOK
<1>2. PICK life \in Lifetimes, issued \in since[c]..now, told \in BOOLEAN :
        LET tok == [ until |-> issued + life, late |-> now - issued,
                     life |-> life ]
        IN  /\ told \/ life = DefaultLifetime
            /\ cached' = tok
            /\ expiresAt' = now + (IF told THEN life ELSE DefaultLifetime)
            /\ HandOut(c, tok)
  BY DEF FetchDone
<1>3. /\ life \in Nat \ {0} /\ issued \in Nat /\ issued <= now
      /\ now - issued \in 0..Timeout
  BY <1>1, TokenSourceAssumption DEF IInv, TimeInv, FetchDone
<1>4. /\ cached' \in Tokens
      /\ cached'.until = issued + life /\ cached'.late = now - issued
      /\ cached'.life = life
  BY <1>2, <1>3 DEF Tokens
<1>5. expiresAt' = now + life
  BY <1>2
<1>6. /\ at'[c] = "bearing" /\ since'[c] = now /\ bears'[c] = cached'
      /\ \A d \in Callers \ {c} :
            at'[d] = at[d] /\ since'[d] = since[d] /\ bears'[d] = bears[d]
      /\ UNCHANGED <<now, horizon>>
      /\ at[c] = "fetching" /\ mu' = Free
  BY <1>1, <1>2 DEF FetchDone, HandOut
<1>7. TokenTypeOK'
  <2>1. /\ at' \in [Callers -> Places]
        /\ since' \in [Callers -> Nat]
        /\ bears' \in [Callers -> Tokens]
    BY <1>1, <1>2, <1>4 DEF HandOut, Places
  <2>2. expiresAt' \in Nat
    BY <1>1, <1>3, <1>5
  <2>3. QED
    BY <1>4, <1>6, <2>1, <2>2 DEF IInv, TokenTypeOK
<1>8. MutexInv' /\ DueInv'
  <2>1. \A d \in Callers : at'[d] # "fetching"
    BY <1>6, TokenSourceAssumption DEF IInv, MutexInv
  <2>2. QED
    BY <1>6, <2>1, TokenSourceAssumption DEF MutexInv, DueInv
<1>9. TimeInv'
  BY <1>1, <1>6, TokenSourceAssumption DEF IInv, TimeInv
<1>10. ExpiryInv'
  BY <1>1, <1>3, <1>4, <1>5 DEF ExpiryInv
<1>11. LeadInv'
  <2>1. cached'.life > Lead => now + Lead < cached'.until + cached'.late
    BY <1>1, <1>3, <1>4, TokenSourceAssumption
  <2>2. QED
    BY <1>6, <2>1 DEF IInv, LeadInv
<1>12. QED
  BY <1>7, <1>8, <1>9, <1>10, <1>11 DEF IInv

\* The clock moves, but not past the timeout of an exchange or a request.
LEMMA TickInv ==
    ASSUME IInv, Tick
    PROVE  IInv'
<1>1. /\ since \in [Callers -> Nat] /\ now \in Nat /\ horizon \in Nat
      /\ now <= horizon
  BY TokenSourceAssumption DEF IInv, TokenTypeOK
<1>2. TokenTypeOK'
  BY <1>1 DEF IInv, TokenTypeOK, Tick
<1>3. MutexInv' /\ LeadInv' /\ DueInv' /\ ExpiryInv'
  BY DEF IInv, MutexInv, LeadInv, DueInv, ExpiryInv, Tick
<1>4. TimeInv'
  BY <1>1, TokenSourceAssumption DEF IInv, TimeInv, Tick
<1>5. QED
  BY <1>2, <1>3, <1>4 DEF IInv

\* The operator restarts: nothing is held, cached or borne.
LEMMA RestartInv ==
    ASSUME IInv, Restart
    PROVE  IInv'
<1>1. TokenTypeOK'
  BY NoTokenTyped DEF IInv, TokenTypeOK, Places, Restart
<1>2. MutexInv' /\ TimeInv' /\ LeadInv' /\ DueInv'
  BY TokenSourceAssumption
     DEF Restart, MutexInv, TimeInv, LeadInv, DueInv
<1>3. ExpiryInv'
  BY DEF Restart, ExpiryInv
<1>4. QED
  BY <1>1, <1>2, <1>3 DEF IInv

\* Every step of the token source keeps the invariant.
LEMMA NextInv == IInv /\ [TokenNext]_tokenVars => IInv'
<1>1. SUFFICES ASSUME IInv, [TokenNext]_tokenVars PROVE IInv'
  OBVIOUS
<1>2. CASE UNCHANGED tokenVars
  BY <1>1, <1>2 DEF tokenVars, IInv, TokenTypeOK, MutexInv, TimeInv, ExpiryInv,
                    LeadInv, DueInv
<1>3. ASSUME NEW c \in Callers, Call(c) PROVE IInv'
  <2>1. mu # c
    BY <1>1, <1>3 DEF IInv, MutexInv, Call
  <2>2. QED
    BY <1>1, <1>3, <2>1, StepAside DEF Call
<1>4. ASSUME NEW c \in Callers, Leave(c) PROVE IInv'
  <2>1. mu # c
    BY <1>1, <1>4 DEF IInv, MutexInv, Leave
  <2>2. QED
    BY <1>1, <1>4, <2>1, StepAside DEF Leave
<1>5. ASSUME NEW c \in Callers, FetchFailed(c) PROVE IInv'
  <2>1. mu = c
    BY <1>1, <1>5 DEF IInv, MutexInv, FetchFailed
  <2>2. QED
    BY <1>1, <1>5, <2>1, StepAside DEF FetchFailed
<1>6. ASSUME NEW c \in Callers, TokenStep(c) PROVE IInv'
  BY <1>1, <1>5, <1>6, UseCachedInv, FetchInv, FetchDoneInv DEF TokenStep
<1>7. QED
  BY <1>1, <1>2, <1>3, <1>4, <1>6, TickInv, RestartInv DEF TokenNext

\* A token with more than the lead time to go, by the source's belief, is good
\* for as long as the lead time covers the answer's and the request's delay.
LEMMA LeadCovers == IInv => HandedOutIsValid
<1>1. SUFFICES ASSUME IInv, NEW c \in Callers, at[c] = "bearing",
                      bears[c].life > Lead,
                      now - since[c] = 0 \/ now - since[c] + bears[c].late <= Lead
               PROVE  now < bears[c].until
  BY DEF HandedOutIsValid
<1>2. /\ now \in Nat /\ since[c] \in Nat /\ since[c] <= now
      /\ bears[c] \in Tokens
  BY <1>1, TokenSourceAssumption DEF IInv, TokenTypeOK, TimeInv
<1>3. since[c] + Lead < bears[c].until + bears[c].late
  BY <1>1 DEF IInv, LeadInv
<1>4. QED
  BY <1>1, <1>2, <1>3, TokenFields, TokenSourceAssumption

\* Who exchanges is alone, and had to.
LEMMA AloneAndDue == IInv => OneRefresh
BY DEF IInv, MutexInv, DueInv, OneRefresh

\* The invariant holds of every behaviour.
LEMMA Inductive == TokenSpec => []IInv
BY InitInv, NextInv, PTL DEF TokenSpec

-----------------------------------------------------------------------------
\* Every reachable state is typed; in particular no answer is later than the
\* timeout, which is what tokenLeadTime is compared with.
THEOREM TypeCorrect == TokenSpec => []TokenTypeOK
<1>1. IInv => TokenTypeOK
  BY DEF IInv
<1>2. QED
  BY <1>1, Inductive, PTL

\* What token() hands out is good when it is handed out, and for as long as
\* tokenLeadTime covers the time that its answer and its request take together.
THEOREM HandedOut == TokenSpec => []HandedOutIsValid
BY Inductive, LeadCovers, PTL

\* Callers of token() fetch one at a time, and only a token that is due.
THEOREM RefreshedOnce == TokenSpec => []OneRefresh
BY Inductive, AloneAndDue, PTL
=============================================================================
