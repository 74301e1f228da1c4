------------------------------- MODULE ApimAuth -------------------------------
(****************************************************************************)
(* The OAuth2 token of the API Manager (internal/apim/auth.go): start-up    *)
(* with dynamic client registration, the background refresh loop, and the   *)
(* callers of GetToken, who issue a token themselves when the cached one is *)
(* about to expire.  Time is counted in units of ten seconds.               *)
(****************************************************************************)
EXTENDS Integers

CONSTANTS
    Caller,      \* goroutines that call GetToken
    Lifetime,    \* values of expires_in
    Buffer,      \* 5 minutes: refresh that long before the expiry
    Short,       \* 60 seconds: a remaining life that is short of the buffer
    Margin,      \* 30 seconds: GetToken does not hand out less
    Pause,       \* 30 seconds: rest of the loop after both grants failed
    Blink,       \* 1 second, rounded up: sleep in place of a negative one
    Timeout,     \* timeout of the HTTP client
    Tolerated,   \* an outage that no caller of GetToken should notice
    MaxOutage    \* longest outage of the API Manager

ASSUME ApimAuthAssumption ==
    /\ Lifetime \in SUBSET Nat /\ Lifetime # {}
    /\ Buffer \in Nat /\ Short \in Nat /\ Margin \in Nat /\ Pause \in Nat
    /\ Blink \in Nat \ {0} /\ Timeout \in Nat
    /\ MaxOutage \in Nat /\ Tolerated \in 0 .. MaxOutage

VARIABLES
    credsFile,   \* the file that keeps the DCR credentials is readable
    loop,        \* what Start and then the refresh loop do next
    wait,        \* time until the sleep of the loop is over, or age of its request
    left,        \* time until ExpiresAt of the cached token (0 when it has expired)
    caller,      \* caller[c]: "idle", or "issuing" inside an inline passwordGrant
    outage,      \* time until the API Manager answers again (0 when it does)
    endured      \* history: length of the outage since the loop last got a token

authVars == <<credsFile, loop, wait, left, caller, outage, endured>>

Starting  == {"creds", "register", "initial"}
Requests  == {"register", "initial", "refresh", "reissue"}
Sleeps    == {"sleep", "pause"}
LoopSteps == {"compute", "sleep", "refresh", "reissue", "pause"}

AuthTypeOK ==
    /\ credsFile \in BOOLEAN
    /\ loop \in Starting \cup LoopSteps \cup {"failed"}
    /\ wait \in Nat
    /\ left \in Nat
    /\ caller \in [Caller -> {"idle", "issuing"}]
    /\ outage \in 0 .. MaxOutage
    /\ endured \in 0 .. MaxOutage

AuthInit ==
    /\ credsFile \in BOOLEAN
    /\ loop = "creds"
    /\ wait = 0
    /\ left = 0
    /\ caller = [c \in Caller |-> "idle"]
    /\ outage = 0
    /\ endured = 0

----------------------------------------------------------------------------
(* The environment. *)

\* Sleeps end on time and requests end by the timeout.
Tick ==
    /\ loop \notin {"creds", "compute"}
    /\ loop \in Sleeps => wait > 0
    /\ loop \in Requests => wait < Timeout
    /\ wait' = CASE loop \in Sleeps -> wait - 1
                 [] loop \in Requests -> wait + 1
                 [] OTHER -> wait
    /\ left' = IF left > 0 THEN left - 1 ELSE 0
    /\ outage' = IF outage > 0 THEN outage - 1 ELSE 0
    /\ UNCHANGED <<credsFile, loop, caller, endured>>

\* The API Manager goes down, at most once between two successes of the loop.
GoesDown ==
    /\ outage = 0 /\ endured = 0
    /\ outage' \in 1 .. MaxOutage
    /\ endured' = outage'
    /\ UNCHANGED <<credsFile, loop, wait, left, caller>>

\* An operator restarts a daemon whose Start failed.
Restart ==
    /\ loop = "failed"
    /\ loop' = "creds"
    /\ wait' = 0
    /\ UNCHANGED <<credsFile, left, caller, outage, endured>>

----------------------------------------------------------------------------
(* Start, and the loop. *)

Goes(from, to) == loop = from /\ loop' = to /\ wait' = 0

\* ensureCreds: load the credentials, or register.
EnsureCreds ==
    /\ Goes("creds", IF credsFile THEN "initial" ELSE "register")
    /\ UNCHANGED <<credsFile, left, caller, outage, endured>>

\* runDCR; that the file could not be written is only logged.
Register ==
    /\ Goes("register", "initial")
    /\ outage = 0
    /\ credsFile' \in BOOLEAN
    /\ UNCHANGED <<left, caller, outage, endured>>

\* Start returns the error, and the engine goes on without phase 2.
StartFails ==
    /\ loop \in {"register", "initial"} /\ Goes(loop, "failed")
    /\ outage > 0
    /\ UNCHANGED <<credsFile, left, caller, outage, endured>>

\* setToken of a token that was issued to Start or to the loop.
Issued ==
    /\ outage = 0
    /\ left' \in Lifetime
    /\ endured' = 0
    /\ UNCHANGED <<credsFile, caller, outage>>

InitialToken == Goes("initial", "compute") /\ Issued

\* The loop sleeps the whole life of the token.
SleepFor_NoBuffer(ttl) == ttl

BufferOf(ttl) == IF ttl <= Short THEN ttl \div 3 ELSE Buffer

\* A remaining life shorter than the buffer gives a negative sleep.
SleepFor_Negative(ttl) == ttl - BufferOf(ttl)

\* How long the loop leaves a token alone that has ttl to live.
SleepFor(ttl) == IF ttl > BufferOf(ttl) THEN ttl - BufferOf(ttl) ELSE Blink

Compute ==
    /\ loop = "compute"
    /\ loop' = "sleep"
    /\ wait' = SleepFor(left)
    /\ UNCHANGED <<credsFile, left, caller, outage, endured>>

WakeUp ==
    /\ wait = 0
    /\ Goes("sleep", "refresh")
    /\ UNCHANGED <<credsFile, left, caller, outage, endured>>

RefreshGrant == Goes("refresh", "compute") /\ Issued

\* An outage, or the API Manager rejects the refresh token: try the other grant.
RefreshFails ==
    /\ Goes("refresh", "reissue")
    /\ UNCHANGED <<credsFile, left, caller, outage, endured>>

PasswordGrant == Goes("reissue", "compute") /\ Issued

\* The loop returns when both grants failed.
ReissueFails_Returns ==
    /\ Goes("reissue", "failed")
    /\ outage > 0
    /\ UNCHANGED <<credsFile, left, caller, outage, endured>>

\* Both grants failed: log, rest, and compute the next sleep.
ReissueFails ==
    /\ loop = "reissue"
    /\ outage > 0
    /\ loop' = "pause"
    /\ wait' = Pause
    /\ UNCHANGED <<credsFile, left, caller, outage, endured>>

Rested ==
    /\ wait = 0
    /\ Goes("pause", "compute")
    /\ UNCHANGED <<credsFile, left, caller, outage, endured>>

----------------------------------------------------------------------------
(* The callers of GetToken, once Start has returned. *)

\* The cached token has too little life left: issue one inline.
GetTokenInline(c) ==
    /\ loop \in LoopSteps
    /\ caller[c] = "idle"
    /\ left <= Margin
    /\ caller' = [caller EXCEPT ![c] = "issuing"]
    /\ UNCHANGED <<credsFile, loop, wait, left, outage, endured>>

\* setToken, which the loop does not see before it computes its next sleep.
InlineIssued(c) ==
    /\ caller[c] = "issuing"
    /\ outage = 0
    /\ left' \in Lifetime
    /\ caller' = [caller EXCEPT ![c] = "idle"]
    /\ UNCHANGED <<credsFile, loop, wait, outage, endured>>

InlineFails(c) ==
    /\ caller[c] = "issuing"
    /\ outage > 0
    /\ caller' = [caller EXCEPT ![c] = "idle"]
    /\ UNCHANGED <<credsFile, loop, wait, left, outage, endured>>

LoopStep ==
    \/ EnsureCreds \/ Register \/ StartFails \/ InitialToken
    \/ Compute \/ WakeUp \/ RefreshGrant \/ RefreshFails
    \/ PasswordGrant \/ ReissueFails \/ Rested

CallerStep(c) == GetTokenInline(c) \/ InlineIssued(c) \/ InlineFails(c)

AuthNext ==
    \/ Tick \/ GoesDown \/ Restart
    \/ LoopStep
    \/ \E c \in Caller : CallerStep(c)

AuthSpec == AuthInit /\ [][AuthNext]_authVars

\* Time passes, requests end, and the loop is scheduled.
AuthFairness == WF_authVars(Tick) /\ WF_authVars(LoopStep)

AuthFairSpec == AuthSpec /\ AuthFairness

----------------------------------------------------------------------------
(* Properties. *)

\* The background loop alone keeps the token fit to be handed out, so that no
\* caller of GetToken has to wait for a token of its own (auth.go:129-130),
\* unless the API Manager was down for longer than Tolerated: although the
\* loop may be asleep, in a request that times out, or resting after both
\* grants failed when the outage ends.  It needs lifetimes beyond the buffer.
StaleOnlyAfterLongOutage ==
    (loop \in LoopSteps /\ left <= Margin) => endured > Tolerated

\* The refresh loop outlives every outage (auth.go:298-311): a token that
\* runs out is followed by one that is fit to be handed out, whoever asks.
TokenRecovers == (left > 0 /\ left <= Margin) ~> left > Margin
=============================================================================
