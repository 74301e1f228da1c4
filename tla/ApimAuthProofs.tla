---------------------------- MODULE ApimAuthProofs ----------------------------
(****************************************************************************)
(* Proofs about ApimAuth for any callers, lifetimes, timeouts and lengths   *)
(* of outages: how much buffer the refresh loop needs, so that a token is   *)
(* renewed in time whatever an outage hits.                                 *)
(****************************************************************************)
EXTENDS ApimAuth, TLAPS

USE ApimAuthAssumption DEF ApimAuthAssumption

----------------------------------------------------------------------------
(* Types. *)

\* The loop never sleeps a negative time, even when the token has less left
\* than the buffer.
LEMMA SleepIsPositive ==
    ASSUME NEW ttl \in Nat
    PROVE  /\ SleepFor(ttl) \in Nat \ {0}
           /\ ttl > Buffer /\ ttl > Short => SleepFor(ttl) = ttl - Buffer
           /\ ttl <= Buffer /\ ttl > Short => SleepFor(ttl) = Blink
BY DEF SleepFor, BufferOf

\* Timers and lives stay natural numbers, whatever the callers do.
THEOREM AuthTypes == AuthSpec => []AuthTypeOK
<1>1. AuthInit => AuthTypeOK
  BY DEF AuthInit, AuthTypeOK, Starting
<1>2. AuthTypeOK /\ [AuthNext]_authVars => AuthTypeOK'
  <2> SUFFICES ASSUME AuthTypeOK, [AuthNext]_authVars PROVE AuthTypeOK'
    OBVIOUS
  <2> USE DEF AuthTypeOK, Starting, LoopSteps
  <2>1. CASE Tick
    BY <2>1 DEF Tick, Sleeps, Requests
  <2>2. CASE GoesDown \/ Restart
    BY <2>2 DEF GoesDown, Restart
  <2>3. CASE LoopStep
    <3>1. CASE EnsureCreds \/ Register \/ StartFails
      BY <3>1 DEF EnsureCreds, Register, StartFails, Goes
    <3>2. CASE InitialToken \/ RefreshGrant \/ PasswordGrant
      <4>1. loop' = "compute" /\ wait' = 0 /\ Issued
        BY <3>2 DEF InitialToken, RefreshGrant, PasswordGrant, Goes
      <4>2. left' \in Nat
        BY <4>1 DEF Issued
      <4> QED BY <4>1, <4>2 DEF Issued
    <3>3. CASE Compute
      BY <3>3, SleepIsPositive DEF Compute
    <3>4. CASE WakeUp \/ RefreshFails \/ ReissueFails \/ Rested
      BY <3>4 DEF WakeUp, RefreshFails, ReissueFails, Rested, Goes
    <3> QED BY <2>3, <3>1, <3>2, <3>3, <3>4 DEF LoopStep
  <2>4. ASSUME NEW c \in Caller, CallerStep(c) PROVE AuthTypeOK'
    BY <2>4 DEF CallerStep, GetTokenInline, InlineIssued, InlineFails
  <2>5. CASE UNCHANGED authVars
    BY <2>5 DEF authVars
  <2> QED BY <2>1, <2>2, <2>3, <2>4, <2>5 DEF AuthNext
<1> QED
  BY <1>1, <1>2, PTL DEF AuthSpec

----------------------------------------------------------------------------
(* Renewal in time. *)

\* The buffer holds what may come together: an outage; requests that time out
\* before and after it, two each; the rest of the loop, and its shortest sleep,
\* which the outage may just miss.  The lifetimes differ by at most spread, and
\* even then the loop does not yet take the life of the token for a short one.
RoomFor(spread) ==
    /\ \A l \in Lifetime : l > Buffer
    /\ \A l, m \in Lifetime : l <= m + spread
    /\ Tolerated + 4 * Timeout + Pause + Blink + spread + Margin <= Buffer
    /\ Tolerated + 2 * Timeout + Pause + spread + Short <= Buffer

\* The rest of a sleep that began with a token of full life: floor remains of
\* the token at its end, also of one that a caller issued meanwhile.
Slept(floor) ==
    /\ left >= wait + floor
    /\ \E l \in Lifetime : wait + Buffer <= l

\* No outage since the loop last got a token.
OnTime(floor) ==
    /\ loop = "compute" => left > Buffer
    /\ loop = "sleep"   => Slept(floor)
    /\ loop = "refresh" => left + wait >= floor
    /\ loop = "reissue" => left + wait + Timeout >= floor
    /\ loop # "pause"

\* In an outage the token loses what the outage has lasted, beside the two
\* requests that may have timed out before.
InOutage(floor) ==
    LET lost == 2 * Timeout + (endured - outage)
    IN  \/ left + lost >= floor /\ (loop = "sleep" => wait <= Blink)
        \/ loop = "sleep" /\ Slept(floor)

\* After an outage it loses the rest of one more round, which succeeds.
AfterOutage(floor) ==
    LET lost == 2 * Timeout + endured + Pause - 1
    IN  /\ loop = "pause"   => left + lost >= floor + wait
        /\ loop = "compute" => left + lost >= floor
        /\ loop = "sleep"   => \/ Slept(floor)
                               \/ wait <= Blink /\ left + lost + Blink >= floor + wait
        /\ loop = "refresh" => left + lost + Blink + wait >= floor
        /\ loop = "reissue" => left + lost + Blink + Timeout + wait >= floor

Timely(floor) ==
    loop \in LoopSteps /\ endured <= Tolerated =>
        /\ endured = 0 => OnTime(floor)
        /\ outage > 0 => InOutage(floor)
        /\ endured > 0 /\ outage = 0 => AfterOutage(floor)

\* What bounds the timers, and the slack of the token.
RenewalInv(floor) ==
    /\ outage <= endured
    /\ loop \in Requests => wait <= Timeout
    /\ loop = "pause" => wait <= Pause /\ endured > 0
    /\ left = 0 \/ \E l \in Lifetime : left <= l
    /\ Timely(floor)

LEMMA IssuedIsTimely ==
    ASSUME AuthTypeOK, NEW spread \in Nat, RoomFor(spread),
           Issued, loop' = "compute", wait' = 0
    PROVE  RenewalInv(Buffer - spread)'
<1>1. left' \in Nat /\ left' > Buffer /\ outage' = 0 /\ endured' = 0
  BY DEF Issued, RoomFor
<1>2. Timely(Buffer - spread)'
  BY <1>1 DEF Timely, OnTime
<1>3. left' \in Lifetime
  BY DEF Issued
<1> QED BY <1>1, <1>2, <1>3 DEF RenewalInv, Requests

LEMMA TickIsTimely ==
    ASSUME AuthTypeOK, NEW spread \in Nat, RoomFor(spread),
           RenewalInv(Buffer - spread), Tick
    PROVE  RenewalInv(Buffer - spread)'
<1> DEFINE floor == Buffer - spread
<1>1. /\ floor \in Int /\ left \in Nat /\ wait \in Nat /\ outage \in Nat /\ endured \in Nat
      /\ \A l \in Lifetime : l \in Nat
  BY DEF AuthTypeOK
<1>2. /\ loop' = loop /\ endured' = endured /\ loop \notin {"creds", "compute"}
      /\ left' = IF left > 0 THEN left - 1 ELSE 0
      /\ outage' = IF outage > 0 THEN outage - 1 ELSE 0
      /\ loop \in {"sleep", "pause"} => wait > 0 /\ wait' = wait - 1
      /\ loop \in {"register", "initial", "refresh", "reissue"} =>
            wait < Timeout /\ wait' = wait + 1
  BY DEF Tick, Sleeps, Requests
<1>3. \/ left' = left - 1 /\ left > 0
      \/ left' = 0 /\ left = 0
  BY <1>1, <1>2
<1>4. \/ outage' = outage - 1 /\ outage > 0
      \/ outage' = 0 /\ outage = 0
  BY <1>1, <1>2
<1>5. loop = "sleep" /\ Slept(floor) => Slept(floor)'
  BY <1>1, <1>2, <1>3 DEF Slept, RoomFor
<1> QED
  BY <1>1, <1>2, <1>3, <1>4, <1>5
     DEF RenewalInv, Timely, OnTime, InOutage, AfterOutage, Requests, LoopSteps

LEMMA ComputeIsTimely ==
    ASSUME AuthTypeOK, NEW spread \in Nat, RoomFor(spread),
           RenewalInv(Buffer - spread), Compute
    PROVE  RenewalInv(Buffer - spread)'
<1> DEFINE floor == Buffer - spread
<1>1. /\ left \in Nat /\ outage \in Nat /\ endured \in Nat
      /\ \A l \in Lifetime : l \in Nat
      /\ loop = "compute" /\ loop' = "sleep" /\ UNCHANGED <<left, outage, endured>>
      /\ wait' = SleepFor(left)
  BY DEF AuthTypeOK, Compute
<1>2. left' = 0 \/ \E l \in Lifetime : left' <= l
  BY <1>1 DEF RenewalInv
<1>3. SUFFICES ASSUME endured <= Tolerated PROVE Timely(floor)'
  <2>1. ~(endured <= Tolerated) => Timely(floor)'
    BY <1>1 DEF Timely
  <2>2. Timely(floor)' => RenewalInv(floor)'
    BY <1>1, <1>2 DEF RenewalInv, Requests
  <2> QED BY <2>1, <2>2
<1>4. left > Short
  BY <1>1, <1>3
     DEF RenewalInv, Timely, OnTime, InOutage, AfterOutage, LoopSteps, RoomFor
<1>5. CASE left > Buffer
  <2>1. wait' = left - Buffer
    BY <1>1, <1>4, <1>5, SleepIsPositive
  <2>2. PICK l \in Lifetime : left <= l
    BY <1>1, <1>5 DEF RenewalInv
  <2>3. Slept(floor)'
    BY <1>1, <2>1, <2>2 DEF Slept
  <2> QED
    BY <1>1, <2>3 DEF Timely, OnTime, InOutage, AfterOutage
<1>6. CASE left <= Buffer
  <2>1. wait' = Blink
    BY <1>1, <1>4, <1>6, SleepIsPositive
  <2>2. endured > 0
    BY <1>1, <1>3, <1>6 DEF RenewalInv, Timely, OnTime, LoopSteps
  <2> QED
    BY <1>1, <1>3, <2>1, <2>2 DEF RenewalInv, Timely, InOutage, AfterOutage, LoopSteps
<1> QED BY <1>1, <1>5, <1>6

\* The other steps of the loop take no time; a round fails only in an outage.
LEMMA LoopIsTimely ==
    ASSUME AuthTypeOK, NEW spread \in Nat, RoomFor(spread),
           RenewalInv(Buffer - spread),
           WakeUp \/ RefreshFails \/ ReissueFails \/ Rested
    PROVE  RenewalInv(Buffer - spread)'
<1>1. /\ left \in Nat /\ wait \in Nat /\ outage \in Nat /\ endured \in Nat
      /\ UNCHANGED <<left, outage, endured>>
  BY DEF AuthTypeOK, WakeUp, RefreshFails, ReissueFails, Rested
<1>2. left' = 0 \/ \E l \in Lifetime : left' <= l
  BY <1>1 DEF RenewalInv
<1> USE <1>1, <1>2
        DEF RenewalInv, Timely, OnTime, InOutage, AfterOutage, Requests, LoopSteps
<1>3. CASE WakeUp
  <2>1. loop = "sleep" /\ wait = 0 /\ loop' = "refresh" /\ wait' = 0
    BY <1>3 DEF WakeUp, Goes
  <2> QED BY <2>1 DEF Slept
<1>4. CASE RefreshFails
  <2>1. loop = "refresh" /\ loop' = "reissue" /\ wait' = 0
    BY <1>4 DEF RefreshFails, Goes
  <2> QED BY <2>1
<1>5. CASE ReissueFails
  <2>1. loop = "reissue" /\ outage > 0 /\ loop' = "pause" /\ wait' = Pause
    BY <1>5 DEF ReissueFails
  <2> QED BY <2>1
<1>6. CASE Rested
  <2>1. loop = "pause" /\ wait = 0 /\ loop' = "compute" /\ wait' = 0
    BY <1>6 DEF Rested, Goes
  <2> QED BY <2>1
<1> QED BY <1>3, <1>4, <1>5, <1>6

\* An outage begins, or a caller gets a token of its own: neither harms.
LEMMA OthersAreTimely ==
    ASSUME AuthTypeOK, NEW spread \in Nat, RoomFor(spread),
           RenewalInv(Buffer - spread),
           GoesDown \/ \E c \in Caller : CallerStep(c)
    PROVE  RenewalInv(Buffer - spread)'
<1> DEFINE floor == Buffer - spread
<1>1. /\ floor \in Int /\ left \in Nat /\ wait \in Nat /\ outage \in Nat /\ endured \in Nat
      /\ \A l \in Lifetime : l \in Nat
      /\ loop' = loop /\ wait' = wait
  BY DEF AuthTypeOK, GoesDown, CallerStep, GetTokenInline, InlineIssued, InlineFails
<1>2. CASE UNCHANGED <<left, outage, endured>>
  BY <1>1, <1>2
     DEF RenewalInv, Timely, OnTime, InOutage, AfterOutage, Slept
<1>3. CASE GoesDown
  <2>1. PICK length \in Nat :
           /\ length > 0 /\ outage' = length /\ endured' = length
           /\ outage = 0 /\ endured = 0 /\ left' = left
    BY <1>3 DEF GoesDown
  <2>2. Slept(floor) => Slept(floor)'
    BY <1>1, <2>1 DEF Slept
  <2>3. Timely(floor)'
    <3>1. loop \in LoopSteps => OnTime(floor)
      BY <2>1 DEF RenewalInv, Timely
    <3>2. loop \in Requests => wait <= Timeout
      BY DEF RenewalInv
    <3>3. loop \in LoopSteps => InOutage(floor)'
      BY <1>1, <2>1, <2>2, <3>1, <3>2 DEF OnTime, InOutage, Requests, LoopSteps
    <3> QED BY <1>1, <2>1, <3>3 DEF Timely
  <2>4. left' = 0 \/ \E l \in Lifetime : left' <= l
    BY <2>1 DEF RenewalInv
  <2> QED
    BY <1>1, <2>1, <2>3, <2>4 DEF RenewalInv, Requests
<1>4. ASSUME NEW c \in Caller, InlineIssued(c) PROVE RenewalInv(floor)'
  <2>1. PICK l \in Lifetime :
           left' = l /\ outage = 0 /\ outage' = 0 /\ endured' = endured
    BY <1>4 DEF InlineIssued
  <2>2. l \in Nat /\ l > Buffer
    BY <2>1 DEF RoomFor
  <2>3. Slept(floor) => Slept(floor)'
    BY <1>1, <2>1, <2>2 DEF Slept, RoomFor
  <2>4. Timely(floor)'
    <3>1. endured = 0 /\ OnTime(floor) => OnTime(floor)'
      BY <1>1, <2>1, <2>2, <2>3 DEF OnTime
    <3>2. endured > 0 /\ AfterOutage(floor) => AfterOutage(floor)'
      BY <1>1, <2>1, <2>2, <2>3 DEF AfterOutage, RenewalInv
    <3> QED BY <1>1, <2>1, <3>1, <3>2 DEF RenewalInv, Timely
  <2> QED
    BY <1>1, <2>1, <2>2, <2>4 DEF RenewalInv, Requests
<1> QED
  BY <1>2, <1>3, <1>4 DEF CallerStep, GetTokenInline, InlineFails

\* If the buffer has room for it, no outage of at most Tolerated lets the
\* token run out, for any callers and whenever the outage begins and ends.
THEOREM TokenOutlastsOutages ==
    ASSUME NEW spread \in Nat, RoomFor(spread)
    PROVE  AuthSpec => []StaleOnlyAfterLongOutage
<1> DEFINE Inv == RenewalInv(Buffer - spread)
<1>1. AuthInit => Inv
  BY DEF AuthInit, RenewalInv, Timely, Requests, LoopSteps
<1>2. AuthTypeOK /\ Inv /\ [AuthNext]_authVars => Inv'
  <2> SUFFICES ASSUME AuthTypeOK, Inv, [AuthNext]_authVars PROVE Inv'
    OBVIOUS
  <2>1. CASE Tick
    BY <2>1, TickIsTimely
  <2>2. CASE GoesDown \/ \E c \in Caller : CallerStep(c)
    BY <2>2, OthersAreTimely
  <2>3. CASE Restart \/ EnsureCreds \/ Register \/ StartFails
    <3>1. /\ loop' \in {"creds", "register", "initial", "failed"} /\ wait' = 0
          /\ UNCHANGED <<left, outage, endured>>
      BY <2>3 DEF Restart, EnsureCreds, Register, StartFails, Goes
    <3> QED BY <3>1 DEF RenewalInv, Timely, LoopSteps, Requests
  <2>4. CASE InitialToken \/ RefreshGrant \/ PasswordGrant
    <3>1. Issued /\ loop' = "compute" /\ wait' = 0
      BY <2>4 DEF InitialToken, RefreshGrant, PasswordGrant, Goes
    <3> QED BY <3>1, IssuedIsTimely
  <2>5. CASE Compute
    BY <2>5, ComputeIsTimely
  <2>6. CASE WakeUp \/ RefreshFails \/ ReissueFails \/ Rested
    BY <2>6, LoopIsTimely
  <2>7. CASE UNCHANGED authVars
    BY <2>7 DEF authVars, RenewalInv, Timely, OnTime, InOutage, AfterOutage, Slept
  <2> QED
    BY <2>1, <2>2, <2>3, <2>4, <2>5, <2>6, <2>7 DEF AuthNext, LoopStep
<1>3. AuthTypeOK /\ Inv => StaleOnlyAfterLongOutage
  <2> SUFFICES ASSUME AuthTypeOK, Inv, loop \in LoopSteps, endured <= Tolerated
               PROVE  left > Margin
    BY DEF StaleOnlyAfterLongOutage, AuthTypeOK
  <2>1. left \in Nat /\ wait \in Nat /\ outage \in Nat /\ endured \in Nat
    BY DEF AuthTypeOK
  <2> QED
    BY <2>1
       DEF RenewalInv, Timely, OnTime, InOutage, AfterOutage, Slept, Requests, LoopSteps, RoomFor
<1> QED
  BY <1>1, <1>2, <1>3, AuthTypes, PTL DEF AuthSpec
=============================================================================
