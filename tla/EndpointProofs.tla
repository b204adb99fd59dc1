---------------------------- MODULE EndpointProofs ----------------------------
(***************************************************************************)
(* Proofs about what one endpoint is made of: the event tokens that name   *)
(* its sockets (EventTokens), the profile it was compiled from             *)
(* (ProfileCompiler) and the frames it exchanges (FrameExchange), for      *)
(* every number of endpoints and slots, every profile, timestamp and       *)
(* fault; and about the client that judges a fleet of them (Probe), for    *)
(* every fleet, version, duration and lateness.                            *)
(***************************************************************************)
EXTENDS EventTokens, FrameExchange, Probe, WellFoundedInduction,
        SequenceTheorems, TLAPS

(* The tokens: they decode to their source, and events reach only theirs.  *)

(* A number in mixed radix gives back its digits: what % and / undo in     *)
(* event_target.                                                           *)
LEMMA Digits ==
  ASSUME NEW a \in Nat, NEW b \in Nat, NEW n \in Nat \ {0}, b < n
  PROVE  /\ (a * n + b) \div n = a
         /\ (a * n + b) % n = b
<1> DEFINE x == a * n + b
<1>1. x \in Int /\ x \div n \in Int /\ x % n \in 0..(n - 1) /\ x = n * (x \div n) + (x % n)
  OBVIOUS
<1>2. x \div n = a
  <2>1. CASE x \div n < a
    <3>1. n * (x \div n) + n <= n * a
      <4>1. n * (x \div n + 1) <= n * a
        BY <1>1, <2>1
      <4> QED BY <4>1, <1>1
    <3> QED BY <3>1, <1>1
  <2>2. CASE x \div n > a
    <3>1. n * a + n <= n * (x \div n)
      <4>1. n * (a + 1) <= n * (x \div n)
        BY <1>1, <2>2
      <4> QED BY <4>1, <1>1
    <3> QED BY <3>1, <1>1
  <2> QED BY <1>1, <2>1, <2>2
<1>3. x % n = b
  BY <1>1, <1>2
<1> QED BY <1>2, <1>3

(* Every PDC connection that gets a token is found again: endpoint, slot   *)
(* and id come back out of connection_token's number.                      *)
LEMMA ConnectionRoundTrip ==
  ASSUME NEW e \in EndpointIndexes, NEW s \in Slots, NEW id \in Nat \ {0},
         connection_token(e, s, id) # NoToken
  PROVE  event_target(connection_token(e, s, id)) = Connection(e, s, id)
<1> DEFINE N == EndpointCount
           P == PDC_SLOTS_PER_ENDPOINT
           pair == id * N + e
           encoded == pair * P + s
           token == encoded + N
<1>1. /\ N \in Nat \ {0} /\ P \in Nat \ {0} /\ MANAGEMENT_TOKEN_BASE \in Int
      /\ e \in Nat /\ e < N /\ s \in Nat /\ s < P
  BY TokensAssumption DEF EndpointIndexes, Slots, MANAGEMENT_TOKEN_BASE
<1>2. pair \in Nat /\ encoded \in Nat /\ token \in Nat
  <2>1. id * N \in Nat
    BY <1>1
  <2>2. pair \in Nat
    BY <2>1, <1>1
  <2>3. pair * P \in Nat
    BY <2>2, <1>1
  <2> QED
    BY <2>2, <2>3, <1>1
<1>3. connection_token(e, s, id) = token /\ token < MANAGEMENT_TOKEN_BASE
  BY <1>1, <1>2 DEF connection_token, NoToken
<1>4. encoded \div P = pair /\ encoded % P = s
  BY <1>1, <1>2, Digits
<1>5. pair \div N = id /\ pair % N = e
  BY <1>1, <1>2, Digits
<1>6. token - N = encoded
  BY <1>1, <1>2
<1>7. ConnectionTarget(token) = Connection(e, s, id)
  BY <1>4, <1>5, <1>6 DEF ConnectionTarget
<1>8. token # MANAGEMENT_LISTENER_TOKEN /\ ~(token > MANAGEMENT_TOKEN_BASE) /\ ~(token < N)
  BY <1>1, <1>2, <1>3 DEF MANAGEMENT_LISTENER_TOKEN
<1> QED
  BY <1>3, <1>7, <1>8 DEF event_target

(* The same of management connections above MANAGEMENT_TOKEN_BASE.         *)
LEMMA ManagementRoundTrip ==
  ASSUME NEW s \in ManagementSlots, NEW id \in Nat \ {0},
         management_connection_token(s, id) # NoToken
  PROVE  event_target(management_connection_token(s, id)) = ManagementConnection(s, id)
<1> DEFINE L == MANAGEMENT_CONNECTION_LIMIT
           encoded == (id - 1) * L + s
           token == MANAGEMENT_TOKEN_BASE + (encoded + 1)
<1>1. L \in Nat \ {0} /\ MANAGEMENT_TOKEN_BASE \in Int /\ s \in Nat /\ s < L /\ id - 1 \in Nat
  BY TokensAssumption DEF ManagementSlots, MANAGEMENT_TOKEN_BASE
<1>2. encoded \in Nat
  <2>1. (id - 1) * L \in Nat
    BY <1>1
  <2> QED
    BY <2>1, <1>1
<1>3. management_connection_token(s, id) = token
  BY <1>1, <1>2 DEF management_connection_token, NoToken
<1>4. encoded \div L = id - 1 /\ encoded % L = s
  BY <1>1, <1>2, Digits
<1>5. token - (MANAGEMENT_TOKEN_BASE + 1) = encoded
  BY <1>1, <1>2
<1>6. ManagementTarget(token) = ManagementConnection(s, id)
  <2>1. (encoded \div L) + 1 = id
    BY <1>4, <1>1
  <2> QED
    BY <1>4, <1>5, <2>1 DEF ManagementTarget
<1>7. token # MANAGEMENT_LISTENER_TOKEN /\ token > MANAGEMENT_TOKEN_BASE
  BY <1>1, <1>2 DEF MANAGEMENT_LISTENER_TOKEN
<1> QED
  BY <1>3, <1>6, <1>7 DEF event_target

(* The sources a token was issued for.                                     *)
Sources ==
  Listeners
    \cup {Connection(e, s, id) : e \in EndpointIndexes, s \in Slots, id \in Nat \ {0}}
    \cup {ManagementConnection(s, id) : s \in ManagementSlots, id \in Nat \ {0}}
Named == {source \in Sources : TokenOf(source) # NoToken}

(* The inductive invariant: only named sources are registered, and every   *)
(* copied event carries its source's token.                                *)
TokenInv ==
  /\ next_connection_id \in Nat \ {0}
  /\ next_management_connection_id \in Nat \ {0}
  /\ registered \subseteq Named
  /\ \A event \in events : event.source \in Named /\ event.token = TokenOf(event.source)
  /\ EventsReachTheirSource

(* Listeners have tokens too, below and at the base.                       *)
LEMMA ListenersAreNamed ==
  ASSUME NEW source \in Listeners
  PROVE  source \in Named /\ event_target(TokenOf(source)) = source
<1>1. CASE source = ManagementListener
  BY <1>1, TokensAssumption
  DEF ManagementListener, TokenOf, event_target, MANAGEMENT_LISTENER_TOKEN,
      MANAGEMENT_TOKEN_BASE, NoToken, Named, Sources, Listeners
<1>2. ASSUME NEW e \in EndpointIndexes, source = Listener(e)
      PROVE  source \in Named /\ event_target(TokenOf(source)) = source
  <2>1. TokenOf(source) = e
    BY <1>2 DEF TokenOf, Listener, listener_token
  <2>2. e \in Nat /\ e < EndpointCount /\ MANAGEMENT_TOKEN_BASE \in Int /\ e < MANAGEMENT_TOKEN_BASE
    BY TokensAssumption DEF EndpointIndexes, MANAGEMENT_TOKEN_BASE
  <2>3. event_target(e) = source
    BY <1>2, <2>2 DEF event_target, MANAGEMENT_LISTENER_TOKEN
  <2> QED
    BY <2>1, <2>2, <2>3 DEF Named, Sources, NoToken
<1> QED
  BY <1>1, <1>2 DEF Listeners

(* Whatever has a token is what event_target makes of it.                  *)
LEMMA RoundTrip ==
  ASSUME NEW source \in Named
  PROVE  event_target(TokenOf(source)) = source
<1>1. CASE source \in Listeners
  BY <1>1, ListenersAreNamed
<1>2. ASSUME NEW e \in EndpointIndexes, NEW s \in Slots, NEW id \in Nat \ {0},
             source = Connection(e, s, id)
      PROVE  event_target(TokenOf(source)) = source
  <2>1. TokenOf(source) = connection_token(e, s, id)
    BY <1>2 DEF TokenOf, Connection
  <2> QED
    BY <1>2, <2>1, ConnectionRoundTrip DEF Named
<1>3. ASSUME NEW s \in ManagementSlots, NEW id \in Nat \ {0},
             source = ManagementConnection(s, id)
      PROVE  event_target(TokenOf(source)) = source
  <2>1. TokenOf(source) = management_connection_token(s, id)
    BY <1>3 DEF TokenOf, ManagementConnection
  <2> QED
    BY <1>3, <2>1, ManagementRoundTrip DEF Named
<1> QED
  BY <1>1, <1>2, <1>3 DEF Named, Sources

(* Nothing is registered or waiting at the start.                          *)
LEMMA StartsNamed == Init => TokenInv
  BY DEF Init, TokenInv, EventsReachTheirSource

(* Every accept, close, poll and dispatch keeps the invariant.             *)
LEMMA StepsStayNamed == TokenInv /\ [Next]_vars => TokenInv'
<1> SUFFICES ASSUME TokenInv, [Next]_vars
             PROVE  TokenInv'
  OBVIOUS
<1> USE DEF TokenInv, EventsReachTheirSource
<1>1. ASSUME NEW e \in EndpointIndexes, NEW s \in Slots, accept_connections(e, s)
      PROVE  TokenInv'
  <2>1. Connection(e, s, next_connection_id) \in Sources
    BY DEF Sources
  <2>2. TokenOf(Connection(e, s, next_connection_id)) = connection_token(e, s, next_connection_id)
    BY DEF TokenOf, Connection
  <2>3. registered' \subseteq Named
    BY <1>1, <2>1, <2>2 DEF accept_connections, Named
  <2> QED
    BY <1>1, <2>3 DEF accept_connections
<1>2. ASSUME NEW s \in ManagementSlots, accept_management_connections(s)
      PROVE  TokenInv'
  <2>1. ManagementConnection(s, next_management_connection_id) \in Sources
    BY DEF Sources
  <2>2. TokenOf(ManagementConnection(s, next_management_connection_id))
          = management_connection_token(s, next_management_connection_id)
    BY DEF TokenOf, ManagementConnection
  <2>3. registered' \subseteq Named
    BY <1>2, <2>1, <2>2 DEF accept_management_connections, Named
  <2> QED
    BY <1>2, <2>3 DEF accept_management_connections
<1>3. ASSUME NEW c \in registered, close(c)
      PROVE  TokenInv'
  BY <1>3 DEF close
<1>4. ASSUME NEW source \in Listeners \cup registered, poll(source)
      PROVE  TokenInv'
  <2>1. source \in Named
    BY ListenersAreNamed
  <2> QED
    BY <1>4, <2>1 DEF poll
<1>5. ASSUME NEW event \in events, dispatch_event(event)
      PROVE  TokenInv'
  <2>1. event_target(event.token) = event.source
    BY RoundTrip
  <2>2. ActsOn(event_target(event.token)) \in {event.source, NoTarget}
    BY <2>1 DEF ActsOn
  <2>3. dispatched' = [event |-> event.source, acted_on |-> ActsOn(event_target(event.token))]
    BY <1>5 DEF dispatch_event
  <2>4. dispatched'.acted_on \in {dispatched'.event, NoTarget}
    BY <2>2, <2>3
  <2> QED
    BY <1>5, <2>4 DEF dispatch_event
<1>6. CASE UNCHANGED vars
  BY <1>6 DEF vars
<1> QED
  BY <1>1, <1>2, <1>3, <1>4, <1>5, <1>6 DEF Next

(* The token codec is sound: for every fleet size and word size, each      *)
(* source has a token that only event_target's answer for it matches.      *)
THEOREM TokensAreSound == Spec => []TokensNameTheirSource
<1>1. TokenInv => TokensNameTheirSource
  BY ListenersAreNamed, RoundTrip DEF TokenInv, TokensNameTheirSource, Named
<1> QED
  BY <1>1, StartsNamed, StepsStayNamed, PTL DEF Spec

(* Late events are harmless: dispatch acts on the source of the event or   *)
(* on nobody, for every fleet size and word size.                          *)
THEOREM EventsAreSound == Spec => []EventsReachTheirSource
<1>1. TokenInv => EventsReachTheirSource
  BY DEF TokenInv
<1> QED
  BY <1>1, StartsNamed, StepsStayNamed, PTL DEF Spec

-----------------------------------------------------------------------------
(* The profile compiler.                                                   *)

(* The limits are natural numbers; nothing below depends on their value.   *)
LEMMA Limits == U16_MAX \in Nat /\ U16_MAX > 1 /\ PHUNIT_MAX \in Nat
BY SMT DEF U16_MAX, PHUNIT_MAX

(* Larger factors, larger products; with TimesMonotone the only nonlinear  *)
(* facts the proofs about the fixed-point conversions use.                 *)
LEMMA Product ==
  ASSUME NEW a \in Int, NEW b \in Int, NEW d \in Nat, a <= b
  PROVE  a * d \in Int /\ b * d \in Int /\ a * d <= b * d
<1>1. (b - a) * d >= 0 /\ (b - a) * d = b * d - a * d
  OBVIOUS
<1> QED
  BY <1>1

LEMMA Halves ==
  ASSUME NEW m \in Nat, NEW d \in Nat \ {0}
  PROVE  /\ (2 * m + d) \div (2 * d) \in Nat
         /\ ((2 * m + d) \div (2 * d)) * d - m \in Int
         /\ 2 * (((2 * m + d) \div (2 * d)) * d - m) <= d
         /\ 2 * (((2 * m + d) \div (2 * d)) * d - m) > -d
<1> DEFINE x == 2 * m + d
           n == 2 * d
           q == x \div n
<1>1. x \in Nat /\ n \in Nat \ {0}
  OBVIOUS
<1>2. q \in Int /\ x % n \in 0..(n - 1) /\ x = n * q + (x % n)
  BY <1>1
<1>3. q >= 0
  <2>1. SUFFICES ASSUME q <= -1 PROVE FALSE
    BY <1>2
  <2>2. q * n <= (-1) * n
    BY <2>1, <1>1, <1>2, Product
  <2> HIDE DEF x, n, q
  <2> QED
    BY <1>1, <1>2, <2>2
<1>4. q * d \in Int /\ n * q = 2 * (q * d)
  BY <1>2
<1>5. 2 * (q * d) <= x /\ x < 2 * (q * d) + 2 * d
  <2> HIDE DEF x, q
  <2> QED BY <1>1, <1>2, <1>4
<1> HIDE DEF q
<1>6. q \in Nat /\ 2 * (q * d - m) <= d /\ 2 * (q * d - m) > -d
  BY <1>2, <1>3, <1>4, <1>5
<1>7. q * d - m \in Int
  BY <1>4
<1> QED
  BY <1>6, <1>7 DEF q

(* f32::round of n / d is within half a step of it.                        *)
LEMMA RoundIsNear ==
  ASSUME NEW n \in Int, NEW d \in Nat \ {0}
  PROVE  /\ Round(n, d) \in Int
         /\ Round(n, d) * d \in Int
         /\ 2 * (Round(n, d) * d - n) <= d
         /\ 2 * (Round(n, d) * d - n) >= -d
         /\ n >= 0 => Round(n, d) >= 0
         /\ n >= 0 => 2 * (Round(n, d) * d - n) > -d
         /\ n < 0 => Round(n, d) <= 0
         /\ n < 0 => 2 * (Round(n, d) * d - n) < d
<1>1. CASE n >= 0
  <2> DEFINE q == (2 * n + d) \div (2 * d)
  <2>1. Round(n, d) = q
    BY <1>1 DEF Round
  <2>2. q \in Nat /\ q * d - n \in Int /\ 2 * (q * d - n) <= d /\ 2 * (q * d - n) > -d
    BY <1>1, Halves
  <2> HIDE DEF q
  <2> QED
    BY <1>1, <2>1, <2>2
<1>2. CASE n < 0
  <2> DEFINE m == -n
             q == (2 * m + d) \div (2 * d)
  <2>1. m \in Nat /\ d - 2 * n = 2 * m + d
    BY <1>2
  <2>2. Round(n, d) = -q
    BY <1>2, <2>1 DEF Round
  <2>3. q \in Nat /\ q * d - m \in Int /\ 2 * (q * d - m) <= d /\ 2 * (q * d - m) > -d
    BY <2>1, Halves
  <2> HIDE DEF q
  <2>4. (-q) * d = -(q * d) /\ q * d \in Int
    BY <2>3
  <2> QED
    BY <1>2, <2>2, <2>3, <2>4
<1> QED
  BY <1>1, <1>2

(* A larger value is never rounded to a smaller count.                     *)
LEMMA RoundIsMonotone ==
  ASSUME NEW n \in Int, NEW m \in Int, NEW d \in Nat \ {0}, n <= m
  PROVE  Round(n, d) <= Round(m, d)
<1> DEFINE r == Round(n, d)
           s == Round(m, d)
<1>1. /\ r \in Int /\ r * d \in Int
      /\ 2 * (r * d - n) <= d /\ 2 * (r * d - n) >= -d
      /\ n >= 0 => r >= 0 /\ 2 * (r * d - n) > -d
      /\ n < 0 => r <= 0 /\ 2 * (r * d - n) < d
  BY RoundIsNear
<1>2. /\ s \in Int /\ s * d \in Int
      /\ 2 * (s * d - m) <= d /\ 2 * (s * d - m) >= -d
      /\ m >= 0 => s >= 0 /\ 2 * (s * d - m) > -d
      /\ m < 0 => s <= 0 /\ 2 * (s * d - m) < d
  BY RoundIsNear
<1> HIDE DEF r, s
<1>3. SUFFICES ASSUME s + 1 <= r PROVE FALSE
  BY <1>1, <1>2 DEF r, s
<1>4. (s + 1) * d <= r * d /\ (s + 1) * d = s * d + d
  BY <1>1, <1>2, <1>3, Product
<1> QED
  BY <1>1, <1>2, <1>3, <1>4

(* The casts to u16 and i16 keep the order.                                *)
LEMMA SaturatedIsMonotone ==
  ASSUME NEW a \in Int, NEW b \in Int, NEW low \in Int, NEW high \in Int,
         low <= high, a <= b
  PROVE  /\ Saturated(a, low, high) \in low .. high
         /\ Saturated(b, low, high) \in low .. high
         /\ Saturated(a, low, high) <= Saturated(b, low, high)
BY DEF Saturated

(* A value within the range of the counts is rounded into the range.       *)
LEMMA RoundStaysInRange ==
  ASSUME NEW v \in Int, NEW d \in Nat \ {0}, NEW low \in Int, NEW high \in Int,
         low * d <= v, v <= high * d
  PROVE  low <= Round(v, d) /\ Round(v, d) <= high
<1> DEFINE r == Round(v, d)
<1>1. r \in Int /\ r * d \in Int /\ 2 * (r * d - v) <= d /\ 2 * (r * d - v) >= -d
  BY RoundIsNear
<1> HIDE DEF r
<1>2. low * d \in Int /\ high * d \in Int
  OBVIOUS
<1>3. ~ (r >= high + 1)
  <2>1. SUFFICES ASSUME high + 1 <= r PROVE FALSE
    BY <1>1
  <2>2. (high + 1) * d <= r * d /\ (high + 1) * d = high * d + d
    BY <1>1, <2>1, Product
  <2> QED
    BY <1>1, <1>2, <2>2
<1>4. ~ (r + 1 <= low)
  <2>1. SUFFICES ASSUME r + 1 <= low PROVE FALSE
    OBVIOUS
  <2>2. (r + 1) * d <= low * d /\ (r + 1) * d = r * d + d
    BY <1>1, <2>1, Product
  <2> QED
    BY <1>1, <1>2, <2>2
<1> QED
  BY <1>1, <1>3, <1>4 DEF r

(* fixed_magnitude: read back within half a step up to full scale, and full *)
(* scale beyond it.                                                        *)
LEMMA MagnitudeCount ==
  ASSUME NEW v \in Int, NEW d \in Nat \ {0}
  PROVE  /\ fixed_magnitude(v, d) \in 0 .. U16_MAX
         /\ 0 <= v /\ v <= U16_MAX * d =>
              2 * Magnitude(fixed_magnitude(v, d) * d - v) <= d
         /\ v > U16_MAX * d =>
              fixed_magnitude(v, d) = U16_MAX /\ fixed_magnitude(v, d) * d < v
<1> DEFINE r == Round(v, d)
           c == fixed_magnitude(v, d)
<1>1. r \in Int /\ r * d \in Int /\ 2 * (r * d - v) <= d /\ 2 * (r * d - v) >= -d
  BY RoundIsNear
<1>2. c = Saturated(r, 0, U16_MAX)
  BY DEF fixed_magnitude
<1>3. (0 <= v /\ v <= U16_MAX * d) => 0 <= r /\ r <= U16_MAX
  <2>1. 0 * d = 0 /\ U16_MAX \in Int
    BY Limits
  <2> QED
    BY <2>1, RoundStaysInRange
<1>4. (v > U16_MAX * d) => r >= U16_MAX
  <2>1. SUFFICES ASSUME v > U16_MAX * d, r + 1 <= U16_MAX PROVE FALSE
    BY <1>1, Limits
  <2> HIDE DEF r
  <2>2. (r + 1) * d <= U16_MAX * d /\ (r + 1) * d = r * d + d
    BY <1>1, <2>1, Product, Limits
  <2> QED
    BY <1>1, <2>1, <2>2, Limits
<1> HIDE DEF r, c
<1>5. c \in 0 .. U16_MAX
  BY <1>1, <1>2, Limits DEF Saturated
<1>6. 0 <= v /\ v <= U16_MAX * d => 2 * Magnitude(c * d - v) <= d
  <2>1. 0 <= v /\ v <= U16_MAX * d => c = r
    BY <1>1, <1>2, <1>3, Limits DEF Saturated
  <2> QED
    BY <1>1, <2>1 DEF Magnitude
<1>7. v > U16_MAX * d => c = U16_MAX /\ c * d < v
  BY <1>1, <1>2, <1>4, Limits DEF Saturated
<1> QED
  BY <1>5, <1>6, <1>7 DEF c

(* fixed_frequency and fixed_rocof, with the step d of their counts: read  *)
(* back within half a step within the limits of validate_fleet.            *)
LEMMA SignedCount ==
  ASSUME NEW v \in Int, NEW d \in Nat \ {0}
  PROVE  /\ Saturated(Round(v, d), -32768, 32767) \in Int
         /\ Magnitude(v) <= 32767 * d =>
              2 * Magnitude(Saturated(Round(v, d), -32768, 32767) * d - v) <= d
<1> DEFINE r == Round(v, d)
           c == Saturated(r, -32768, 32767)
<1>1. r \in Int /\ r * d \in Int /\ 2 * (r * d - v) <= d /\ 2 * (r * d - v) >= -d
  BY RoundIsNear
<1>2. ASSUME Magnitude(v) <= 32767 * d PROVE -32767 <= r /\ r <= 32767
  <2>1. (-32767) * d <= v /\ v <= 32767 * d /\ -32767 \in Int
    BY <1>2 DEF Magnitude
  <2> QED
    BY <2>1, RoundStaysInRange
<1> HIDE DEF r
<1>3. c \in Int /\ -32768 <= c /\ c <= 32767
  BY <1>1 DEF Saturated
<1>4. Magnitude(v) <= 32767 * d => 2 * Magnitude(c * d - v) <= d
  <2>1. SUFFICES ASSUME Magnitude(v) <= 32767 * d PROVE 2 * Magnitude(c * d - v) <= d
    OBVIOUS
  <2>2. c = r
    BY <1>1, <1>2, <2>1 DEF Saturated
  <2> QED
    BY <1>1, <2>2 DEF Magnitude
<1> QED
  BY <1>3, <1>4 DEF r

(* What validate_fleet leaves of a magnitude, its variation and its scale. *)
PhasorInRange(magnitude, variation, scale) ==
  /\ magnitude \in Int /\ variation \in Nat /\ scale \in Nat \ {0}
  /\ variation <= magnitude
  /\ magnitude + variation <= U16_MAX * scale

SignalInRange(recipe, limit) ==
  /\ recipe.nominal \in Int /\ recipe.variation \in Nat
  /\ Magnitude(recipe.nominal) + recipe.variation <= limit

LEMMA PhasorIsInRange ==
  ASSUME NEW magnitude \in F32, NEW variation \in F32, NEW scale \in F32,
         ValidPhasor(magnitude, variation, scale)
  PROVE  PhasorInRange(magnitude, variation, scale)
<1>1. magnitude \in Int /\ variation \in Int /\ scale \in Int
  BY DEF ValidPhasor, validate_positive_finite, validate_non_negative, validate_finite, F32
<1> QED
  BY <1>1 DEF ValidPhasor, validate_positive_finite, validate_non_negative,
    validate_fixed_magnitude_range, PhasorInRange

LEMMA SignalIsInRange ==
  ASSUME NEW recipe \in SignalRecipe, NEW limit \in Nat, ValidSignal(recipe, limit)
  PROVE  SignalInRange(recipe, limit)
<1>1. recipe.nominal \in Int /\ recipe.variation \in Int
  BY DEF ValidSignal, validate_non_negative, validate_finite, F32, SignalRecipe
<1> QED
  BY <1>1 DEF ValidSignal, validate_non_negative, SignalInRange

LEMMA AcceptedIsInRange ==
  ASSUME NEW p \in RawProfile, Accepted(p)
  PROVE  /\ PhasorInRange(p.voltage_magnitude, p.voltage_variation, p.voltage_scale)
         /\ PhasorInRange(p.current_magnitude, p.current_variation, p.current_scale)
         /\ SignalInRange(p.frequency_deviation_hz, 32767000)
         /\ SignalInRange(p.rocof_hz_per_s, 327670000)
         /\ p.protocol_version \in WireVersions
         /\ p.protocol_version = 2 =>
              /\ Phunit(p.voltage_scale) \in 1 .. PHUNIT_MAX
              /\ Phunit(p.current_scale) \in 1 .. PHUNIT_MAX
<1>1. /\ p.voltage_magnitude \in F32 /\ p.voltage_variation \in F32 /\ p.voltage_scale \in F32
      /\ p.current_magnitude \in F32 /\ p.current_variation \in F32 /\ p.current_scale \in F32
      /\ p.frequency_deviation_hz \in SignalRecipe /\ p.rocof_hz_per_s \in SignalRecipe
  BY DEF RawProfile
<1>2. validate_fleet(p)
  BY DEF Accepted
<1>3. /\ ValidPhasor(p.voltage_magnitude, p.voltage_variation, p.voltage_scale)
      /\ ValidPhasor(p.current_magnitude, p.current_variation, p.current_scale)
      /\ ValidSignal(p.frequency_deviation_hz, 32767000)
      /\ ValidSignal(p.rocof_hz_per_s, 327670000)
      /\ p.protocol_version \in WireVersions
  BY <1>2 DEF validate_fleet
<1>4. p.protocol_version = 2 =>
        /\ Phunit(p.voltage_scale) \in 1 .. PHUNIT_MAX
        /\ Phunit(p.current_scale) \in 1 .. PHUNIT_MAX
  BY DEF Accepted, v2_phunit
<1>5. 32767000 \in Nat /\ 327670000 \in Nat
  OBVIOUS
<1> QED
  BY <1>1, <1>3, <1>4, <1>5, PhasorIsInRange, SignalIsInRange

(* The masks of phunit_scale take the current flag off again.              *)
LEMMA PhunitIsMasked ==
  ASSUME NEW k \in 1 .. PHUNIT_MAX
  PROVE  k % (PHUNIT_MAX + 1) = k /\ ((PHUNIT_MAX + 1) + k) % (PHUNIT_MAX + 1) = k
<1>1. PHUNIT_MAX \in Nat
  BY Limits
<1> DEFINE n == PHUNIT_MAX + 1
<1>2. n \in Nat \ {0} /\ k \in Nat /\ k < n
  BY <1>1
<1> HIDE DEF n
<1>3. (0 * n + k) % n = k /\ (1 * n + k) % n = k
  BY <1>2, Digits
<1>4. 0 * n + k = k /\ 1 * n + k = n + k
  BY <1>2
<1> QED
  BY <1>3, <1>4 DEF n

(* The steps an accepted profile's descriptor announces: positive, and the *)
(* configured scale itself where nothing was rounded.                      *)
LEMMA StepsArePositive ==
  ASSUME NEW p \in RawProfile, Accepted(p), NEW k, NEW s \in Signals,
         NEW e, e = Descriptor(p, k)
  PROVE  Step(e, s) \in Nat \ {0}
<1>1. e.version = p.protocol_version /\ e.recipe = p /\ e.phunits = v2_phunits(p)
  BY DEF Descriptor
<1>2. p.protocol_version \in {2, 3}
  BY AcceptedIsInRange DEF WireVersions
<1>3. p.voltage_scale \in Nat \ {0} /\ p.current_scale \in Nat \ {0}
  BY AcceptedIsInRange DEF PhasorInRange
<1>4. p.protocol_version = 2 =>
        /\ 10 * (e.phunits[1] % (PHUNIT_MAX + 1)) \in Nat \ {0}
        /\ 10 * (e.phunits[4] % (PHUNIT_MAX + 1)) \in Nat \ {0}
  <2>1. e.phunits[1] = Phunit(p.voltage_scale) /\ e.phunits[4] = (PHUNIT_MAX + 1) + Phunit(p.current_scale)
    BY <1>1 DEF v2_phunits, PHASOR_COUNT
  <2>2. SUFFICES ASSUME p.protocol_version = 2
                 PROVE  /\ 10 * (e.phunits[1] % (PHUNIT_MAX + 1)) \in Nat \ {0}
                        /\ 10 * (e.phunits[4] % (PHUNIT_MAX + 1)) \in Nat \ {0}
    OBVIOUS
  <2>3. Phunit(p.voltage_scale) \in 1 .. PHUNIT_MAX /\ Phunit(p.current_scale) \in 1 .. PHUNIT_MAX
    BY <2>2, AcceptedIsInRange
  <2>4. /\ e.phunits[1] % (PHUNIT_MAX + 1) \in 1 .. PHUNIT_MAX
        /\ e.phunits[4] % (PHUNIT_MAX + 1) \in 1 .. PHUNIT_MAX
    BY <2>1, <2>3, PhunitIsMasked
  <2>5. PHUNIT_MAX \in Nat
    BY Limits
  <2>6. \A a \in 1 .. PHUNIT_MAX : 10 * a \in Nat \ {0}
    BY <2>5
  <2> QED
    BY <2>4, <2>6
<1>5. CASE s = "voltage"
  BY <1>1, <1>2, <1>3, <1>4, <1>5 DEF Step
<1>6. CASE s = "current"
  BY <1>1, <1>2, <1>3, <1>4, <1>6 DEF Step
<1>7. CASE s = "frequency"
  BY <1>7 DEF Step
<1>8. CASE s = "rocof"
  BY <1>8 DEF Step
<1> QED
  BY <1>5, <1>6, <1>7, <1>8 DEF Signals

(* A larger value never has a smaller count.                               *)
LEMMA CountIsMonotone ==
  ASSUME NEW e, NEW s \in Signals, Step(e, s) \in Nat \ {0},
         NEW v \in Int, NEW w \in Int, v <= w
  PROVE  /\ Count(e, s, v) \in Int /\ Count(e, s, w) \in Int
         /\ Count(e, s, v) <= Count(e, s, w)
<1> DEFINE d == Step(e, s)
<1>1. \A n \in Nat \ {0} : /\ Round(v, n) \in Int /\ Round(w, n) \in Int
                           /\ Round(v, n) <= Round(w, n)
  BY RoundIsNear, RoundIsMonotone
<1>2. CASE s \in {"voltage", "current"}
  <2>1. Count(e, s, v) = fixed_magnitude(v, d) /\ Count(e, s, w) = fixed_magnitude(w, d)
    BY <1>2 DEF Count
  <2> HIDE DEF d
  <2> QED
    <3>1. 0 \in Int /\ U16_MAX \in Int /\ 0 <= U16_MAX
      BY Limits
    <3>2. Round(v, d) \in Int /\ Round(w, d) \in Int /\ Round(v, d) <= Round(w, d)
      BY <1>1 DEF d
    <3> DEFINE x == Saturated(Round(v, d), 0, U16_MAX)
               y == Saturated(Round(w, d), 0, U16_MAX)
    <3>3. x \in 0 .. U16_MAX /\ y \in 0 .. U16_MAX /\ x <= y
      BY <3>1, <3>2, SaturatedIsMonotone
    <3>4. Count(e, s, v) = x /\ Count(e, s, w) = y
      BY <2>1 DEF fixed_magnitude
    <3> HIDE DEF x, y
    <3> QED
      BY <3>1, <3>3, <3>4
<1>3. CASE s = "frequency"
  <2>1. Count(e, s, v) = fixed_frequency(v) /\ Count(e, s, w) = fixed_frequency(w)
    BY <1>3 DEF Count
  <2> QED
    BY <1>1, <2>1 DEF fixed_frequency, Saturated
<1>4. CASE s = "rocof"
  <2>1. Count(e, s, v) = fixed_rocof(v) /\ Count(e, s, w) = fixed_rocof(w)
    BY <1>4 DEF Count
  <2> QED
    BY <1>1, <2>1 DEF fixed_rocof, Saturated
<1> QED
  BY <1>2, <1>3, <1>4 DEF Signals

(* An excursion adds to the value, and not to a current.                   *)
LEMMA ExcursionsAdd ==
  ASSUME NEW p \in RawProfile, Accepted(p), NEW k, NEW e, e = Descriptor(p, k),
         NEW s \in Signals, NEW w \in waveform, NEW x \in SignalExcursion
  PROVE  /\ Value(e, s, w, NoExcursion) \in Int
         /\ s = "current" => Value(e, s, w, x) = Value(e, s, w, NoExcursion)
         /\ s # "current" => Value(e, s, w, x) = Value(e, s, w, NoExcursion) + x[s] /\ x[s] \in Int
<1>1. e.recipe = p
  BY DEF Descriptor
<1>2. /\ p.voltage_magnitude \in Int /\ p.voltage_variation \in Int
      /\ p.current_magnitude \in Int /\ p.current_variation \in Int
      /\ p.frequency_deviation_hz.nominal \in Int /\ p.frequency_deviation_hz.variation \in Int
      /\ p.rocof_hz_per_s.nominal \in Int /\ p.rocof_hz_per_s.variation \in Int
  BY AcceptedIsInRange DEF PhasorInRange, SignalInRange
<1>3. w \in Int
  BY DEF waveform
<1>4. /\ p.voltage_variation * w \in Int /\ p.current_variation * w \in Int
      /\ p.frequency_deviation_hz.variation * w \in Int /\ p.rocof_hz_per_s.variation * w \in Int
  BY <1>2, <1>3
<1>5. x["voltage"] \in Int /\ x["frequency"] \in Int /\ x["rocof"] \in Int
  BY DEF SignalExcursion
<1>6. NoExcursion.voltage = 0 /\ NoExcursion.frequency = 0 /\ NoExcursion.rocof = 0
  BY DEF NoExcursion
<1>7. CASE s = "voltage"
  BY <1>1, <1>2, <1>4, <1>5, <1>6, <1>7 DEF Value
<1>8. CASE s = "current"
  BY <1>1, <1>2, <1>4, <1>5, <1>6, <1>8 DEF Value
<1>9. CASE s = "frequency"
  BY <1>1, <1>2, <1>4, <1>5, <1>6, <1>9 DEF Value
<1>10. CASE s = "rocof"
  BY <1>1, <1>2, <1>4, <1>5, <1>6, <1>10 DEF Value
<1> QED
  BY <1>7, <1>8, <1>9, <1>10 DEF Signals

(* The signals of an accepted profile lie in the ranges validate_fleet     *)
(* compares them with, wherever the waveform is.                           *)
LEMMA ValuesAreInRange ==
  ASSUME NEW p \in RawProfile, Accepted(p), NEW k, NEW e, e = Descriptor(p, k),
         NEW s \in Signals, NEW w \in waveform
  PROVE  /\ s \in {"voltage", "current"} =>
              /\ Scale(e, s) \in Nat \ {0}
              /\ 0 <= Value(e, s, w, NoExcursion)
              /\ Value(e, s, w, NoExcursion) <= U16_MAX * Scale(e, s)
         /\ s = "frequency" => Magnitude(Value(e, s, w, NoExcursion)) <= 32767000
         /\ s = "rocof" => Magnitude(Value(e, s, w, NoExcursion)) <= 327670000
<1>1. e.recipe = p
  BY DEF Descriptor
<1>2. /\ PhasorInRange(p.voltage_magnitude, p.voltage_variation, p.voltage_scale)
      /\ PhasorInRange(p.current_magnitude, p.current_variation, p.current_scale)
      /\ SignalInRange(p.frequency_deviation_hz, 32767000)
      /\ SignalInRange(p.rocof_hz_per_s, 327670000)
  BY AcceptedIsInRange
<1>3. w \in {-1, 0, 1}
  BY DEF waveform
<1>4. \A m \in Int, d \in Nat : m + d * w + 0 \in {m - d, m, m + d}
  BY <1>3
<1>5. CASE s = "voltage"
  <2> DEFINE m == p.voltage_magnitude
             d == p.voltage_variation
             v == Value(e, s, w, NoExcursion)
  <2>1. v = m + d * w + 0 /\ Scale(e, s) = p.voltage_scale
    BY <1>1, <1>5 DEF Value, NoExcursion, Scale
  <2>2. /\ m \in Int /\ d \in Nat /\ d <= m
        /\ p.voltage_scale \in Nat \ {0} /\ m + d <= U16_MAX * p.voltage_scale
    BY <1>2 DEF PhasorInRange
  <2> HIDE DEF m, d, v
  <2>3. v \in {m - d, m, m + d}
    BY <1>4, <2>1, <2>2
  <2>4. 0 <= v /\ v <= U16_MAX * p.voltage_scale
    BY <2>2, <2>3, Limits
  <2> QED
    BY <1>5, <2>1, <2>2, <2>4 DEF v
<1>6. CASE s = "current"
  <2>1. Value(e, s, w, NoExcursion) = p.current_magnitude + p.current_variation * w
        /\ Scale(e, s) = p.current_scale
    BY <1>1, <1>6 DEF Value, Scale
  <2>2. Value(e, s, w, NoExcursion) = p.current_magnitude + p.current_variation * w + 0
    BY <1>2, <1>3, <2>1 DEF PhasorInRange
  <2> QED
    BY <1>2, <1>4, <1>6, <2>1, <2>2, Limits DEF PhasorInRange
<1>7. CASE s = "frequency"
  <2>1. Value(e, s, w, NoExcursion)
          = p.frequency_deviation_hz.nominal + p.frequency_deviation_hz.variation * w + 0
    BY <1>1, <1>7 DEF Value, NoExcursion
  <2> QED
    BY <1>2, <1>4, <1>7, <2>1 DEF SignalInRange, Magnitude
<1>8. CASE s = "rocof"
  <2>1. Value(e, s, w, NoExcursion) = p.rocof_hz_per_s.nominal + p.rocof_hz_per_s.variation * w + 0
    BY <1>1, <1>8 DEF Value, NoExcursion
  <2> QED
    BY <1>2, <1>4, <1>8, <2>1 DEF SignalInRange, Magnitude
<1> QED
  BY <1>5, <1>6, <1>7, <1>8 DEF Signals

(* Without an excursion, a sample reads back, or is full scale of a PHUNIT *)
(* that was rounded down.                                                  *)
LEMMA PlainSampleFits ==
  ASSUME NEW p \in RawProfile, Accepted(p), NEW k, NEW e, e = Descriptor(p, k),
         NEW s \in Signals, NEW w \in waveform, NEW v, v = Value(e, s, w, NoExcursion),
         NEW c, c = Count(e, s, v), NEW d, d = Step(e, s)
  PROVE  \/ 2 * Magnitude(c * d - v) <= d
         \/ d < Scale(e, s) /\ c = U16_MAX /\ c * d < v
<1>1. v \in Int /\ d \in Nat \ {0}
  BY ExcursionsAdd, StepsArePositive DEF NoExcursion, SignalExcursion
<1>2. CASE s \in {"voltage", "current"}
  <2>1. Scale(e, s) \in Nat \ {0} /\ 0 <= v /\ v <= U16_MAX * Scale(e, s)
    BY <1>2, ValuesAreInRange
  <2>2. c = fixed_magnitude(v, d)
    BY <1>2 DEF Count
  <2>3. CASE v <= U16_MAX * d
    BY <1>1, <2>1, <2>2, <2>3, MagnitudeCount
  <2>4. CASE v > U16_MAX * d
    <3>1. d < Scale(e, s)
      BY <1>1, <2>1, <2>4, Limits
    <3> QED
      BY <1>1, <2>2, <2>4, <3>1, MagnitudeCount
  <2> QED
    BY <1>1, <2>3, <2>4, Limits
<1>3. CASE s = "frequency"
  <2>1. d = 1000 /\ c = Saturated(Round(v, d), -32768, 32767)
    BY <1>3 DEF Step, Count, fixed_frequency
  <2>2. Magnitude(v) <= 32767 * d
    BY <1>3, <2>1, ValuesAreInRange
  <2> QED
    BY <1>1, <2>1, <2>2, SignedCount
<1>4. CASE s = "rocof"
  <2>1. d = 10000 /\ c = Saturated(Round(v, d), -32768, 32767)
    BY <1>4 DEF Step, Count, fixed_rocof
  <2>2. Magnitude(v) <= 32767 * d
    BY <1>4, <2>1, ValuesAreInRange
  <2> QED
    BY <1>1, <2>1, <2>2, SignedCount
<1> QED
  BY <1>2, <1>3, <1>4 DEF Signals

(* A positive excursion never lowers the count, a negative one never raises *)
(* it.                                                                     *)
LEMMA ExcursionsShow ==
  ASSUME NEW p \in RawProfile, Accepted(p), NEW k, NEW e, e = Descriptor(p, k),
         NEW s \in Signals \ {"current"}, NEW w \in waveform, NEW x \in SignalExcursion
  PROVE  /\ x[s] >= 0 => Count(e, s, Value(e, s, w, x)) >= Count(e, s, Value(e, s, w, NoExcursion))
         /\ x[s] <= 0 => Count(e, s, Value(e, s, w, x)) <= Count(e, s, Value(e, s, w, NoExcursion))
<1> DEFINE v == Value(e, s, w, x)
           n == Value(e, s, w, NoExcursion)
<1>1. n \in Int /\ v = n + x[s] /\ x[s] \in Int
  BY ExcursionsAdd
<1>2. Step(e, s) \in Nat \ {0}
  BY StepsArePositive
<1>3. \A a, b \in Int : Count(e, s, a) >= Count(e, s, b) \/ a < b
  <2>1. SUFFICES ASSUME NEW a \in Int, NEW b \in Int, b <= a
                 PROVE  Count(e, s, a) >= Count(e, s, b)
    OBVIOUS
  <2>2. Count(e, s, b) <= Count(e, s, a) /\ Count(e, s, a) \in Int /\ Count(e, s, b) \in Int
    BY <1>2, <2>1, CountIsMonotone
  <2> QED
    BY <2>2
<1> HIDE DEF v, n
<1> QED
  BY <1>1, <1>3 DEF v, n

-----------------------------------------------------------------------------
(* The invariant: the descriptors are those of the profile that was accepted,*)
(* and a reading is a sample of one of them.                               *)
CompiledFleet == [n \in 1 .. profile.count |-> Descriptor(profile, n - 1)]

Readings ==
  {Sample(endpoints[i], s, w, x) :
     i \in 1 .. profile.count, s \in Signals, w \in waveform,
     x \in Excursions \cup {NoExcursion}}

CompilerInv ==
  /\ profile \in RawProfile
  /\ outcome = "compiled" => Accepted(profile) /\ endpoints = CompiledFleet
  /\ reading = NoReading \/ (outcome = "compiled" /\ reading \in Readings)

LEMMA CompilerStarts == CompilerInit => CompilerInv
  BY ProfilesAssumption DEF CompilerInit, CompilerInv

LEMMA CompilerContinues == CompilerInv /\ [CompilerNext]_compilerVars => CompilerInv'
<1>1. SUFFICES ASSUME CompilerInv, [CompilerNext]_compilerVars PROVE CompilerInv'
  OBVIOUS
<1>2. CASE UNCHANGED compilerVars
  BY <1>1, <1>2 DEF compilerVars, CompilerInv, CompiledFleet, Readings
<1>3. CASE compile_profile
  <2>1. profile' = profile /\ reading' = reading /\ reading = NoReading
    BY <1>1, <1>3 DEF compile_profile, CompilerInv
  <2>2. outcome' = "compiled" => Accepted(profile)' /\ endpoints' = CompiledFleet'
    BY <1>3, <2>1 DEF compile_profile, CompiledFleet
  <2> QED
    BY <1>1, <2>1, <2>2 DEF CompilerInv
<1>4. CASE encode_periodic_data
  <2>1. /\ profile' = profile /\ endpoints' = endpoints /\ outcome' = outcome
        /\ outcome = "compiled" /\ Accepted(profile) /\ endpoints = CompiledFleet
        /\ profile \in RawProfile
    BY <1>1, <1>4 DEF encode_periodic_data, CompilerInv
  <2>2. profile.count \in Nat \ {0}
    BY <2>1 DEF Accepted, validate_fleet, validate_limits, RawProfile
  <2>3. Len(endpoints) = profile.count
    BY <2>1, <2>2 DEF CompiledFleet
  <2>4. reading' \in Readings
    <3>1. PICK i \in {1, Len(endpoints)}, s \in Signals, w \in waveform,
               x \in Excursions \cup {NoExcursion} : reading' = Sample(endpoints[i], s, w, x)
      BY <1>4 DEF encode_periodic_data
    <3>2. i \in 1 .. profile.count
      BY <3>1, <2>2, <2>3
    <3> QED
      BY <3>1, <3>2 DEF Readings
  <2>5. Readings' = Readings /\ CompiledFleet' = CompiledFleet /\ Accepted(profile)'
    BY <2>1 DEF Readings, CompiledFleet
  <2> QED
    BY <2>1, <2>4, <2>5 DEF CompilerInv
<1> QED
  BY <1>1, <1>2, <1>3, <1>4 DEF CompilerNext

LEMMA CompilerInvHolds == CompilerSpec => []CompilerInv
  BY CompilerStarts, CompilerContinues, PTL DEF CompilerSpec

(* Every signal of every accepted profile is read back within half a step, *)
(* a V2 PHUNIT rounded down apart, and no excursion shows the wrong way.   *)
THEOREM AcceptedSignalsAreReadBack == CompilerSpec => []SamplesFitTheWire
<1>1. CompilerInv => SamplesFitTheWire
  <2>1. SUFFICES ASSUME CompilerInv, reading # NoReading PROVE SamplesFitTheWire
    BY DEF SamplesFitTheWire
  <2>2. /\ profile \in RawProfile /\ Accepted(profile) /\ endpoints = CompiledFleet
        /\ reading \in Readings
    BY <2>1 DEF CompilerInv
  <2>3. PICK i \in 1 .. profile.count, s \in Signals, w \in waveform,
             x \in Excursions \cup {NoExcursion} : reading = Sample(endpoints[i], s, w, x)
    BY <2>2 DEF Readings
  <2>4. x \in SignalExcursion
    BY ExcursionsAssumption DEF NoExcursion, SignalExcursion
  <2> DEFINE e == endpoints[i]
             v == Value(e, s, w, x)
             n == Value(e, s, w, NoExcursion)
  <2>5. e = Descriptor(profile, i - 1)
    BY <2>2 DEF CompiledFleet
  <2>6. /\ reading.signal = s /\ reading.value = v /\ reading.count = Count(e, s, v)
        /\ reading.step = Step(e, s) /\ reading.scale = Scale(e, s)
        /\ reading.excursion = x /\ reading.plain = Count(e, s, n)
    BY <2>3 DEF Sample
  <2>7. ASSUME x = NoExcursion
        PROVE  \/ 2 * Magnitude(Count(e, s, v) * Step(e, s) - v) <= Step(e, s)
               \/ /\ Step(e, s) < Scale(e, s) /\ Count(e, s, v) = U16_MAX
                  /\ Count(e, s, v) * Step(e, s) < v
    <3> HIDE DEF e
    <3> QED
      BY <2>2, <2>5, <2>7, PlainSampleFits
  <2>8. ASSUME s \in {"voltage", "frequency", "rocof"}
        PROVE  /\ x[s] >= 0 => Count(e, s, v) >= Count(e, s, n)
               /\ x[s] <= 0 => Count(e, s, v) <= Count(e, s, n)
    <3> HIDE DEF e
    <3> QED
      BY <2>2, <2>4, <2>5, <2>8, ExcursionsShow
  <2> HIDE DEF e, v, n
  <2> QED
    BY <2>6, <2>7, <2>8 DEF SamplesFitTheWire, ReadsBack
<1> QED
  BY <1>1, CompilerInvHolds, PTL

(* What validate_fleet and compile_profile check of the identifiers.       *)
LEMMA IdentifiersAreInRange ==
  ASSUME NEW p \in RawProfile, Accepted(p)
  PROVE  /\ p.count \in Nat \ {0}
         /\ p.first_listen_port \in Nat \ {0}
         /\ p.first_listen_port + p.count - 1 <= U16_MAX
         /\ p.first_stream_id \in Nat \ {0}
         /\ p.first_stream_id + p.count - 1 <= U16_MAX - 1
         /\ p.first_pmu_id \in Nat \ {0}
         /\ p.first_pmu_id + p.count - 1 <= U16_MAX - 1
<1>1. p.count \in Nat /\ p.first_listen_port \in U16 /\ p.first_stream_id \in U16 /\ p.first_pmu_id \in U16
  BY DEF RawProfile
<1>2. /\ final_identifier(p.first_stream_id, p.count - 1)
      /\ final_identifier(p.first_pmu_id, p.count - 1)
      /\ p.count >= 1
  BY <1>1 DEF Accepted, validate_fleet, validate_limits, MAX_LOGICAL_PMUS
<1>3. p.first_listen_port # 0 /\ p.first_listen_port + p.count - 1 <= U16_MAX
  BY DEF Accepted
<1> QED
  BY <1>1, <1>2, <1>3, Limits DEF final_identifier, U16

(* For every profile the compiler accepts, whatever its first port and ids *)
(* and its number of PMUs, no two endpoints share an address or identity.  *)
THEOREM FleetsAreDistinct == CompilerSpec => []FleetIsDistinct
<1>1. CompilerInv => FleetIsDistinct
  <2>1. SUFFICES ASSUME CompilerInv, outcome = "compiled" PROVE FleetIsDistinct
    BY DEF FleetIsDistinct
  <2>2. profile \in RawProfile /\ Accepted(profile) /\ endpoints = CompiledFleet
    BY <2>1 DEF CompilerInv
  <2> DEFINE p == profile
             ids == p.v2_good_stat_pmu_ids
  <2>3. /\ p.count \in Nat \ {0}
        /\ p.first_listen_port \in Nat \ {0} /\ p.first_listen_port + p.count - 1 <= U16_MAX
        /\ p.first_stream_id \in Nat \ {0} /\ p.first_stream_id + p.count - 1 <= U16_MAX - 1
        /\ p.first_pmu_id \in Nat \ {0} /\ p.first_pmu_id + p.count - 1 <= U16_MAX - 1
    BY <2>2, IdentifiersAreInRange
  <2>4. /\ DOMAIN endpoints = 1 .. p.count
        /\ \A i \in DOMAIN endpoints :
             /\ endpoints[i].port = p.first_listen_port + (i - 1)
             /\ endpoints[i].stream_id = p.first_stream_id + (i - 1)
             /\ endpoints[i].pmu_id = p.first_pmu_id + (i - 1)
             /\ endpoints[i].good_stat = Contains(ids, p.first_pmu_id + (i - 1))
    BY <2>2 DEF CompiledFleet, Descriptor
  <2>5. /\ DOMAIN ids = 1 .. Len(ids)
        /\ \A j \in DOMAIN ids : ids[j] \in p.first_pmu_id .. (p.first_pmu_id + p.count - 1)
    BY <2>2 DEF Accepted, validate_fleet, validate_v2_good_stat_pmu_ids, RawProfile
  <2> HIDE DEF p, ids
  <2>6. \A i \in DOMAIN endpoints :
          /\ endpoints[i].port \in 1 .. U16_MAX
          /\ endpoints[i].stream_id \in 1 .. U16_MAX - 1
          /\ endpoints[i].pmu_id \in 1 .. U16_MAX - 1
    <3>1. ASSUME NEW first \in Nat \ {0}, NEW last \in Nat, first + p.count - 1 <= last,
                 NEW i \in 1 .. p.count
          PROVE  first + (i - 1) \in 1 .. last
      BY <2>3, <3>1
    <3>2. TAKE i \in DOMAIN endpoints
    <3>3. U16_MAX \in Nat /\ U16_MAX - 1 \in Nat /\ i \in 1 .. p.count
      BY <2>4, Limits
    <3>4. p.first_listen_port + (i - 1) \in 1 .. U16_MAX
      BY <2>3, <3>1, <3>3
    <3>5. p.first_stream_id + (i - 1) \in 1 .. U16_MAX - 1
      BY <2>3, <3>1, <3>3
    <3>6. p.first_pmu_id + (i - 1) \in 1 .. U16_MAX - 1
      BY <2>3, <3>1, <3>3
    <3> QED
      BY <2>4, <3>4, <3>5, <3>6
  <2>7. \A i, j \in DOMAIN endpoints :
          \/ endpoints[i].port = endpoints[j].port
          \/ endpoints[i].stream_id = endpoints[j].stream_id
          \/ endpoints[i].pmu_id = endpoints[j].pmu_id
          => i = j
    <3>1. ASSUME NEW first \in Nat \ {0}, NEW i \in 1 .. p.count, NEW j \in 1 .. p.count,
                 first + (i - 1) = first + (j - 1)
          PROVE  i = j
      BY <2>3, <3>1
    <3>2. ASSUME NEW i \in DOMAIN endpoints, NEW j \in DOMAIN endpoints
          PROVE  /\ i \in 1 .. p.count /\ j \in 1 .. p.count
                 /\ endpoints[i].port = p.first_listen_port + (i - 1)
                 /\ endpoints[j].port = p.first_listen_port + (j - 1)
                 /\ endpoints[i].stream_id = p.first_stream_id + (i - 1)
                 /\ endpoints[j].stream_id = p.first_stream_id + (j - 1)
                 /\ endpoints[i].pmu_id = p.first_pmu_id + (i - 1)
                 /\ endpoints[j].pmu_id = p.first_pmu_id + (j - 1)
      BY <2>4
    <3>3. TAKE i, j \in DOMAIN endpoints
    <3>4. CASE endpoints[i].port = endpoints[j].port
      BY <2>3, <3>1, <3>2, <3>4
    <3>5. CASE endpoints[i].stream_id = endpoints[j].stream_id
      BY <2>3, <3>1, <3>2, <3>5
    <3>6. CASE endpoints[i].pmu_id = endpoints[j].pmu_id
      BY <2>3, <3>1, <3>2, <3>6
    <3> QED
      BY <3>4, <3>5, <3>6
  <2> DEFINE good == {k \in DOMAIN endpoints : endpoints[k].good_stat}
  <2>8. {endpoints[i].pmu_id : i \in good} = ToSet(ids)
    <3>1. ASSUME NEW i \in good PROVE endpoints[i].pmu_id \in ToSet(ids)
      <4>1. Contains(ids, endpoints[i].pmu_id)
        BY <2>4, <3>1
      <4> QED
        BY <4>1, <2>5 DEF Contains, ToSet
    <3>2. ASSUME NEW id \in ToSet(ids) PROVE \E i \in good : endpoints[i].pmu_id = id
      <4>1. PICK j \in DOMAIN ids : id = ids[j]
        BY <3>2 DEF ToSet
      <4> DEFINE i == id - p.first_pmu_id + 1
      <4>2. id \in p.first_pmu_id .. (p.first_pmu_id + p.count - 1)
        BY <4>1, <2>5
      <4>3. i \in 1 .. p.count /\ p.first_pmu_id + (i - 1) = id
        BY <4>2, <2>3
      <4>4. Contains(ids, id)
        BY <4>1, <2>5 DEF Contains
      <4> HIDE DEF i
      <4> QED
        BY <2>4, <4>3, <4>4
    <3> QED
      BY <3>1, <3>2
  <2> QED
    BY <2>6, <2>7, <2>8 DEF FleetIsDistinct, p, ids
<1> QED
  BY <1>1, CompilerInvHolds, PTL

-----------------------------------------------------------------------------
(* The probe: its verdict on a fleet of endpoints.  The inductive invariant *)
(* says, for every connection, where client and endpoint are in the script, *)
(* that a fault keeps the client from streaming, which samples are on the  *)
(* way and which are counted, and that a sound fleet is never late.        *)

(* What endpoints can do wrong, and the frames they can send.              *)
FaultKinds == {"Refuse", "Silent", "Reject", "Disagree", "Damage", "Skip", "Close"}
Lies == {"Reject", "Disagree", "Damage"}

FrameKinds ==
  {"Capability", "StreamConfiguration", "Header", "Configuration1", "Configuration2",
   "PeriodicData", "Error", "Damaged"}

FrameSent == [kind : FrameKinds, value : Nat]

(* The types of a client, of its endpoint and of an event.                 *)
ClientType ==
  [state : {"Connecting", "Sending", "Awaiting", "Streaming"}, step : Nat, written : Nat,
   configuration : Nat, last_timestamp : Nat, data_frames : Nat, failed : BOOLEAN]

PeerType ==
  [connected : BOOLEAN, asked : Nat, answered : Nat, sending : Seq(FrameSent),
   closed : BOOLEAN, wrong : SUBSET FaultKinds, skipped : SUBSET Nat]

EventType == [endpoint : Endpoints, writable : BOOLEAN, readable : BOOLEAN]

ProbeTypeOK ==
  /\ client \in [Endpoints -> ClientType]
  /\ writable \in SUBSET Endpoints /\ readable \in SUBSET Endpoints
  /\ arrived \in [Endpoints -> Nat]
  /\ turn \in {"top", "events"} /\ batch \in SUBSET EventType
  /\ streaming_started \in Nat
  /\ verdict \in {"running", "timed out", "too few", "failed", "ok"}
  /\ peer \in [Endpoints -> PeerType]
  /\ now \in Nat \ {0} /\ lag \in Nat /\ lag <= MAX_LAG

(* Where the client and its endpoint are in the script.                    *)
InStep(c, p) ==
  /\ c.failed = FALSE
  /\ c.step \in 1..StartStep
  /\ c.state = "Connecting" =>
       c.step = 1 /\ c.written = 0 /\ p.asked = 0 /\ p.answered = 0 /\ p.sending = <<>>
  /\ c.state = "Sending" =>
       c.written < 2 /\ p.asked = c.step - 1 /\ p.answered = p.asked /\ p.sending = <<>>
  /\ c.state = "Awaiting" =>
       /\ c.step <= Len(Script) /\ c.written = 2 /\ p.asked = c.step
       /\ \/ p.answered = c.step - 1 /\ p.sending = <<>>
          \/ p.answered = c.step /\ Len(p.sending) = 1
  /\ c.state = "Streaming" =>
       c.step = StartStep /\ c.written = 2 /\ p.asked = StartStep /\ p.answered = Len(Script)
  /\ c.state # "Connecting" => p.connected = TRUE
  /\ c.state # "Streaming" => c.data_frames = 0 /\ c.last_timestamp = None
  /\ c.step = Len(Script) => c.configuration = 1

(* What a faulty endpoint did keeps its client from streaming.             *)
Caught(c, p) ==
  /\ "Refuse" \in p.wrong => c.state = "Connecting"
  /\ "Silent" \in p.wrong => c.state = "Awaiting" /\ p.answered < p.asked
  /\ p.wrong \cap Lies # {} =>
       c.state = "Awaiting" /\ p.answered = p.asked /\ ~IsExpected(c, p.sending[1])
  /\ c.state = "Awaiting" /\ p.answered = p.asked /\ p.wrong \cap Lies = {} =>
       p.sending[1] = Answer(c.step)
  /\ p.closed = TRUE => "Close" \in p.wrong

(* The time stamps a client has counted.                                   *)
Counted(c) == (c.last_timestamp - c.data_frames + 1)..c.last_timestamp

(* Samples on the way, and samples counted, at time t.                     *)
InOrder(c, p, t) ==
  /\ p.skipped \subseteq 1..t
  /\ p.skipped \cap Counted(c) = {}
  /\ c.last_timestamp <= t
  /\ c.data_frames = 0 <=> c.last_timestamp = None
  /\ c.state = "Streaming" =>
       \A i \in 1..Len(p.sending) :
         /\ p.sending[i].kind = "PeriodicData"
         /\ p.sending[i].value \in 1..t /\ p.sending[i].value \notin p.skipped
         /\ p.wrong = {} => p.sending[i].value = t - Len(p.sending) + i
  /\ c.last_timestamp # None /\ p.wrong = {} => c.last_timestamp = t - Len(p.sending)

(* An event that is due or in the batch being handled.                     *)
WritePending(e) == e \in writable \/ \E v \in batch : v.endpoint = e /\ v.writable = TRUE
ReadPending(e) == e \in readable \/ \E v \in batch : v.endpoint = e /\ v.readable = TRUE

(* What is owed to a client: the halves that arrived belong to frames on   *)
(* the way, no more frames wait than lateness allows, and a whole frame or *)
(* a connection that is established has its event.                         *)
Promised(e) ==
  /\ arrived[e] <= 2 * Len(peer[e].sending)
  /\ Len(peer[e].sending) <= lag + 1
  /\ arrived[e] >= 2 => ReadPending(e)
  /\ client[e].state = "Connecting" => (peer[e].connected = TRUE <=> WritePending(e))

(* No endpoint did anything wrong.                                         *)
AllSound == \A e \in Endpoints : peer[e].wrong = {}

(* A sound fleet is never late: past the lateness every client streams with*)
(* a sample on the way, and past twice the lateness with one counted.      *)
HandshakeInTime ==
  AllSound =>
    \/ now <= 1 + lag
    \/ /\ \A e \in Endpoints :
            client[e].state = "Streaming" /\ (client[e].data_frames > 0 \/ peer[e].sending # <<>>)
       /\ \/ now <= 2 + MAX_LAG + lag
          \/ \A e \in Endpoints : client[e].data_frames > 0

(* The batch is empty between turns, and streaming has not started only    *)
(* because some client does not stream.                                    *)
TurnInOrder ==
  /\ turn = "top" => batch = {}
  /\ turn = "top" /\ streaming_started = None => \E e \in Endpoints : ~is_streaming(client[e])

(* Since streaming started, every sample of a sound endpoint up to the last*)
(* one is counted.                                                         *)
CountedSinceStart ==
  streaming_started # None =>
    /\ streaming_started <= now
    /\ \A e \in Endpoints :
         /\ is_streaming(client[e])
         /\ peer[e].wrong = {} =>
              client[e].data_frames >= client[e].last_timestamp - streaming_started + 1

(* The invariant of a run that has no verdict yet.                         *)
Underway ==
  /\ \A e \in Endpoints :
       /\ InStep(client[e], peer[e]) /\ Caught(client[e], peer[e])
       /\ InOrder(client[e], peer[e], now) /\ Promised(e)
  /\ HandshakeInTime /\ TurnInOrder /\ CountedSinceStart

ProbeInv == ProbeTypeOK /\ (verdict = "running" => Underway) /\ VerdictsAreEvidence

(* Induction over the naturals, with the predicate given as a set: a set   *)
(* that holds 0 and the successor of each of its naturals holds them all.  *)
LEMMA SetInduction ==
  ASSUME NEW S, 0 \in S, \A n \in Nat : n \in S => n + 1 \in S
  PROVE  Nat \subseteq S
<1> DEFINE T == Nat \ S
           R == OpToRel(<, Nat)
<1> SUFFICES ASSUME T # {} PROVE FALSE
  OBVIOUS
<1>1. IsWellFoundedOn(R, Nat)
  BY NatLessThanWellFounded
<1>2. PICK x \in T : \A y \in T : ~(<<y, x>> \in R)
  <2> HIDE DEF T, R
  <2>1. T \subseteq Nat BY DEF T
  <2> QED BY <1>1, <2>1, WFMin
<1>3. x # 0 /\ x \in Nat
  OBVIOUS
<1>4. x - 1 \in Nat /\ x - 1 < x /\ x - 1 + 1 = x
  BY <1>3
<1>5. <<x - 1, x>> \in R
  BY <1>3, <1>4 DEF OpToRel
<1>6. x - 1 \in S
  BY <1>2, <1>4, <1>5
<1> QED BY <1>4, <1>6, <1>3

(* The recursive function of Handled exists, and equals its equation.      *)
LEMMA HandledExists ==
  ASSUME NEW c, NEW frames, Len(frames) \in Nat
  PROVE  Handled(c, frames) =
           [i \in 0..Len(frames) |-> IF i = 0 THEN c
              ELSE handle_frame(Handled(c, frames)[i - 1], frames[i])]
<1> DEFINE Is(h, n) == h = [i \in 0..n |-> IF i = 0 THEN c ELSE handle_frame(h[i - 1], frames[i])]
           T == {n \in Nat : \E h : Is(h, n)}
<1>1. 0 \in T
  <2>1. Is([i \in 0..0 |-> c], 0) OBVIOUS
  <2> QED BY <2>1
<1>2. ASSUME NEW n \in Nat, n \in T PROVE n + 1 \in T
  <2>1. PICK h : Is(h, n) BY <1>2
  <2> DEFINE k == [i \in 0..n+1 |-> IF i = n + 1 THEN handle_frame(h[n], frames[n+1]) ELSE h[i]]
  <2>2. Is(k, n + 1)
    <3>1. k = [i \in 0..(n+1) |-> k[i]] OBVIOUS
    <3>2. ASSUME NEW i \in 0..(n + 1) PROVE k[i] = IF i = 0 THEN c ELSE handle_frame(k[i - 1], frames[i])
      <4>1. CASE i = n + 1
        <5>1. k[i] = handle_frame(h[n], frames[n + 1]) BY <4>1
        <5>2. k[n] = h[n] /\ i - 1 = n BY <4>1
        <5> QED BY <5>1, <5>2, <4>1
      <4>2. CASE i # n + 1
        <5>0. i \in 0..n BY <4>2
        <5>1. k[i] = h[i] BY <4>2
        <5>2. h[i] = IF i = 0 THEN c ELSE handle_frame(h[i - 1], frames[i]) BY <2>1, <5>0
        <5>3. i # 0 => k[i - 1] = h[i - 1] BY <5>0
        <5> QED BY <5>1, <5>2, <5>3
      <4> QED BY <4>1, <4>2
    <3> HIDE DEF k
    <3>3. [i \in 0..(n+1) |-> k[i]] = [i \in 0..(n+1) |-> IF i = 0 THEN c ELSE handle_frame(k[i - 1], frames[i])]
      BY <3>2, Zenon
    <3> QED BY <3>1, <3>3
  <2>3. \E g : Is(g, n + 1)
    <3> HIDE DEF k, Is
    <3> QED BY <2>2
  <2>4. n + 1 \in Nat
    OBVIOUS
  <2> HIDE DEF Is
  <2> QED BY <2>3, <2>4
<1>3. Len(frames) \in T
  <2> HIDE DEF T
  <2> QED BY <1>1, <1>2, SetInduction
<1>4. PICK h : Is(h, Len(frames)) BY <1>3
<1> QED BY <1>4 DEF Handled

(* So read_ready handles the frames one by one, from the client it found.  *)
LEMMA HandledUnfolds ==
  ASSUME NEW c, NEW frames \in Seq(FrameSent)
  PROVE  /\ Handled(c, frames)[0] = c
         /\ \A i \in 1..Len(frames) :
              Handled(c, frames)[i] = handle_frame(Handled(c, frames)[i - 1], frames[i])
<1>1. Len(frames) \in Nat
  OBVIOUS
<1> DEFINE h == Handled(c, frames)
<1>2. h = [i \in 0..Len(frames) |-> IF i = 0 THEN c ELSE handle_frame(h[i - 1], frames[i])]
  BY <1>1, HandledExists
<1> HIDE DEF h
<1>3. h[0] = c
  BY <1>1, <1>2
<1>4. ASSUME NEW i \in 1..Len(frames) PROVE h[i] = handle_frame(h[i - 1], frames[i])
  BY <1>1, <1>2
<1> QED BY <1>3, <1>4 DEF h

(* What the scripts of the two versions have in common.                    *)
LEMMA ScriptFacts ==
  /\ Len(Script) \in Nat /\ 2 <= Len(Script) /\ Len(Script) <= 3
  /\ StartStep = Len(Script) + 1
  /\ \A k \in 1..Len(Script) :
       Script[k] \in FrameKinds /\ Script[k] \notin {"Error", "Damaged", "PeriodicData"}
<1>1. CASE probe_version = 3
  <2>1. Script = <<"Capability", "StreamConfiguration">>
    BY <1>1 DEF Script
  <2>2. Len(Script) = 2
    BY <2>1
  <2>3. ASSUME NEW k \in 1..Len(Script) PROVE k = 1 \/ k = 2
    BY <2>2
  <2>4. Script[1] = "Capability" /\ Script[2] = "StreamConfiguration"
    BY <2>1
  <2>5. StartStep = Len(Script) + 1
    BY DEF StartStep
  <2> QED BY <2>2, <2>3, <2>4, <2>5 DEF FrameKinds
<1>2. CASE probe_version # 3
  <2>1. Script = <<"Header", "Configuration1", "Configuration2">>
    BY <1>2 DEF Script
  <2>2. Len(Script) = 3
    BY <2>1
  <2>3. ASSUME NEW k \in 1..Len(Script) PROVE k = 1 \/ k = 2 \/ k = 3
    BY <2>2
  <2>4. Script[1] = "Header" /\ Script[2] = "Configuration1" /\ Script[3] = "Configuration2"
    BY <2>1
  <2>5. StartStep = Len(Script) + 1
    BY DEF StartStep
  <2> QED BY <2>2, <2>3, <2>4, <2>5 DEF FrameKinds
<1> QED BY <1>1, <1>2

(* A frame fails the client, counts as a sample, or moves the script on.   *)
LEMMA HandleFrameCases ==
  ASSUME NEW c \in ClientType, NEW f \in FrameSent
  PROVE  /\ c.failed = TRUE \/ ~IsExpected(c, f) => handle_frame(c, f) = [c EXCEPT !.failed = TRUE]
         /\ c.failed = FALSE /\ IsExpected(c, f) /\ c.state = "Streaming" =>
              handle_frame(c, f) = [c EXCEPT !.last_timestamp = f.value,
                                             !.data_frames = c.data_frames + 1]
         /\ c.failed = FALSE /\ IsExpected(c, f) /\ c.state # "Streaming" =>
              handle_frame(c, f) = [c EXCEPT !.configuration = f.value, !.state = "Sending",
                                             !.step = c.step + 1, !.written = 0]
<1>1. CASE c.failed = TRUE \/ ~IsExpected(c, f)
  BY <1>1 DEF handle_frame, ClientType
<1>2. CASE c.failed = FALSE /\ IsExpected(c, f) /\ c.state = "Streaming"
  BY <1>2 DEF handle_frame, ClientType
<1>3. CASE c.failed = FALSE /\ IsExpected(c, f) /\ c.state # "Streaming"
  <2> DEFINE d == [c EXCEPT !.configuration = f.value]
  <2>1. handle_frame(c, f) = queue_command(d, c.step + 1)
    BY <1>3 DEF handle_frame
  <2>2. queue_command(d, c.step + 1) =
          [d EXCEPT !.state = "Sending", !.step = c.step + 1, !.written = 0]
    BY DEF queue_command
  <2> QED BY <1>3, <2>1, <2>2 DEF ClientType
<1>4. c.failed \in BOOLEAN
  BY SMTT(40) DEF ClientType
<1> QED BY <1>1, <1>2, <1>3, <1>4

(* handle_frame returns a client.                                          *)
LEMMA HandleFrameType ==
  ASSUME NEW c \in ClientType, NEW f \in FrameSent
  PROVE  handle_frame(c, f) \in ClientType
<1>1. f.value \in Nat /\ c.data_frames + 1 \in Nat /\ c.step + 1 \in Nat
  BY DEF FrameSent, ClientType
<1>2. c.failed \in BOOLEAN
  BY DEF ClientType
<1>3. [c EXCEPT !.failed = TRUE] \in ClientType
  BY DEF ClientType
<1>4. [c EXCEPT !.last_timestamp = f.value, !.data_frames = c.data_frames + 1] \in ClientType
  BY <1>1 DEF ClientType
<1>5. [c EXCEPT !.configuration = f.value, !.state = "Sending",
                !.step = c.step + 1, !.written = 0] \in ClientType
  BY <1>1 DEF ClientType
<1> QED BY <1>2, <1>3, <1>4, <1>5, HandleFrameCases

(* A streaming client that has handled i consecutive samples.              *)
Consecutive(c, frames, i) ==
  \A j \in 1..i :
    frames[j].value = IF c.last_timestamp # None THEN c.last_timestamp + j
                                                 ELSE frames[1].value + j - 1

NextValue(c, frames, n) ==
  IF c.last_timestamp # None THEN c.last_timestamp + n + 1 ELSE frames[1].value + n

LEMMA ConsecutiveNext ==
  ASSUME NEW c, NEW frames, NEW n \in Nat,
         c.last_timestamp \in Nat, frames[1].value \in Nat
  PROVE  Consecutive(c, frames, n + 1) <=>
           /\ Consecutive(c, frames, n)
           /\ frames[n + 1].value = NextValue(c, frames, n)
<1> DEFINE v(j) == IF c.last_timestamp # None THEN c.last_timestamp + j
                   ELSE frames[1].value + j - 1
           E(j) == frames[j].value = v(j)
<1>1. v(n + 1) = NextValue(c, frames, n)
  <2>1. c.last_timestamp + (n + 1) = c.last_timestamp + n + 1
    OBVIOUS
  <2>2. frames[1].value + (n + 1) - 1 = frames[1].value + n
    OBVIOUS
  <2> QED BY <2>1, <2>2 DEF NextValue
<1>2. /\ Consecutive(c, frames, n + 1) <=> \A j \in 1..(n + 1) : E(j)
      /\ Consecutive(c, frames, n) <=> \A j \in 1..n : E(j)
  BY DEF Consecutive
<1>3. 1..(n + 1) = (1..n) \cup {n + 1}
  OBVIOUS
<1> HIDE DEF v
<1>4. E(n + 1) <=> frames[n + 1].value = NextValue(c, frames, n)
  BY <1>1
<1> HIDE DEF E
<1> QED BY <1>2, <1>3, <1>4

(* What the client is after i of the samples.                              *)
StillStreams(c, h, frames, i) ==
  /\ h \in ClientType
  /\ h.state = "Streaming" /\ h.step = c.step /\ h.written = c.written
  /\ h.configuration = c.configuration
  /\ h.failed = FALSE =>
       /\ h.data_frames = c.data_frames + i
       /\ h.last_timestamp = IF i = 0 THEN c.last_timestamp ELSE frames[i].value
  /\ h.failed = FALSE <=> Consecutive(c, frames, i)

(* Read in one turn, a run of samples counts every one of them if and only *)
(* if they are consecutive; otherwise the client fails.  By induction over *)
(* the frames.                                                             *)
LEMMA HandleSamples ==
  ASSUME NEW c \in ClientType, c.state = "Streaming", c.failed = FALSE,
         NEW frames \in Seq(FrameSent),
         \A j \in 1..Len(frames) : frames[j].kind = "PeriodicData" /\ frames[j].value # None
  PROVE  \A i \in 0..Len(frames) : StillStreams(c, Handled(c, frames)[i], frames, i)
<1> DEFINE h == Handled(c, frames)
           T == {n \in Nat : n <= Len(frames) => StillStreams(c, h[n], frames, n)}
<1>0. Len(frames) \in Nat
  OBVIOUS
<1>1. h[0] = c /\ \A i \in 1..Len(frames) : h[i] = handle_frame(h[i - 1], frames[i])
  BY HandledUnfolds
<1> HIDE DEF h
<1>2. 0 \in T
  <2>1. Consecutive(c, frames, 0)
    BY DEF Consecutive
  <2>2. c.data_frames = c.data_frames + 0
    BY DEF ClientType
  <2> QED BY <1>1, <2>1, <2>2 DEF StillStreams
<1>3. ASSUME NEW n \in Nat, n \in T PROVE n + 1 \in T
  <2> SUFFICES ASSUME n + 1 <= Len(frames) PROVE StillStreams(c, h[n + 1], frames, n + 1)
    OBVIOUS
  <2> DEFINE f == frames[n + 1]
             g == h[n]
  <2>1. StillStreams(c, g, frames, n)
    BY <1>3, <1>0
  <2>2. n + 1 \in 1..Len(frames) /\ n + 1 - 1 = n
    BY <1>0
  <2>3. h[n + 1] = handle_frame(g, f)
    BY <1>1, <2>2
  <2>a. \A j \in 1..Len(frames) : frames[j] \in FrameSent
    OBVIOUS
  <2>b. \A j \in 1..Len(frames) : frames[j].value \in Nat
    BY <2>a DEF FrameSent
  <2>4. f \in FrameSent /\ f.kind = "PeriodicData" /\ f.value # None /\ f.value \in Nat
    BY <2>2, <2>a, <2>b
  <2>5. frames[1].value \in Nat /\ (n >= 1 => frames[n].value # None /\ frames[n].value \in Nat)
    <3>1. 1 \in 1..Len(frames) /\ (n >= 1 => n \in 1..Len(frames))
      BY <1>0
    <3> QED BY <3>1, <2>b
  <2>6. c.last_timestamp \in Nat /\ c.data_frames \in Nat /\ g.last_timestamp \in Nat /\ g \in ClientType
    BY <2>1 DEF StillStreams, ClientType
  <2>7. Consecutive(c, frames, n + 1) <=>
          Consecutive(c, frames, n) /\ f.value = NextValue(c, frames, n)
    <3>1. c.last_timestamp \in Nat /\ frames[1].value \in Nat
      BY <2>5, <2>6
    <3> QED BY <3>1, ConsecutiveNext, Zenon
  <2> HIDE DEF f, g
  <2>8. handle_frame(g, f) =
          IF g.failed = FALSE /\ decode_periodic_data(g, f)
            THEN [g EXCEPT !.last_timestamp = f.value, !.data_frames = @ + 1]
            ELSE [g EXCEPT !.failed = TRUE]
    BY <2>1, <2>4, <2>6 DEF handle_frame, IsExpected, StillStreams, ClientType
  <2>11. LET d == [g EXCEPT !.failed = TRUE]
         IN  /\ d \in ClientType /\ d.failed = TRUE /\ d.state = "Streaming" /\ d.step = c.step
             /\ d.written = c.written /\ d.configuration = c.configuration
    BY <2>1, <2>6 DEF StillStreams, ClientType
  <2>9. CASE g.failed = FALSE
    <3>1. Consecutive(c, frames, n) /\ g.data_frames = c.data_frames + n
          /\ g.last_timestamp = IF n = 0 THEN c.last_timestamp ELSE frames[n].value
      BY <2>1, <2>9 DEF StillStreams
    <3>2. decode_periodic_data(g, f) <=> Consecutive(c, frames, n + 1)
      <4>1. CASE n = 0
        BY <3>1, <2>7, <4>1, <2>6, <2>4 DEF decode_periodic_data, f, NextValue
      <4>2. CASE n # 0
        <5>1. frames[n].value = IF c.last_timestamp # None THEN c.last_timestamp + n
                                                 ELSE frames[1].value + n - 1
          BY <3>1, <4>2 DEF Consecutive
        <5>2. g.last_timestamp = frames[n].value /\ frames[n].value # None /\ frames[n].value \in Nat
          BY <3>1, <4>2, <2>5
        <5>3. decode_periodic_data(g, f) <=> f.value = frames[n].value + 1
          BY <5>2 DEF decode_periodic_data
        <5>4. frames[n].value + 1 = NextValue(c, frames, n)
          BY <5>1, <2>5, <2>6 DEF NextValue
        <5> QED BY <5>3, <5>4, <3>1, <2>7
      <4> QED BY <4>1, <4>2
    <3>3. CASE decode_periodic_data(g, f)
      <4> DEFINE d == [g EXCEPT !.last_timestamp = f.value, !.data_frames = @ + 1]
      <4>1. h[n + 1] = d
        BY <2>3, <2>8, <2>9, <3>3
      <4>2. /\ d.state = g.state /\ d.step = g.step /\ d.written = g.written
            /\ d.configuration = g.configuration /\ d.failed = FALSE
            /\ d.last_timestamp = f.value /\ d.data_frames = g.data_frames + 1
        BY <2>9, <2>6 DEF ClientType
      <4>5. g.data_frames + 1 \in Nat
        BY <2>6 DEF ClientType
      <4>6. d \in ClientType
        BY <2>6, <2>4, <4>5 DEF ClientType
      <4>3. g.state = "Streaming" /\ g.step = c.step /\ g.written = c.written
            /\ g.configuration = c.configuration
        BY <2>1 DEF StillStreams
      <4>4. d.data_frames = c.data_frames + (n + 1) /\ n + 1 # 0 /\ f = frames[n + 1]
        BY <4>2, <3>1, <2>6 DEF f
      <4> HIDE DEF d
      <4> QED BY <4>1, <4>2, <4>3, <4>4, <4>6, <3>2, <3>3 DEF StillStreams
    <3>4. CASE ~decode_periodic_data(g, f)
      <4>1. h[n + 1] = [g EXCEPT !.failed = TRUE]
        BY <2>3, <2>8, <3>4
      <4> QED BY <4>1, <2>11, <3>2, <3>4 DEF StillStreams
    <3> QED BY <3>3, <3>4
  <2>10. CASE g.failed # FALSE
    <3>1. ~Consecutive(c, frames, n + 1)
      BY <2>1, <2>7, <2>10 DEF StillStreams
    <3>2. h[n + 1] = [g EXCEPT !.failed = TRUE]
      BY <2>3, <2>8, <2>10
    <3> QED BY <3>1, <3>2, <2>11 DEF StillStreams
  <2> QED BY <2>9, <2>10
<1>4. Nat \subseteq T
  <2> HIDE DEF T
  <2> QED BY <1>2, <1>3, SetInduction
<1> QED BY <1>0, <1>4 DEF h

(* A buffer cut after w frames: the part taken and the part left.          *)
LEMMA CutFacts ==
  ASSUME NEW S, NEW s \in Seq(S), NEW w \in 0..Len(s)
  PROVE  /\ SubSeq(s, 1, w) \in Seq(S) /\ Len(SubSeq(s, 1, w)) = w
         /\ \A i \in 1..w : SubSeq(s, 1, w)[i] = s[i]
         /\ SubSeq(s, w + 1, Len(s)) \in Seq(S) /\ Len(SubSeq(s, w + 1, Len(s))) = Len(s) - w
         /\ \A i \in 1..(Len(s) - w) : SubSeq(s, w + 1, Len(s))[i] = s[w + i]
         /\ w = 0 => SubSeq(s, w + 1, Len(s)) = s
         /\ w = Len(s) => SubSeq(s, w + 1, Len(s)) = <<>>
<1>1. Len(s) \in Nat /\ w \in Nat /\ w <= Len(s)
  OBVIOUS
<1>2. SubSeq(s, 1, w) \in Seq(S)
  BY <1>1
<1>3. Len(SubSeq(s, 1, w)) = w
  BY <1>1
<1>4. \A i \in 1..w : SubSeq(s, 1, w)[i] = s[i]
  BY <1>1
<1>5. SubSeq(s, w + 1, Len(s)) \in Seq(S) 
  BY <1>1
<1>6. Len(SubSeq(s, w + 1, Len(s))) = Len(s) - w
  BY <1>1
<1>7. \A i \in 1..(Len(s) - w) : SubSeq(s, w + 1, Len(s))[i] = s[w + i]
  BY <1>1
<1>8. w = 0 => SubSeq(s, w + 1, Len(s)) = s
  BY <1>1
<1>9. w = Len(s) => SubSeq(s, w + 1, Len(s)) = <<>>
  BY <1>1, <1>5, <1>6
<1> QED BY <1>2, <1>3, <1>4, <1>5, <1>6, <1>7, <1>8, <1>9

(* A read that completes no frame changes no client.                       *)
LEMMA ReadNothing ==
  ASSUME NEW c \in ClientType, NEW frames \in Seq(FrameSent), Len(frames) = 0
  PROVE  Handled(c, frames)[Len(frames)] = c
BY HandledUnfolds

(* A read that completes one frame handles that frame.                     *)
LEMMA ReadOne ==
  ASSUME NEW c \in ClientType, NEW frames \in Seq(FrameSent), Len(frames) = 1
  PROVE  Handled(c, frames)[Len(frames)] = handle_frame(c, frames[1])
<1> DEFINE h == Handled(c, frames)
<1>1. h[0] = c /\ \A i \in 1..Len(frames) : h[i] = handle_frame(h[i - 1], frames[i])
  BY ZenonT(60), HandledUnfolds
<1> HIDE DEF h
<1>2. 1 \in 1..Len(frames) /\ 1 - 1 = 0
  OBVIOUS
<1>3. h[1] = handle_frame(h[1 - 1], frames[1])
  BY <1>1, <1>2
<1> QED BY <1>1, <1>2, <1>3 DEF h

(* What reading w frames leaves: a client d and an endpoint q.             *)
ReadWell(c, p, d, q, t, w) ==
  /\ InStep(d, q) /\ Caught(d, q) /\ InOrder(d, q, t)
  /\ d.state = "Streaming" <=> c.state = "Streaming"
  /\ d.state # "Connecting" \/ c.state = "Connecting"
  /\ d.data_frames >= c.data_frames
  /\ c.state = "Streaming" =>
       /\ d.data_frames = c.data_frames + w
       /\ c.last_timestamp # None => d.last_timestamp = c.last_timestamp + w

(* A read without a whole frame keeps client and endpoint in step.         *)
LEMMA ReadWellNothing ==
  ASSUME NEW c \in ClientType, NEW p \in PeerType, NEW t \in Nat,
         InStep(c, p), Caught(c, p), InOrder(c, p, t),
         NEW q, q = [p EXCEPT !.sending = SubSeq(p.sending, 1, Len(p.sending))]
  PROVE  ReadWell(c, p, c, q, t, 0)
<1>1. p.sending \in Seq(FrameSent)
  BY DEF PeerType
<1>2. SubSeq(p.sending, 1, Len(p.sending)) = p.sending
  BY <1>1
<1>3. q = p
  BY <1>2 DEF PeerType
<1>4. c.data_frames \in Nat /\ c.last_timestamp \in Nat
  BY DEF ClientType
<1> QED BY <1>3, <1>4 DEF ReadWell

(* A read of the answer to a command moves the script on, or fails because *)
(* of what the endpoint did.                                               *)
LEMMA ReadWellAnswer ==
  ASSUME NEW c \in ClientType, NEW p \in PeerType, NEW t \in Nat, c.state = "Awaiting",
         InStep(c, p), Caught(c, p), InOrder(c, p, t), Len(p.sending) = 1,
         NEW q, q = [p EXCEPT !.sending = <<>>],
         NEW d, d = handle_frame(c, p.sending[1])
  PROVE  /\ d \in ClientType
         /\ d.failed = TRUE => p.wrong # {}
         /\ d.failed = FALSE => ReadWell(c, p, d, q, t, 1)
<1> DEFINE f == p.sending[1]
<1>1. p.sending \in Seq(FrameSent) /\ f \in FrameSent
  BY DEF PeerType
<1>2. d \in ClientType
  BY <1>1, HandleFrameType
<1>3. p.answered = p.asked /\ p.asked = c.step /\ c.failed = FALSE /\ c.step <= Len(Script) /\ c.step \in Nat /\ c.step >= 1
  <2>1. p.sending # <<>>
    OBVIOUS
  <2> QED BY <2>1, ScriptFacts DEF InStep
<1>4. CASE p.wrong \cap Lies # {}
  <2>1. ~IsExpected(c, f)
    BY <1>4, SMTT(40) DEF Caught
  <2>2. d = [c EXCEPT !.failed = TRUE]
    BY <2>1, <1>1, HandleFrameCases
  <2>3. d.failed = TRUE
    BY <2>2 DEF ClientType
  <2> QED BY <1>2, <1>4, <2>3
<1>5. CASE p.wrong \cap Lies = {}
  <2>1. f = Answer(c.step)
    BY <1>3, <1>5 DEF Caught
  <2>2. IsExpected(c, f)
    <3>1. f.kind = Script[c.step]
      BY <2>1 DEF Answer
    <3>2. c.step = Len(Script) => f.value = c.configuration
      BY <2>1, ScriptFacts, SMTT(40) DEF Answer, IsConfiguration, InStep
    <3> QED BY <3>1, <3>2 DEF IsExpected
  <2>3. d = [c EXCEPT !.configuration = f.value, !.state = "Sending", !.step = c.step + 1, !.written = 0]
    BY <1>1, <1>3, <2>2, HandleFrameCases
  <2>4. /\ d.configuration = f.value /\ d.state = "Sending" /\ d.step = c.step + 1 /\ d.written = 0
        /\ d.failed = FALSE /\ d.data_frames = c.data_frames /\ d.last_timestamp = c.last_timestamp
    BY <1>3, <2>3 DEF ClientType
  <2>5. d.step = Len(Script) => d.configuration = 1
    BY <1>3, <2>1, <2>4, ScriptFacts, SMTT(40) DEF Answer, IsConfiguration
  <2>6. /\ q.sending = <<>> /\ q.asked = p.asked /\ q.answered = p.answered /\ q.connected = p.connected
        /\ q.wrong = p.wrong /\ q.skipped = p.skipped /\ q.closed = p.closed
    BY DEF PeerType
  <2>7. c.data_frames = 0 /\ c.last_timestamp = None /\ p.connected = TRUE
    BY DEF InStep
  <2>8. "Refuse" \notin p.wrong /\ "Silent" \notin p.wrong /\ (p.closed = TRUE => "Close" \in p.wrong)
    BY <1>3, ScriptFacts DEF Caught
  <2>9. InStep(d, q)
    BY <1>3, <2>4, <2>5, <2>6, <2>7, ScriptFacts DEF InStep
  <2>10. Caught(d, q)
    BY <1>5, <2>4, <2>6, <2>8 DEF Caught
  <2>11. InOrder(d, q, t)
    <3>1. Counted(d) = Counted(c)
      BY <2>4 DEF Counted
    <3> QED BY <2>4, <2>6, <2>7, <3>1 DEF InOrder
  <2> QED BY <1>2, <2>4, <2>7, <2>9, <2>10, <2>11 DEF ReadWell
<1> QED BY <1>4, <1>5

(* The samples counted after w more are those of before and the w new ones.*)
LEMMA CountedGrows ==
  ASSUME NEW last \in Nat, NEW n \in Nat, NEW w \in Nat, NEW x \in (last + w - (n + w) + 1)..(last + w)
  PROVE  x \in (last - n + 1)..last \/ (x - last \in 1..w /\ x = last + (x - last))
OBVIOUS

(* The i-th frame left was the (w + i)-th on the way.                      *)
LEMMA IndexInRest ==
  ASSUME NEW n \in Nat, NEW w \in Nat, 1 <= w, NEW i \in 1..(n - w)
  PROVE  w + i \in 1..n /\ i \in Nat
OBVIOUS

(* A read of samples counts them without a gap, or fails because the       *)
(* endpoint left one out.                                                  *)
LEMMA ReadWellSamples ==
  ASSUME NEW c \in ClientType, NEW p \in PeerType, NEW t \in Nat, c.state = "Streaming",
         InStep(c, p), Caught(c, p), InOrder(c, p, t),
         NEW w \in 1..Len(p.sending),
         NEW frames, frames = SubSeq(p.sending, 1, w),
         NEW q, q = [p EXCEPT !.sending = SubSeq(p.sending, w + 1, Len(p.sending))],
         NEW d, d = Handled(c, frames)[Len(frames)]
  PROVE  /\ d \in ClientType
         /\ d.failed = TRUE => p.wrong # {}
         /\ d.failed = FALSE => ReadWell(c, p, d, q, t, w)
<1> DEFINE s == p.sending
           r == SubSeq(p.sending, w + 1, Len(p.sending))
<1>1. s \in Seq(FrameSent) /\ Len(s) \in Nat /\ w \in 0..Len(s) /\ w \in Nat /\ w >= 1 /\ w <= Len(s)
  BY DEF PeerType
<1>2. frames \in Seq(FrameSent) /\ Len(frames) = w /\ \A i \in 1..w : frames[i] = s[i]
  BY <1>1, CutFacts
<1> HIDE DEF s
<1>3. r \in Seq(FrameSent) /\ Len(r) = Len(s) - w /\ \A i \in 1..(Len(s) - w) : r[i] = s[w + i]
  <2>1. r = SubSeq(s, w + 1, Len(s))
    BY DEF s
  <2> HIDE DEF r
  <2>2. SubSeq(s, w + 1, Len(s)) \in Seq(FrameSent) /\ Len(SubSeq(s, w + 1, Len(s))) = Len(s) - w
    BY <1>1, CutFacts
  <2>3. \A i \in 1..(Len(s) - w) : SubSeq(s, w + 1, Len(s))[i] = s[w + i]
    BY <1>1, CutFacts
  <2> QED BY <2>1, <2>2, <2>3
<1>4. /\ q.sending = r /\ q.asked = p.asked /\ q.answered = p.answered /\ q.connected = p.connected
      /\ q.wrong = p.wrong /\ q.skipped = p.skipped /\ q.closed = p.closed
  BY DEF PeerType
<1> HIDE DEF r
<1>n. PICK n \in Nat : n = Len(s) /\ w \in Nat /\ 1 <= w /\ w <= n
  BY <1>1
<1>f. \A i \in 1..w : i \in 1..Len(s) /\ i \in Nat /\ frames[i] = s[i] /\ frames[i].value \in Nat
  <2> SUFFICES ASSUME NEW i \in 1..w
               PROVE  i \in 1..Len(s) /\ i \in Nat /\ frames[i] = s[i] /\ frames[i].value \in Nat
    OBVIOUS
  <2>1. i \in 1..Len(s) /\ i \in Nat
    BY <1>n
  <2>2. s[i] \in FrameSent
    BY <1>1, <2>1
  <2> QED BY <2>1, <2>2, <1>2 DEF FrameSent
<1>w. w \in 1..w /\ 1 \in 1..w
  BY <1>n
<1>5. \A i \in 1..Len(s) : /\ s[i].kind = "PeriodicData" /\ s[i].value \in 1..t /\ s[i].value \notin p.skipped
                           /\ p.wrong = {} => s[i].value = t - Len(s) + i
  BY DEF InOrder, s
<1>6. \A j \in 1..Len(frames) : frames[j].kind = "PeriodicData" /\ frames[j].value # None
  <2> SUFFICES ASSUME NEW j \in 1..Len(frames)
               PROVE  frames[j].kind = "PeriodicData" /\ frames[j].value # None
    OBVIOUS
  <2>1. j \in 1..Len(s) /\ frames[j] = s[j]
    BY <1>f, <1>2
  <2>2. s[j].value \in 1..t /\ s[j].kind = "PeriodicData"
    BY <2>1, <1>5
  <2> QED BY <2>1, <2>2, SMTT(40) DEF None
<1>7. c.failed = FALSE /\ c.step = StartStep /\ c.written = 2 /\ p.asked = StartStep /\ p.answered = Len(Script)
      /\ p.connected = TRUE
  BY DEF InStep
<1>8. StillStreams(c, d, frames, w)
  <2>1. \A i \in 0..Len(frames) : StillStreams(c, Handled(c, frames)[i], frames, i)
    BY <1>2, <1>6, <1>7, HandleSamples
  <2>2. Len(frames) \in 0..Len(frames) /\ Len(frames) = w
    BY <1>2, <1>n
  <2> QED BY <2>1, <2>2
<1>9. c.last_timestamp \in Nat /\ c.data_frames \in Nat /\ d \in ClientType
  BY <1>8 DEF ClientType, StillStreams
<1>10. p.wrong = {} => Consecutive(c, frames, w)
  <2> SUFFICES ASSUME p.wrong = {}, NEW j \in 1..w
               PROVE  frames[j].value = IF c.last_timestamp # None THEN c.last_timestamp + j
                                                 ELSE frames[1].value + j - 1
    BY DEF Consecutive
  <2>1. j \in 1..Len(s) /\ 1 \in 1..Len(s) /\ frames[j] = s[j] /\ frames[1] = s[1] /\ j \in Nat
    BY <1>f, <1>w
  <2>2. s[j].value = t - Len(s) + j /\ s[1].value = t - Len(s) + 1
    BY <2>1, <1>5
  <2>3. c.last_timestamp # None => c.last_timestamp = t - Len(s)
    BY DEF InOrder, s
  <2>4. frames[j].value = t - n + j /\ frames[1].value = t - n + 1
        /\ (c.last_timestamp # None => c.last_timestamp = t - n) /\ j \in Nat
    BY <2>1, <2>2, <2>3, <1>n
  <2> QED BY <2>4, <1>n, SMTT(40)
<1>11. d.failed = TRUE => p.wrong # {}
  BY <1>8, <1>10 DEF StillStreams
<1>12. ASSUME d.failed = FALSE PROVE ReadWell(c, p, d, q, t, w)
  <2>1. /\ d.state = "Streaming" /\ d.step = c.step /\ d.written = c.written
        /\ d.configuration = c.configuration /\ d.data_frames = c.data_frames + w
        /\ d.last_timestamp = frames[w].value /\ Consecutive(c, frames, w)
    BY <1>8, <1>12, <1>1 DEF StillStreams
  <2>t. d.last_timestamp \in Nat /\ d.data_frames \in Nat
    BY <1>9 DEF ClientType
  <2>2. frames[w] = s[w] /\ w \in 1..Len(s) /\ w \in 1..w /\ 1 \in 1..w
    BY <1>f, <1>w
  <2>3. s[w].value \in 1..t /\ s[w].value \notin p.skipped
    BY <2>2, <1>5
  <2>4. c.last_timestamp # None => d.last_timestamp = c.last_timestamp + w
    BY <2>1, <2>2 DEF Consecutive
  <2>5. InStep(d, q)
    BY <1>7, <1>12, <2>1, <1>4, ScriptFacts DEF InStep
  <2>6. Caught(d, q)
    BY <2>1, <1>4 DEF Caught
  <2>7. q.skipped \cap Counted(d) = {}
    <3> SUFFICES ASSUME NEW x \in p.skipped, x \in Counted(d) PROVE FALSE
      BY <1>4
    <3>1. x \in Nat /\ x \notin Counted(c) /\ (c.data_frames = 0 <=> c.last_timestamp = None)
      BY DEF InOrder, PeerType
    <3>2. CASE c.last_timestamp # None
      <4>1. x \in (c.last_timestamp + w - (c.data_frames + w) + 1)..(c.last_timestamp + w)
        <5>1. d.last_timestamp = c.last_timestamp + w /\ d.data_frames = c.data_frames + w
          BY <2>1, <2>4, <3>2
        <5>2. d.last_timestamp - d.data_frames + 1 <= x /\ x <= d.last_timestamp
          BY <2>t, <3>1 DEF Counted
        <5> QED BY <5>1, <5>2, <3>1, <1>9, <1>n, SMTT(40)
      <4>2. x - c.last_timestamp \in 1..w /\ x = c.last_timestamp + (x - c.last_timestamp)
        BY <4>1, <3>1, <1>9, <1>1, CountedGrows, SMTT(40) DEF Counted
      <4>3. frames[x - c.last_timestamp].value = x
        BY <4>2, <3>2, <2>1 DEF Consecutive
      <4>4. x - c.last_timestamp \in 1..Len(s) /\ frames[x - c.last_timestamp] = s[x - c.last_timestamp]
        BY <4>2, <1>f
      <4> QED BY <4>3, <4>4, <1>5
    <3>3. CASE c.last_timestamp = None
      <4> DEFINE v == frames[1].value
      <4>0. v \in Nat /\ frames[1] = s[1]
        BY <1>f, <1>w
      <4>1. d.last_timestamp = v + w - 1 /\ d.data_frames = w
        <5>1. frames[w].value = v + w - 1
          BY <2>1, <1>w, <3>3 DEF Consecutive
        <5> QED BY <5>1, <2>1, <3>1, <3>3, <1>n, SMTT(40)
      <4> HIDE DEF v
      <4>5. x \in (v + w - 1 - w + 1)..(v + w - 1)
        <5>1. d.last_timestamp - d.data_frames + 1 <= x /\ x <= d.last_timestamp
          BY <2>t, <3>1 DEF Counted
        <5>3. v \in Nat /\ w \in Nat /\ x \in Nat
          BY <4>0, <3>1, <1>n
        <5>2. v + w - 1 - w + 1 <= x /\ x <= v + w - 1
          BY <4>1, <5>1, <5>3
        <5> QED BY <5>2, <5>3
      <4>2. x \in v..(v + w - 1) /\ x - v + 1 \in 1..w
        BY <4>5, <4>0, <1>n, SMTT(40)
      <4>3. frames[x - v + 1].value = v + (x - v + 1) - 1
        BY <4>2, <3>3, <2>1 DEF Consecutive, v
      <4>6. x - v + 1 \in 1..Len(s) /\ frames[x - v + 1] = s[x - v + 1]
        BY <4>2, <1>f
      <4>4. x - v + 1 \in 1..Len(s) /\ frames[x - v + 1] = s[x - v + 1] /\ v + (x - v + 1) - 1 = x
        <5>1. v + (x - v + 1) - 1 = x
          BY <4>0, <3>1
        <5> QED BY <4>6, <5>1
      <4> QED BY <4>3, <4>4, <1>5
    <3> QED BY <3>2, <3>3
  <2>8. ASSUME NEW i \in 1..Len(q.sending)
        PROVE  /\ q.sending[i].kind = "PeriodicData"
               /\ q.sending[i].value \in 1..t /\ q.sending[i].value \notin q.skipped
               /\ q.wrong = {} => q.sending[i].value = t - Len(q.sending) + i
    <3>1. i \in 1..(Len(s) - w) /\ w + i \in 1..Len(s) /\ i \in Nat
      <4>1. Len(q.sending) = n - w
        BY <1>3, <1>4, <1>n
      <4>2. i \in 1..(n - w)
        BY <4>1
      <4>3. i \in 1..(n - w) /\ w + i \in 1..n /\ i \in Nat
        <5>1. n \in Nat /\ w \in Nat /\ 1 <= w
          BY <1>n
        <5> QED BY <4>2, <5>1, IndexInRest
      <4> QED BY <4>3, <1>n
    <3>2. q.sending[i] = s[w + i]
      BY <3>1, <1>3, <1>4
    <3>3. t - Len(s) + (w + i) = t - Len(q.sending) + i
      <4>1. Len(q.sending) = n - w /\ Len(s) = n
        BY <1>3, <1>4, <1>n
      <4>2. t - n + (w + i) = t - (n - w) + i
        BY <3>1, <1>n
      <4> QED BY <4>1, <4>2
    <3> QED BY <3>1, <3>2, <3>3, <1>4, <1>5
  <2>9. d.last_timestamp # None /\ q.wrong = {} => d.last_timestamp = t - Len(q.sending)
    <3>1. p.wrong = {} => s[w].value = t - Len(s) + w
      BY <2>2, <1>5
    <3>2. Len(q.sending) = n - w /\ Len(s) = n
      BY <1>3, <1>4, <1>n
    <3>3. t - n + w = t - (n - w)
      BY <1>n
    <3> QED BY <3>1, <3>2, <3>3, <2>1, <2>2, <1>4
  <2>10. InOrder(d, q, t)
    <3>1. q.skipped \subseteq 1..t
      BY <1>4 DEF InOrder
    <3>2. d.last_timestamp <= t /\ d.last_timestamp # None /\ d.data_frames # 0
      <4>1. d.last_timestamp \in 1..t
        BY <2>1, <2>2, <2>3
      <4>2. d.data_frames = c.data_frames + w
        BY <2>1
      <4> QED BY <4>1, <4>2, <1>9, <1>n, SMTT(40) DEF None
    <3> QED BY <2>7, <2>8, <2>9, <3>1, <3>2 DEF InOrder
  <2>11. d.data_frames >= c.data_frames
    <3>1. d.data_frames = c.data_frames + w
      BY <2>1
    <3> QED BY <3>1, <1>9, <1>n
  <2> QED BY <2>1, <2>4, <2>5, <2>6, <2>10, <2>11 DEF ReadWell
<1> QED BY <1>9, <1>11, <1>12

(* Whatever whole frames are there, a read keeps client and endpoint in    *)
(* step or fails because of what the endpoint did.                         *)
LEMMA ReadStep ==
  ASSUME NEW c \in ClientType, NEW p \in PeerType, NEW t \in Nat,
         InStep(c, p), Caught(c, p), InOrder(c, p, t),
         NEW w \in 0..Len(p.sending),
         NEW frames, frames = SubSeq(p.sending, 1, w),
         NEW q, q = [p EXCEPT !.sending = SubSeq(p.sending, w + 1, Len(p.sending))],
         NEW d, d = Handled(c, frames)[Len(frames)]
  PROVE  /\ d \in ClientType
         /\ d.failed = TRUE => p.wrong # {}
         /\ d.failed = FALSE => ReadWell(c, p, d, q, t, w)
<1>1. p.sending \in Seq(FrameSent) /\ Len(p.sending) \in Nat
  BY DEF PeerType
<1>2. frames \in Seq(FrameSent) /\ Len(frames) = w /\ \A i \in 1..w : frames[i] = p.sending[i]
  BY <1>1, CutFacts, SMTT(40)
<1>3. CASE w = 0
  <2>1. d = c
    BY <1>2, <1>3, ReadNothing
  <2>2. q = [p EXCEPT !.sending = SubSeq(p.sending, 1, Len(p.sending))]
    BY <1>3
  <2>3. c.failed = FALSE
    BY DEF InStep
  <2> QED BY <1>3, <2>1, <2>2, <2>3, ReadWellNothing
<1>4. CASE w # 0
  <2>0. w \in 1..Len(p.sending)
    BY <1>1, <1>4
  <2>1. CASE c.state = "Streaming"
    BY <2>0, <2>1, ReadWellSamples
  <2>2. CASE c.state # "Streaming"
    <3>1. p.sending # <<>>
      BY <1>1, <2>0
    <3>2. c.state = "Awaiting"
      BY <2>2, <3>1 DEF InStep, ClientType
    <3>3. Len(p.sending) = 1
      BY <3>1, <3>2 DEF InStep
    <3>4. w = 1
      BY <2>0, <3>3
    <3>5. SubSeq(p.sending, w + 1, Len(p.sending)) = <<>>
      BY <1>1, <3>3, <3>4, CutFacts
    <3>6. frames[1] = p.sending[1]
      BY <1>2, <3>4
    <3>7. d = handle_frame(c, p.sending[1])
      BY <1>2, <3>4, <3>6, ReadOne
    <3>8. q = [p EXCEPT !.sending = <<>>]
      BY <3>5
    <3> HIDE DEF Handled
    <3> QED BY <3>2, <3>3, <3>4, <3>7, <3>8, ReadWellAnswer
  <2> QED BY <2>1, <2>2
<1> QED BY <1>3, <1>4

(* A command that is written completely is what the endpoint was asked.    *)
Sent(c) == c.written = 2 /\ c.state \in {"Awaiting", "Streaming"}

AskedFor(c, p) == [p EXCEPT !.asked = IF Sent(c) THEN c.step ELSE p.asked]

(* What a write leaves behind.                                             *)
WriteWell(c, p, d, t) ==
  /\ InStep(d, AskedFor(d, p)) /\ Caught(d, AskedFor(d, p)) /\ InOrder(d, AskedFor(d, p), t)
  /\ d.data_frames = c.data_frames /\ d.last_timestamp = c.last_timestamp
  /\ c.state = "Streaming" => d.state = "Streaming"
  /\ d.state = "Connecting" => c.state = "Connecting"

(* A client that writes nothing stays in step.                             *)
LEMMA NothingWritten ==
  ASSUME NEW c \in ClientType, NEW p \in PeerType, NEW t \in Nat,
         InStep(c, p), Caught(c, p), InOrder(c, p, t)
  PROVE  WriteWell(c, p, c, t)
<1>1. Sent(c) => c.step = p.asked
  BY DEF Sent, InStep
<1>2. AskedFor(c, p) = p
  BY <1>1 DEF AskedFor, PeerType
<1> QED BY <1>2 DEF WriteWell

(* A command in progress is a state of the client.                         *)
LEMMA CommandType ==
  ASSUME NEW c \in ClientType, NEW next \in {"Sending", "Awaiting", "Streaming"},
         NEW k \in Nat, NEW n \in Nat
  PROVE  /\ [c EXCEPT !.state = next, !.step = k, !.written = n] \in ClientType
         /\ [c EXCEPT !.written = n, !.state = next] \in ClientType
BY DEF ClientType

(* A connection that is established sends the first command.               *)
LEMMA FirstCommand ==
  ASSUME NEW c \in ClientType, NEW p \in PeerType, NEW t \in Nat,
         InStep(c, p), Caught(c, p), InOrder(c, p, t),
         c.state = "Connecting", p.connected = TRUE, "Refuse" \notin p.wrong,
         NEW d, d = queue_command(c, 1)
  PROVE  /\ d \in ClientType /\ d.state = "Sending"
         /\ InStep(d, p) /\ Caught(d, p) /\ InOrder(d, p, t)
         /\ d.data_frames = c.data_frames /\ d.last_timestamp = c.last_timestamp
<1>1. d = [c EXCEPT !.state = "Sending", !.step = 1, !.written = 0]
  BY DEF queue_command
<1>2. d \in ClientType
  <2>1. "Sending" \in {"Sending", "Awaiting", "Streaming"} /\ 1 \in Nat /\ 0 \in Nat
    OBVIOUS
  <2>2. [c EXCEPT !.state = "Sending", !.step = 1, !.written = 0] \in ClientType
    BY <2>1, CommandType, Zenon
  <2> QED BY <1>1, <2>2
<1>3. /\ d.state = "Sending" /\ d.step = 1 /\ d.written = 0 /\ d.failed = c.failed
      /\ d.data_frames = c.data_frames /\ d.last_timestamp = c.last_timestamp
      /\ d.configuration = c.configuration
  BY <1>1 DEF ClientType
<1>4. InStep(d, p)
  BY <1>3, ScriptFacts DEF InStep
<1>5. Caught(d, p)
  BY <1>3 DEF Caught
<1>6. Counted(d) = Counted(c)
  BY <1>3 DEF Counted
<1>7. InOrder(d, p, t)
  BY <1>3, <1>6 DEF InOrder
<1> QED BY <1>2, <1>3, <1>4, <1>5, <1>7

(* A write sends a part of the command or the rest of it.                  *)
LEMMA CommandWritten ==
  ASSUME NEW c \in ClientType, NEW p \in PeerType, NEW t \in Nat, NEW count \in 1..2,
         InStep(c, p), Caught(c, p), InOrder(c, p, t), c.state = "Sending",
         NEW d, d = AfterWrite(c, count)
  PROVE  d \in ClientType /\ d.failed = FALSE /\ d.state # "Connecting" /\ WriteWell(c, p, d, t)
<1>1. /\ c.written \in Nat /\ c.written < 2 /\ p.asked = c.step - 1 /\ p.answered = p.asked
      /\ p.sending = <<>> /\ c.failed = FALSE /\ c.step \in 1..StartStep /\ p.connected = TRUE
      /\ c.data_frames = 0 /\ c.last_timestamp = None /\ (c.step = Len(Script) => c.configuration = 1)
      /\ c.step \in Nat
  BY DEF InStep, ClientType
<1>c. "Refuse" \notin p.wrong /\ "Silent" \notin p.wrong /\ p.wrong \cap Lies = {}
      /\ (p.closed = TRUE => "Close" \in p.wrong)
  BY DEF Caught
<1>2. CASE c.written + count < 2
  <2>1. d = [c EXCEPT !.written = c.written + count]
    BY <1>2 DEF AfterWrite
  <2>2. /\ d.state = "Sending" /\ d.step = c.step /\ d.written = c.written + count
        /\ d.failed = FALSE /\ d.configuration = c.configuration
        /\ d.data_frames = c.data_frames /\ d.last_timestamp = c.last_timestamp
    BY <2>1, <1>1 DEF ClientType
  <2>3. c.written + count \in Nat /\ d \in ClientType
    <3>1. c.written + count \in Nat
      BY <1>1
    <3> QED BY <2>1, <3>1 DEF ClientType
  <2>4. AskedFor(d, p) = p
    BY <2>2 DEF AskedFor, Sent, PeerType
  <2>5. InStep(d, p)
    BY <2>2, <1>1, <1>2 DEF InStep
  <2>6. Caught(d, p)
    BY <2>2, <1>c DEF Caught
  <2>7. InOrder(d, p, t)
    <3>1. Counted(d) = Counted(c)
      BY <2>2 DEF Counted
    <3> QED BY <2>2, <3>1 DEF InOrder
  <2> QED BY <2>2, <2>3, <2>4, <2>5, <2>6, <2>7 DEF WriteWell
<1>3. CASE ~(c.written + count < 2)
  <2> DEFINE next == IF c.step = StartStep THEN "Streaming" ELSE "Awaiting"
             q == AskedFor(d, p)
  <2>1. d = [c EXCEPT !.written = 2, !.state = next]
    BY <1>3 DEF AfterWrite
  <2>2. /\ d.state = next /\ d.step = c.step /\ d.written = 2
        /\ d.failed = FALSE /\ d.configuration = c.configuration
        /\ d.data_frames = c.data_frames /\ d.last_timestamp = c.last_timestamp
    BY <2>1, <1>1 DEF ClientType
  <2>3. d \in ClientType
    <3>1. next \in {"Sending", "Awaiting", "Streaming"} /\ 1 \in Nat /\ 2 \in Nat
      OBVIOUS
    <3> HIDE DEF next
    <3>2. [c EXCEPT !.written = 2, !.state = next] \in ClientType
      BY <3>1, CommandType, Zenon
    <3> QED BY <2>1, <3>2
  <2>4. Sent(d)
    BY <2>2 DEF Sent
  <2>5. q = [p EXCEPT !.asked = c.step]
    BY <2>2, <2>4 DEF AskedFor
  <2>6. /\ q.sending = p.sending /\ q.asked = c.step /\ q.answered = p.answered
        /\ q.connected = p.connected
        /\ q.wrong = p.wrong /\ q.skipped = p.skipped /\ q.closed = p.closed
    BY <2>5 DEF PeerType
  <2> HIDE DEF q
  <2>7. Len(q.sending) = 0
    BY <1>1, <2>6
  <2>8. InStep(d, q)
    <3>1. CASE c.step = StartStep
      BY <3>1, <2>2, <2>6, <1>1, ScriptFacts DEF InStep
    <3>2. CASE c.step # StartStep
      <4>1. c.step <= Len(Script) /\ d.state = "Awaiting"
        BY <3>2, <2>2, <1>1, ScriptFacts
      <4> HIDE DEF next
      <4> QED BY <4>1, <2>2, <2>6, <1>1, ScriptFacts DEF InStep
    <3> QED BY <3>1, <3>2
  <2>9. Caught(d, q)
    BY <2>2, <2>6, <1>1, <1>c DEF Caught
  <2>10. InOrder(d, q, t)
    <3>1. Counted(d) = Counted(c)
      BY <2>2 DEF Counted
    <3> QED BY <2>2, <2>6, <2>7, <3>1, <1>1 DEF InOrder
  <2>11. d.state # "Connecting"
    BY <2>2
  <2> QED BY <2>2, <2>3, <2>8, <2>9, <2>10, <2>11 DEF WriteWell, q
<1> QED BY <1>2, <1>3

(* A writable event keeps client and endpoint in step.                     *)
LEMMA WriteStep ==
  ASSUME NEW e, NEW c \in ClientType, NEW p \in PeerType, p = peer[e], NEW t \in Nat, NEW count \in 1..2,
         InStep(c, p), Caught(c, p), InOrder(c, p, t), p.connected = TRUE,
         NEW d, d = Written(e, c, count)
  PROVE  /\ d \in ClientType
         /\ d.failed = TRUE => p.wrong # {}
         /\ d.failed = FALSE => WriteWell(c, p, d, t) /\ d.state # "Connecting"
<1>1. CASE "Refuse" \in p.wrong
  <2>1. d = [c EXCEPT !.failed = TRUE]
    BY <1>1 DEF Written, IsWrong
  <2>2. d \in ClientType /\ d.failed = TRUE
    BY <2>1 DEF ClientType
  <2> QED BY <1>1, <2>2
<1>2. CASE "Refuse" \notin p.wrong /\ c.state = "Connecting"
  <2> DEFINE b == queue_command(c, 1)
  <2>1. /\ b \in ClientType /\ b.state = "Sending"
        /\ InStep(b, p) /\ Caught(b, p) /\ InOrder(b, p, t)
        /\ b.data_frames = c.data_frames /\ b.last_timestamp = c.last_timestamp
    BY <1>2, FirstCommand
  <2>2. d = IF b.state = "Sending" THEN AfterWrite(b, count) ELSE b
    BY <1>2 DEF Written, IsWrong
  <2> HIDE DEF b
  <2>3. d = AfterWrite(b, count)
    BY <2>1, <2>2
  <2>4. d \in ClientType /\ d.failed = FALSE /\ d.state # "Connecting" /\ WriteWell(b, p, d, t)
    BY <2>1, <2>3, CommandWritten, ZenonT(60)
  <2> QED BY <1>2, <2>1, <2>4 DEF WriteWell
<1>3. CASE "Refuse" \notin p.wrong /\ c.state = "Sending"
  <2>1. d = AfterWrite(c, count)
    BY <1>3 DEF Written, IsWrong
  <2> QED BY <1>3, <2>1, CommandWritten, ZenonT(60)
<1>4. CASE "Refuse" \notin p.wrong /\ c.state \notin {"Connecting", "Sending"}
  <2>1. d = c
    BY <1>4 DEF Written, IsWrong
  <2>2. c.failed = FALSE
    BY DEF InStep
  <2> QED BY <1>4, <2>1, <2>2, NothingWritten
<1> QED BY <1>1, <1>2, <1>3, <1>4

(* The types of one endpoint's state.                                      *)
LEMMA TypesAt ==
  ASSUME ProbeTypeOK, NEW e \in Endpoints
  PROVE  client[e] \in ClientType /\ peer[e] \in PeerType /\ arrived[e] \in Nat
         /\ peer[e].sending \in Seq(FrameSent) /\ Len(peer[e].sending) \in Nat
<1>1. client[e] \in ClientType /\ peer[e] \in PeerType /\ arrived[e] \in Nat
  BY DEF ProbeTypeOK
<1> QED BY <1>1 DEF PeerType

(* The assumptions on the constants, in the form the arithmetic needs.     *)
LEMMA ConstantFacts ==
  /\ Endpoints # {}
  /\ HANDSHAKE_TIMEOUT \in Nat /\ DURATION \in Nat /\ MAX_LAG \in Nat /\ MAX_TIME \in Nat
  /\ CAPACITY \in Nat /\ Minimum \in Int
  /\ HANDSHAKE_TIMEOUT > 2 * MAX_LAG + 1
  /\ CAPACITY > 2 * (MAX_LAG + 1)
  /\ Minimum + MAX_LAG <= DURATION
BY ProbeAssumption, LatenessAssumption DEF Minimum

(* A frame arrives in two halves.                                          *)
LEMMA HalfFacts ==
  ASSUME NEW a \in Nat
  PROVE  a \div 2 \in Nat /\ 2 * (a \div 2) <= a /\ a <= 2 * (a \div 2) + 1
OBVIOUS

(* What one event does to the client and the endpoint it is about.         *)
EventDone(v, e) ==
  /\ InStep(client'[e], peer'[e]) /\ Caught(client'[e], peer'[e])
  /\ InOrder(client'[e], peer'[e], now)
  /\ arrived'[e] <= 2 * Len(peer'[e].sending)
  /\ v.readable = TRUE => arrived'[e] <= 1
  /\ arrived'[e] <= arrived[e]
  /\ Len(peer'[e].sending) <= Len(peer[e].sending)
  /\ client'[e].state = "Connecting" => client[e].state = "Connecting" /\ v.writable = FALSE
  /\ client[e].state = "Streaming" => client'[e].state = "Streaming"
  /\ client'[e].data_frames >= client[e].data_frames
  /\ client[e].state = "Streaming" /\ peer[e].sending # <<>> =>
       client'[e].data_frames > 0 \/ peer'[e].sending # <<>>
  /\ client[e].last_timestamp # None =>
       client'[e].last_timestamp - client'[e].data_frames
         = client[e].last_timestamp - client[e].data_frames

(* One event of a batch: its client fails because of its endpoint, or both *)
(* stay in step.                                                           *)
LEMMA EventStep ==
  ASSUME ProbeTypeOK, Underway, NEW v \in batch, NEW count \in 1..2, HandleEvent(v, count),
         NEW e, e = v.endpoint
  PROVE  /\ e \in Endpoints
         /\ client'[e] \in ClientType /\ peer'[e] \in PeerType /\ arrived'[e] \in Nat
         /\ client' = [client EXCEPT ![e] = client'[e]]
         /\ peer' = [peer EXCEPT ![e] = peer'[e]]
         /\ arrived' = [arrived EXCEPT ![e] = arrived'[e]]
         /\ writable \subseteq writable' /\ writable' \subseteq writable \cup {e}
         /\ client'[e].state # "Sending" => writable' = writable
         /\ peer'[e].wrong = peer[e].wrong /\ peer'[e].connected = peer[e].connected
         /\ verdict' = IF client'[e].failed = TRUE THEN "failed" ELSE verdict
         /\ client'[e].failed = TRUE => peer[e].wrong # {}
         /\ client'[e].failed = FALSE => EventDone(v, e)
<1>1. e \in Endpoints /\ v \in EventType
  BY DEF ProbeTypeOK, EventType
<1> DEFINE b == client[e]
           p == peer[e]
           a == arrived[e]
           w == a \div 2
           s == p.sending
           c == IF v.writable THEN Written(e, b, count) ELSE b
           d == IF v.readable /\ ~c.failed THEN Read(e, c) ELSE c
           q == AskedFor(c, p)
           reads == v.readable /\ ~d.failed
<1>2. /\ b \in ClientType /\ p \in PeerType /\ a \in Nat /\ s \in Seq(FrameSent) /\ Len(s) \in Nat
  BY <1>1, TypesAt
<1>3. w \in Nat /\ 2 * w <= a /\ a <= 2 * w + 1
  BY <1>2, HalfFacts
<1>4. /\ InStep(b, p) /\ Caught(b, p) /\ InOrder(b, p, now)
      /\ a <= 2 * Len(s) /\ Len(s) <= lag + 1
      /\ b.state = "Connecting" /\ p.connected = FALSE => ~WritePending(e)
  BY <1>1 DEF Underway, Promised
<1>5. w \in 0..Len(s)
  BY <1>2, <1>3, <1>4, SMTT(40)
<1>6. now \in Nat /\ lag \in Nat /\ lag <= MAX_LAG /\ v.writable \in BOOLEAN /\ v.readable \in BOOLEAN
  BY <1>1 DEF ProbeTypeOK, EventType
<1>7. WholeFrames(e) = SubSeq(s, 1, w) /\ Len(WholeFrames(e)) = w
  <2>1. WholeFrames(e) = SubSeq(s, 1, w)
    BY DEF WholeFrames
  <2>2. Len(SubSeq(s, 1, w)) = w
    BY <1>2, <1>5, CutFacts
  <2> QED BY <2>1, <2>2
<1>8. /\ batch' = batch \ {v}
      /\ client' = [client EXCEPT ![e] = d]
      /\ verdict' = IF d.failed THEN "failed" ELSE verdict
      /\ writable' = IF d.state = "Sending" /\ c.state # "Sending" THEN writable \cup {e} ELSE writable
      /\ arrived' = IF reads THEN [arrived EXCEPT ![e] = @ - 2 * Len(WholeFrames(e))] ELSE arrived
      /\ peer' = [peer EXCEPT ![e].asked = IF c.written = 2 /\ c.state \in {"Awaiting", "Streaming"} THEN c.step ELSE @,
                              ![e].sending = IF reads THEN SubSeq(@, Len(WholeFrames(e)) + 1, Len(@)) ELSE @]
  BY DEF HandleEvent
<1> HIDE DEF b, p, a, w, s, c, d, reads
<1>9. /\ c \in ClientType
      /\ c.failed = TRUE => p.wrong # {}
      /\ c.failed = FALSE => WriteWell(b, p, c, now) /\ (c.state = "Connecting" => v.writable = FALSE)
  <2>1. CASE v.writable = TRUE
    <3>1. c = Written(e, b, count)
      BY <2>1 DEF c
    <3>2. WritePending(e)
      BY <2>1 DEF WritePending
    <3>3. p.connected = TRUE
      <4>1. b.state # "Connecting" => p.connected = TRUE
        BY <1>4 DEF InStep
      <4>2. p.connected \in BOOLEAN
        BY <1>2 DEF PeerType
      <4> QED BY <4>1, <4>2, <3>2, <1>4
    <3>4. p = peer[e]
      BY DEF p
    <3> QED BY <1>2, <1>4, <1>6, <3>1, <3>3, <3>4, WriteStep
  <2>2. CASE v.writable = FALSE
    <3>1. c = b
      BY <2>2 DEF c
    <3>2. b.failed = FALSE
      BY <1>4 DEF InStep
    <3> QED BY <1>2, <1>4, <1>6, <2>2, <3>1, <3>2, NothingWritten
  <2> QED BY <1>6, <2>1, <2>2
<1>10. q \in PeerType /\ q.sending = s /\ q.wrong = p.wrong /\ q.connected = p.connected
       /\ q.closed = p.closed
  <2>1. c.step \in Nat /\ p.asked \in Nat
    BY <1>2, <1>9 DEF ClientType, PeerType
  <2>2. (IF Sent(c) THEN c.step ELSE p.asked) \in Nat
    BY <2>1
  <2> QED BY <1>2, <2>2 DEF AskedFor, PeerType, s
<1> DEFINE rest == SubSeq(s, w + 1, Len(s))
           r == [q EXCEPT !.sending = SubSeq(s, w + 1, Len(s))]
<1>11. rest \in Seq(FrameSent) /\ Len(rest) = Len(s) - w /\ (w = 0 => rest = s)
  <2>1. rest \in Seq(FrameSent)
    BY <1>2, <1>5, CutFacts
  <2>2. Len(rest) = Len(s) - w
    BY <1>2, <1>5, CutFacts
  <2>3. w = 0 => rest = s
    BY <1>2, <1>5, CutFacts
  <2> QED BY <2>1, <2>2, <2>3
<1>12. r \in PeerType /\ r.sending = rest /\ r.wrong = p.wrong /\ r.connected = p.connected
  BY <1>10, <1>11 DEF PeerType
<1>13. peer' = [peer EXCEPT ![e] = IF reads THEN r ELSE q]
  <2> DEFINE z ==
        [p EXCEPT !.asked = IF c.written = 2 /\ c.state \in {"Awaiting", "Streaming"} THEN c.step ELSE p.asked,
                  !.sending = IF reads THEN SubSeq(p.sending, Len(WholeFrames(e)) + 1, Len(p.sending)) ELSE p.sending]
  <2>1. (IF reads THEN r ELSE q) = z
    <3>1. CASE reads
      BY <3>1, <1>7, <1>2 DEF AskedFor, Sent, s, PeerType
    <3>2. CASE ~reads
      BY <3>2, <1>2 DEF AskedFor, Sent, PeerType
    <3> QED BY <3>1, <3>2
  <2>2. peer' = [peer EXCEPT ![e] = z]
    BY <1>8, <1>1 DEF p, ProbeTypeOK
  <2> HIDE DEF z, r, q
  <2> QED BY <2>1, <2>2
<1>14. peer'[e] = IF reads THEN r ELSE q
  BY <1>1, <1>13 DEF ProbeTypeOK
<1>15. client'[e] = d
  BY <1>1, <1>8 DEF ProbeTypeOK
<1>16. arrived'[e] = IF reads THEN a - 2 * w ELSE a
  BY <1>1, <1>7, <1>8 DEF ProbeTypeOK, a
<1> HIDE DEF q, r, rest
<1>17. /\ d \in ClientType
       /\ d.failed = TRUE => p.wrong # {}
       /\ d.failed = FALSE /\ v.readable = FALSE => d = c /\ c.failed = FALSE
       /\ d.failed = FALSE /\ v.readable = TRUE => ReadWell(c, q, d, r, now, w) /\ c.failed = FALSE
  <2>1. CASE c.failed = TRUE
    <3>1. d = c
      BY <2>1 DEF d
    <3> QED BY <1>9, <2>1, <3>1
  <2>2. CASE c.failed = FALSE /\ v.readable = FALSE
    <3>1. d = c
      BY <2>2 DEF d
    <3> QED BY <1>9, <2>2, <3>1
  <2>3. CASE c.failed = FALSE /\ v.readable = TRUE
    <3>1. d = Read(e, c)
      BY <2>3 DEF d
    <3>2. ~IsFull(e)
      <4>1. a <= 2 * Len(s) /\ Len(s) <= lag + 1 /\ lag <= MAX_LAG
        BY <1>4, <1>6
      <4>2. Len(s) \in Nat /\ a \in Nat /\ lag \in Nat
        BY <1>2, <1>6
      <4>3. CAPACITY \in Nat /\ MAX_LAG \in Nat /\ CAPACITY > 2 * (MAX_LAG + 1)
        BY ConstantFacts
      <4> HIDE DEF a, s
      <4>4. a < CAPACITY
        BY <4>1, <4>2, <4>3, SMTT(40)
      <4> QED BY <4>2, <4>3, <4>4 DEF IsFull, a
    <3>3. CASE peer[e].closed /\ InFlight(e) = 0
      <4>1. d = [c EXCEPT !.failed = TRUE]
        BY <3>1, <3>3 DEF Read
      <4>2. d \in ClientType /\ d.failed = TRUE
        BY <4>1, <1>9 DEF ClientType
      <4>3. p.closed = TRUE
        BY <3>3, <1>2 DEF p, PeerType
      <4>4. "Close" \in p.wrong
        BY <4>3, <1>4 DEF Caught
      <4> QED BY <2>3, <4>2, <4>4
    <3>4. CASE ~(peer[e].closed /\ InFlight(e) = 0)
      <4> DEFINE frames == SubSeq(q.sending, 1, w)
      <4>1. d = Handled(c, frames)[Len(frames)]
        BY <3>1, <3>2, <3>4, <1>7, <1>10 DEF Read
      <4>2. r = [q EXCEPT !.sending = SubSeq(q.sending, w + 1, Len(q.sending))]
        BY <1>10 DEF r
      <4>3. InStep(c, q) /\ Caught(c, q) /\ InOrder(c, q, now)
        BY <1>9, <2>3 DEF WriteWell, q
      <4>4. w \in 0..Len(q.sending)
        BY <1>5, <1>10
      <4> HIDE DEF frames
      <4>5. frames = SubSeq(q.sending, 1, w)
        BY DEF frames
      <4>6. /\ d \in ClientType
            /\ d.failed = TRUE => q.wrong # {}
            /\ d.failed = FALSE => ReadWell(c, q, d, r, now, w)
        BY <1>6, <1>9, <1>10, <4>1, <4>2, <4>3, <4>4, <4>5, ReadStep
      <4> QED BY <2>3, <4>6, <1>10
    <3> QED BY <3>3, <3>4
  <2>4. c.failed \in BOOLEAN
    BY <1>9 DEF ClientType
  <2> QED BY <2>1, <2>2, <2>3, <2>4, <1>6
<1>18. d.failed \in BOOLEAN /\ (reads <=> v.readable = TRUE /\ d.failed = FALSE)
  BY <1>17, <1>6 DEF reads, ClientType
<1>19. arrived'[e] \in Nat
  BY <1>16, <1>2, <1>3
<1>20. peer'[e] \in PeerType /\ peer'[e].wrong = p.wrong /\ peer'[e].connected = p.connected
  BY <1>14, <1>10, <1>12
<1>21. ASSUME d.failed = FALSE PROVE EventDone(v, e)
  <2>t. /\ b.data_frames \in Nat /\ b.last_timestamp \in Nat /\ d.data_frames \in Nat
        /\ d.last_timestamp \in Nat /\ c.data_frames \in Nat /\ c.last_timestamp \in Nat
    BY <1>2, <1>9, <1>17 DEF ClientType
  <2>w. /\ c.failed = FALSE /\ c.data_frames = b.data_frames /\ c.last_timestamp = b.last_timestamp
        /\ b.state = "Streaming" => c.state = "Streaming"
        /\ c.state = "Connecting" => b.state = "Connecting" /\ v.writable = FALSE
        /\ b.last_timestamp # None => b.state = "Streaming"
        /\ InStep(c, q) /\ Caught(c, q) /\ InOrder(c, q, now)
    BY <1>4, <1>9, <1>17, <1>21, <1>6 DEF WriteWell, q, InStep
  <2>1. CASE v.readable = FALSE
    <3>1. d = c /\ peer'[e] = q /\ arrived'[e] = a
      BY <1>14, <1>16, <1>17, <1>18, <1>21, <2>1
    <3>2. Len(peer'[e].sending) = Len(s) /\ peer'[e].sending = s
      BY <3>1, <1>10
    <3> QED BY <2>t, <2>w, <2>1, <3>1, <3>2, <1>2, <1>4, <1>15 DEF EventDone, a, b, p, s
  <2>2. CASE v.readable = TRUE
    <3>1. ReadWell(c, q, d, r, now, w) /\ peer'[e] = r /\ arrived'[e] = a - 2 * w
      BY <1>14, <1>16, <1>17, <1>18, <1>21, <2>2
    <3>2. peer'[e].sending = rest /\ Len(peer'[e].sending) = Len(s) - w
      BY <3>1, <1>11, <1>12
    <3>3. /\ InStep(d, r) /\ Caught(d, r) /\ InOrder(d, r, now)
          /\ d.state = "Streaming" <=> c.state = "Streaming"
          /\ d.state = "Connecting" => c.state = "Connecting"
          /\ d.data_frames >= c.data_frames
          /\ c.state = "Streaming" => d.data_frames = c.data_frames + w
          /\ c.state = "Streaming" /\ c.last_timestamp # None => d.last_timestamp = c.last_timestamp + w
      BY <3>1 DEF ReadWell
    <3>4. arrived'[e] <= 1 /\ arrived'[e] <= 2 * Len(peer'[e].sending) /\ arrived'[e] <= a
          /\ Len(peer'[e].sending) <= Len(s)
      BY <3>1, <3>2, <1>2, <1>3, <1>4, <1>5
    <3>5. b.state = "Streaming" /\ s # <<>> => d.data_frames > 0 \/ peer'[e].sending # <<>>
      <4>1. CASE w = 0
        BY <4>1, <3>2, <1>11
      <4>2. CASE w # 0
        BY <4>2, <3>3, <2>w, <2>t, <1>3
      <4> QED BY <4>1, <4>2
    <3>6. b.last_timestamp # None => d.last_timestamp - d.data_frames = b.last_timestamp - b.data_frames
      <4> SUFFICES ASSUME b.last_timestamp # None PROVE d.last_timestamp - d.data_frames = b.last_timestamp - b.data_frames
        OBVIOUS
      <4>1. d.last_timestamp = b.last_timestamp + w /\ d.data_frames = b.data_frames + w
        BY <2>w, <3>3
      <4> QED BY <4>1, <2>t, <1>3
    <3> QED BY <2>w, <3>1, <3>3, <3>4, <3>5, <3>6, <1>15 DEF EventDone, a, b, p, s
  <2> QED BY <2>1, <2>2, <1>6
<1>22. client' = [client EXCEPT ![e] = client'[e]] /\ peer' = [peer EXCEPT ![e] = peer'[e]]
  BY <1>8, <1>13, <1>14, <1>15
<1>23. arrived' = [arrived EXCEPT ![e] = arrived'[e]]
  <2>1. CASE reads
    BY <2>1, <1>8, <1>1 DEF ProbeTypeOK
  <2>2. CASE ~reads
    BY <2>2, <1>8, <1>1 DEF ProbeTypeOK
  <2> QED BY <2>1, <2>2
<1>24. verdict' = IF client'[e].failed = TRUE THEN "failed" ELSE verdict
  BY <1>8, <1>15, <1>18
<1>25. /\ writable \subseteq writable' /\ writable' \subseteq writable \cup {e}
       /\ client'[e].state # "Sending" => writable' = writable
  BY <1>8, <1>15
<1> QED BY <1>1, <1>15, <1>17, <1>19, <1>20, <1>21, <1>22, <1>23, <1>24, <1>25 DEF p

(* What holds of every endpoint while the probe runs.                      *)
Local(e) ==
  /\ InStep(client[e], peer[e]) /\ Caught(client[e], peer[e])
  /\ InOrder(client[e], peer[e], now) /\ Promised(e)

(* A move of the network or of an endpoint that keeps its own connection in*)
(* order keeps the whole invariant.                                        *)
LEMMA EndpointMoves ==
  ASSUME ProbeTypeOK, Underway, UNCHANGED <<client, loopVars, now, lag>>,
         NEW e \in Endpoints, NEW q \in PeerType, peer' = [peer EXCEPT ![e] = q],
         arrived' \in [Endpoints -> Nat],
         readable' \in SUBSET Endpoints, writable' \in SUBSET Endpoints,
         \A f \in Endpoints \ {e} :
           /\ arrived'[f] = arrived[f]
           /\ f \in readable' <=> f \in readable
           /\ f \in writable' <=> f \in writable,
         peer[e].wrong \subseteq q.wrong, peer[e].sending # <<>> => q.sending # <<>>,
         InStep(client[e], q), Caught(client[e], q), InOrder(client[e], q, now), Promised(e)'
  PROVE  ProbeTypeOK' /\ Underway'
<1>1. peer'[e] = q /\ \A f \in Endpoints \ {e} : peer'[f] = peer[f]
  BY DEF ProbeTypeOK
<1>2. peer' \in [Endpoints -> PeerType]
  BY DEF ProbeTypeOK
<1>3. ProbeTypeOK'
  BY <1>2 DEF ProbeTypeOK, loopVars
<1>4. ASSUME NEW f \in Endpoints
      PROVE  /\ InStep(client[f], peer[f])' /\ Caught(client[f], peer[f])'
             /\ InOrder(client[f], peer[f], now)' /\ Promised(f)'
  <2>1. CASE f = e
    BY <1>1, <2>1
  <2>2. CASE f # e
    <3>1. peer'[f] = peer[f] /\ arrived'[f] = arrived[f] /\ client'[f] = client[f]
      BY <1>1, <2>2
    <3>2. /\ InStep(client[f], peer[f]) /\ Caught(client[f], peer[f])
          /\ InOrder(client[f], peer[f], now) /\ Promised(f)
      BY DEF Underway
    <3>3. (ReadPending(f) <=> ReadPending(f)') /\ (WritePending(f) <=> WritePending(f)')
      BY <2>2 DEF ReadPending, WritePending, loopVars
    <3>4. Promised(f)'
      BY <3>1, <3>2, <3>3 DEF Promised
    <3> QED BY <3>1, <3>2, <3>4
  <2> QED BY <2>1, <2>2
<1>5. \A f \in Endpoints : (peer'[f].wrong = {} => peer[f].wrong = {})
                           /\ (peer[f].sending # <<>> => peer'[f].sending # <<>>)
  BY <1>1
<1>6. HandshakeInTime'
  BY <1>5 DEF HandshakeInTime, AllSound, Underway
<1>7. TurnInOrder'
  BY DEF TurnInOrder, Underway, loopVars
<1>8. CountedSinceStart'
  BY <1>5 DEF CountedSinceStart, Underway, loopVars
<1> QED BY <1>3, <1>4, <1>6, <1>7, <1>8 DEF Underway

(* An endpoint that accepts its connection, or refuses it.                 *)
LEMMA ConnectsStep ==
  ASSUME ProbeTypeOK, Underway, NEW e \in Endpoints, Connects(e)
  PROVE  ProbeTypeOK' /\ Underway'
<1> DEFINE p == peer[e]
           c == client[e]
<1>1. c \in ClientType /\ p \in PeerType /\ Local(e)
  BY TypesAt DEF Underway, Local
<1>2. PICK q \in {[p EXCEPT !.connected = TRUE],
                  [p EXCEPT !.connected = TRUE, !.wrong = @ \cup {"Refuse"}]} :
        peer' = [peer EXCEPT ![e] = q]
  <2>1. CASE peer' = [peer EXCEPT ![e].connected = TRUE]
    BY <2>1
  <2>2. CASE peer' = [peer EXCEPT ![e].connected = TRUE, ![e].wrong = @ \cup {"Refuse"}]
    <3>1. peer' = [peer EXCEPT ![e] = [p EXCEPT !.connected = TRUE, !.wrong = @ \cup {"Refuse"}]]
      BY <2>2 DEF ProbeTypeOK
    <3> QED BY <3>1
  <2> QED BY <2>1, <2>2 DEF Connects
<1>3. /\ q \in PeerType /\ q.connected = TRUE /\ q.asked = p.asked /\ q.answered = p.answered
      /\ q.sending = p.sending /\ q.closed = p.closed /\ q.skipped = p.skipped
      /\ q.wrong \in {p.wrong, p.wrong \cup {"Refuse"}}
  BY <1>1, <1>2 DEF PeerType, FaultKinds
<1>4. /\ writable' = writable \cup {e} /\ p.connected = FALSE
      /\ UNCHANGED <<client, readable, arrived, loopVars, now, lag>>
  BY <1>1 DEF Connects, PeerType
<1> HIDE DEF p, c
<1>5. c.state = "Connecting" /\ InStep(c, p) /\ Caught(c, p) /\ InOrder(c, p, now) /\ Promised(e)
  BY <1>1, <1>4 DEF Local, InStep, c, p
<1>6. InStep(c, q)
  BY <1>3, <1>5 DEF InStep
<1>7. Caught(c, q)
  BY <1>3, <1>5 DEF Caught, Lies
<1>8. InOrder(c, q, now)
  BY <1>3, <1>5, <1>6 DEF InOrder, InStep
<1>9. peer'[e] = q
  BY <1>2 DEF ProbeTypeOK
<1>10. WritePending(e)'
  BY <1>4 DEF WritePending
<1>11. ReadPending(e)' <=> ReadPending(e)
  BY <1>4 DEF ReadPending, loopVars
<1>12. Promised(e)'
  BY <1>3, <1>4, <1>5, <1>9, <1>10, <1>11 DEF Promised, p
<1>13. /\ arrived' \in [Endpoints -> Nat]
       /\ readable' \in SUBSET Endpoints /\ writable' \in SUBSET Endpoints
       /\ \A f \in Endpoints \ {e} :
           /\ arrived'[f] = arrived[f]
           /\ f \in readable' <=> f \in readable
           /\ f \in writable' <=> f \in writable
  BY <1>4 DEF ProbeTypeOK
<1>14. UNCHANGED <<client, loopVars, now, lag>>
  BY <1>4
<1>15. p.wrong \subseteq q.wrong /\ (p.sending # <<>> => q.sending # <<>>)
  BY <1>3
<1> QED BY <1>2, <1>3, <1>6, <1>7, <1>8, <1>12, <1>13, <1>14, <1>15, EndpointMoves DEF p, c

(* An endpoint that closes its connection.                                 *)
LEMMA ClosesStep ==
  ASSUME ProbeTypeOK, Underway, NEW e \in Endpoints, Closes(e)
  PROVE  ProbeTypeOK' /\ Underway'
<1> DEFINE p == peer[e]
           c == client[e]
           q == [p EXCEPT !.closed = TRUE, !.wrong = p.wrong \cup {"Close"}]
<1>1. c \in ClientType /\ p \in PeerType /\ Local(e)
  BY TypesAt DEF Underway, Local
<1>2. peer' = [peer EXCEPT ![e] = q]
  BY DEF Closes, ProbeTypeOK
<1>3. /\ q \in PeerType /\ q.connected = p.connected /\ q.asked = p.asked /\ q.answered = p.answered
      /\ q.sending = p.sending /\ q.skipped = p.skipped
      /\ q.wrong = p.wrong \cup {"Close"}
  BY <1>1 DEF PeerType, FaultKinds
<1>4. /\ readable' = readable \cup {e}
      /\ UNCHANGED <<client, writable, arrived, loopVars, now, lag>>
  BY DEF Closes
<1> HIDE DEF p, c, q
<1>5. InStep(c, p) /\ Caught(c, p) /\ InOrder(c, p, now) /\ Promised(e)
  BY <1>1 DEF Local, c, p
<1>6. InStep(c, q)
  BY <1>3, <1>5 DEF InStep
<1>7. Caught(c, q)
  BY <1>3, <1>5 DEF Caught, Lies
<1>8. InOrder(c, q, now)
  BY <1>3, <1>5 DEF InOrder
<1>9. peer'[e] = q
  BY <1>2 DEF ProbeTypeOK
<1>10. ReadPending(e)'
  BY <1>4 DEF ReadPending
<1>11. WritePending(e)' <=> WritePending(e)
  BY <1>4 DEF WritePending, loopVars
<1>12. Promised(e)'
  BY <1>3, <1>4, <1>5, <1>9, <1>10, <1>11 DEF Promised, p
<1>13. /\ arrived' \in [Endpoints -> Nat]
       /\ readable' \in SUBSET Endpoints /\ writable' \in SUBSET Endpoints
       /\ \A f \in Endpoints \ {e} :
           /\ arrived'[f] = arrived[f]
           /\ f \in readable' <=> f \in readable
           /\ f \in writable' <=> f \in writable
  BY <1>4 DEF ProbeTypeOK
<1>14. UNCHANGED <<client, loopVars, now, lag>>
  BY <1>4
<1>15. p.wrong \subseteq q.wrong /\ (p.sending # <<>> => q.sending # <<>>)
  BY <1>3
<1> QED BY <1>2, <1>3, <1>6, <1>7, <1>8, <1>12, <1>13, <1>14, <1>15, EndpointMoves DEF p, c

(* A segment that arrives.                                                 *)
LEMMA DeliveryStep ==
  ASSUME ProbeTypeOK, Underway, NEW e \in Endpoints, Arrives(e) \/ Drains(e)
  PROVE  ProbeTypeOK' /\ Underway'
<1> DEFINE p == peer[e]
           c == client[e]
<1>1. c \in ClientType /\ p \in PeerType /\ Local(e) /\ arrived[e] \in Nat /\ Len(p.sending) \in Nat
  BY TypesAt DEF Underway, Local
<1>2. peer' = [peer EXCEPT ![e] = p] /\ peer' = peer
  BY DEF Arrives, Drains, ProbeTypeOK
<1>5. InStep(c, p) /\ Caught(c, p) /\ InOrder(c, p, now) /\ Promised(e)
  BY <1>1 DEF Local
<1>14. UNCHANGED <<client, loopVars, now, lag>>
  BY DEF Arrives, Drains
<1> HIDE DEF p, c
<1>3. CASE Arrives(e)
  <2>1. /\ arrived' = [arrived EXCEPT ![e] = arrived[e] + 1]
        /\ readable' = readable \cup {e} /\ writable' = writable
        /\ arrived[e] < 2 * Len(peer[e].sending)
    <3>1. 2 * Len(peer[e].sending) - arrived[e] > 0
      BY <1>3 DEF Arrives, InFlight
    <3> QED BY <1>1, <1>3, <3>1 DEF Arrives, p
  <2>2. /\ arrived' \in [Endpoints -> Nat] /\ arrived'[e] = arrived[e] + 1
        /\ readable' \in SUBSET Endpoints /\ writable' \in SUBSET Endpoints
        /\ \A f \in Endpoints \ {e} :
             /\ arrived'[f] = arrived[f]
             /\ f \in readable' <=> f \in readable
             /\ f \in writable' <=> f \in writable
    <3>1. arrived[e] + 1 \in Nat
      BY <1>1
    <3>2. arrived' \in [Endpoints -> Nat] /\ arrived'[e] = arrived[e] + 1
      BY <3>1, <2>1 DEF ProbeTypeOK
    <3>3. \A f \in Endpoints \ {e} : arrived'[f] = arrived[f]
      BY <2>1 DEF ProbeTypeOK
    <3>4. /\ readable' \in SUBSET Endpoints /\ writable' \in SUBSET Endpoints
          /\ \A f \in Endpoints \ {e} :
               /\ f \in readable' <=> f \in readable
               /\ f \in writable' <=> f \in writable
      BY <2>1 DEF ProbeTypeOK
    <3> QED BY <3>2, <3>3, <3>4
  <2>3. ReadPending(e)'
    BY <2>1 DEF ReadPending
  <2>4. WritePending(e)' <=> WritePending(e)
    BY <2>1, <1>14 DEF WritePending, loopVars
  <2>5. arrived'[e] <= 2 * Len(peer'[e].sending)
    BY <2>1, <2>2, <1>1, <1>2 DEF p
  <2>6. Promised(e)'
    BY <2>3, <2>4, <2>5, <1>2, <1>5, <1>14 DEF Promised
  <2> QED BY <1>1, <1>2, <1>5, <1>14, <2>2, <2>6, EndpointMoves DEF p, c
<1>4. CASE Drains(e)
  <2>1. /\ arrived' = arrived /\ writable' = writable \cup {e} /\ readable' = readable
        /\ client[e].state = "Sending"
    BY <1>4 DEF Drains
  <2>2. /\ arrived' \in [Endpoints -> Nat]
        /\ readable' \in SUBSET Endpoints /\ writable' \in SUBSET Endpoints
        /\ \A f \in Endpoints \ {e} :
             /\ arrived'[f] = arrived[f]
             /\ f \in readable' <=> f \in readable
             /\ f \in writable' <=> f \in writable
    BY <2>1 DEF ProbeTypeOK
  <2>3. ReadPending(e)' <=> ReadPending(e)
    BY <2>1, <1>14 DEF ReadPending, loopVars
  <2>4. Promised(e)'
    BY <2>1, <2>3, <1>2, <1>5, <1>14 DEF Promised
  <2> QED BY <1>1, <1>2, <1>5, <1>14, <2>2, <2>4, EndpointMoves DEF p, c
<1> QED BY <1>3, <1>4

(* An answer to a command, right, wrong or withheld.                       *)
LEMMA AnswersStep ==
  ASSUME ProbeTypeOK, Underway, NEW e \in Endpoints, Answers(e)
  PROVE  ProbeTypeOK' /\ Underway'
<1> DEFINE p == peer[e]
           c == client[e]
           k == p.answered + 1
<1>1. c \in ClientType /\ p \in PeerType /\ Local(e) /\ arrived[e] \in Nat /\ Len(p.sending) \in Nat
  BY TypesAt DEF Underway, Local
<1>2. InStep(c, p) /\ Caught(c, p) /\ InOrder(c, p, now) /\ Promised(e)
  BY <1>1 DEF Local
<1>3. k <= p.asked /\ k <= Len(Script) /\ "Silent" \notin p.wrong
  BY DEF Answers, IsWrong
<1>4. UNCHANGED <<clientVars, loopVars, now, lag>>
  BY DEF Answers
<1> DEFINE S(kind, value, w) ==
             [p EXCEPT !.answered = k, !.wrong = w,
                       !.sending = Append(p.sending, [kind |-> kind, value |-> value])]
           Right == S(Answer(k).kind, Answer(k).value, p.wrong)
           Wrongly(lie, kind, value) == S(kind, value, p.wrong \cup {lie})
           Mute == [p EXCEPT !.wrong = p.wrong \cup {"Silent"}]
<1>5. \/ peer' = [peer EXCEPT ![e] = Right]
      \/ peer' = [peer EXCEPT ![e] = Wrongly("Reject", "Error", None)]
      \/ peer' = [peer EXCEPT ![e] = Wrongly("Damage", "Damaged", None)]
      \/ k = Len(Script) /\ peer' = [peer EXCEPT ![e] = Wrongly("Disagree", Answer(k).kind, 2)]
      \/ peer' = [peer EXCEPT ![e] = Mute]
  <2>1. CASE peer' = [peer EXCEPT ![e] = Send([p EXCEPT !.answered = k], Answer(k).kind, Answer(k).value)]
    <3>1. Send([p EXCEPT !.answered = k], Answer(k).kind, Answer(k).value) = Right
      BY <1>1 DEF Send, PeerType
    <3> QED BY <2>1, <3>1
  <2> DEFINE wrongly(lie) == [[p EXCEPT !.answered = k] EXCEPT !.wrong = @ \cup {lie}]
  <2>3. CASE peer' = [peer EXCEPT ![e].wrong = @ \cup {"Silent"}]
    <3>1. peer' = [peer EXCEPT ![e] = Mute]
      BY <2>3 DEF ProbeTypeOK
    <3> QED BY <3>1
  <2>4. CASE \/ peer' = [peer EXCEPT ![e] = Send(wrongly("Reject"), "Error", None)]
             \/ peer' = [peer EXCEPT ![e] = Send(wrongly("Damage"), "Damaged", None)]
             \/ k = Len(Script) /\ peer' = [peer EXCEPT ![e] = Send(wrongly("Disagree"), Answer(k).kind, 2)]
    <3>1. Send(wrongly("Reject"), "Error", None) = Wrongly("Reject", "Error", None)
      BY <1>1 DEF Send, PeerType
    <3>2. Send(wrongly("Damage"), "Damaged", None) = Wrongly("Damage", "Damaged", None)
      BY <1>1 DEF Send, PeerType
    <3>3. Send(wrongly("Disagree"), Answer(k).kind, 2) = Wrongly("Disagree", Answer(k).kind, 2)
      BY <1>1 DEF Send, PeerType
    <3> HIDE DEF Wrongly, wrongly, k
    <3> QED BY <3>1, <3>2, <3>3, <2>4
  <2> QED BY <2>1, <2>3, <2>4 DEF Answers
<1>6. /\ c.state = "Awaiting" /\ c.step = k /\ p.asked = k /\ p.sending = <<>> /\ p.answered = k - 1
      /\ k \in Nat /\ 1 <= k /\ k \in 1..Len(Script)
      /\ p.wrong \cap Lies = {} /\ c.failed = FALSE /\ p.connected = TRUE
      /\ (c.step = Len(Script) => c.configuration = 1) /\ c.last_timestamp = None /\ c.written = 2
      /\ c.data_frames = 0
  <2>1. p.answered \in Nat /\ p.asked \in Nat /\ c.step \in Nat
    BY <1>1 DEF PeerType, ClientType
  <2>2. c.state = "Awaiting"
    BY <2>1, <1>1, <1>2, <1>3, ScriptFacts, SMTT(40) DEF InStep, ClientType
  <2>3. p.answered = c.step - 1 /\ p.sending = <<>> /\ p.asked = c.step
    BY <2>1, <2>2, <1>2, <1>3 DEF InStep
  <2>4. p.wrong \cap Lies = {}
    BY <2>1, <2>2, <2>3, <1>2 DEF Caught
  <2>5. c.step \in 1..StartStep /\ c.step = k
    BY <2>1, <2>3, <1>2 DEF InStep
  <2>6. k \in Nat /\ 1 <= k /\ k \in 1..Len(Script)
    BY <2>1, <2>5, <1>3, ScriptFacts
  <2> QED BY <2>2, <2>3, <2>4, <2>5, <2>6, <1>2 DEF InStep
<1>7. Script[k] \in FrameKinds /\ Script[k] \notin {"Error", "Damaged", "PeriodicData"}
  BY <1>6, ScriptFacts
<1>8. Answer(k) = [kind |-> Script[k], value |-> Answer(k).value] /\ Answer(k).value \in Nat
      /\ Answer(k).kind = Script[k]
  BY DEF Answer, None
<1> HIDE DEF p, c, k
<1>9. ASSUME NEW kind \in FrameKinds, NEW value \in Nat, NEW w \in SUBSET FaultKinds,
             p.wrong \subseteq w, NEW q, q = S(kind, value, w), peer' = [peer EXCEPT ![e] = q],
             Caught(c, q)
      PROVE  ProbeTypeOK' /\ Underway'
  <2> DEFINE f == [kind |-> kind, value |-> value]
  <2>1. f \in FrameSent
    BY DEF FrameSent
  <2> HIDE DEF f
  <2>2. Append(p.sending, f) = <<f>>
    BY <1>6
  <2>3. <<f>> \in Seq(FrameSent) /\ Len(<<f>>) = 1 /\ <<f>> # <<>>
    BY <2>1
  <2>4. q = [p EXCEPT !.answered = k, !.wrong = w, !.sending = <<f>>]
    BY <1>9, <2>2 DEF f
  <2>5. /\ q \in PeerType /\ q.connected = p.connected /\ q.asked = p.asked /\ q.answered = k
        /\ q.sending = <<f>> /\ q.skipped = p.skipped /\ q.wrong = w
    BY <1>1, <1>6, <2>3, <2>4 DEF PeerType
  <2>6. InStep(c, q)
    BY <1>2, <1>6, <2>3, <2>5 DEF InStep
  <2>7. InOrder(c, q, now)
    BY <1>2, <1>6, <2>5 DEF InOrder
  <2>8. peer'[e] = q
    BY <1>9 DEF ProbeTypeOK
  <2>9. (ReadPending(e)' <=> ReadPending(e)) /\ (WritePending(e)' <=> WritePending(e))
    BY <1>4 DEF ReadPending, WritePending, loopVars, clientVars
  <2>10. lag \in Nat /\ arrived[e] = 0
    <3>1. Len(p.sending) = 0
      BY <1>6
    <3>2. arrived[e] <= 2 * Len(p.sending)
      BY <1>2 DEF Promised, p
    <3>3. lag \in Nat
      BY DEF ProbeTypeOK
    <3> QED BY <1>1, <3>1, <3>2, <3>3
  <2>11. Promised(e)'
    <3>1. Len(peer'[e].sending) = 1 /\ arrived'[e] = 0 /\ lag' = lag /\ client'[e].state = "Awaiting"
      BY <1>4, <1>6, <2>3, <2>5, <2>8, <2>10 DEF clientVars, c
    <3> QED BY <3>1, <2>10 DEF Promised
  <2>12. /\ arrived' \in [Endpoints -> Nat]
         /\ readable' \in SUBSET Endpoints /\ writable' \in SUBSET Endpoints
         /\ \A g \in Endpoints \ {e} :
              /\ arrived'[g] = arrived[g]
              /\ g \in readable' <=> g \in readable
              /\ g \in writable' <=> g \in writable
    BY <1>4 DEF ProbeTypeOK, clientVars
  <2>13. UNCHANGED <<client, loopVars, now, lag>>
    BY <1>4 DEF clientVars
  <2>14. p.wrong \subseteq q.wrong /\ (p.sending # <<>> => q.sending # <<>>)
    BY <1>9, <2>3, <2>5
  <2> QED BY <1>9, <2>5, <2>6, <2>7, <2>11, <2>12, <2>13, <2>14, EndpointMoves DEF p, c
<1>10. ASSUME NEW kind \in FrameKinds, NEW value \in Nat, NEW w \in SUBSET FaultKinds,
              NEW q, q = S(kind, value, w)
       PROVE  q.answered = k /\ q.asked = k /\ q.wrong = w /\ q.closed = p.closed
              /\ q.sending[1] = [kind |-> kind, value |-> value]
  <2> DEFINE f == [kind |-> kind, value |-> value]
  <2> HIDE DEF f
  <2>2. Append(p.sending, f) = <<f>>
    BY <1>6
  <2>4. q = [p EXCEPT !.answered = k, !.wrong = w, !.sending = <<f>>]
    BY <1>10, <2>2 DEF f
  <2>5. q.sending = <<f>> /\ q.answered = k /\ q.asked = p.asked /\ q.wrong = w /\ q.closed = p.closed
    BY <2>4, <1>1 DEF PeerType
  <2> QED BY <2>5, <1>6 DEF f
<1>11. "Refuse" \notin p.wrong /\ (p.closed = TRUE => "Close" \in p.wrong)
  BY <1>2, <1>6 DEF Caught
<1>12. p.wrong \in SUBSET FaultKinds
  BY <1>1 DEF PeerType
<1>13. CASE peer' = [peer EXCEPT ![e] = Right]
  <2> DEFINE q == Right
  <2>1. q = S(Script[k], Answer(k).value, p.wrong)
    BY <1>8
  <2> HIDE DEF q
  <2>2. q.answered = k /\ q.asked = k /\ q.wrong = p.wrong /\ q.closed = p.closed
        /\ q.sending[1] = [kind |-> Script[k], value |-> Answer(k).value]
    <3> HIDE DEF S
    <3> QED BY <2>1, <1>7, <1>8, <1>10, <1>12
  <2>3. Caught(c, q)
    BY <2>2, <1>3, <1>6, <1>8, <1>11 DEF Caught, p
  <2>4. peer' = [peer EXCEPT ![e] = q]
    BY <1>13 DEF q
  <2> HIDE DEF S
  <2> QED BY <2>1, <2>3, <2>4, <1>7, <1>8, <1>9, <1>12
<1>14. ASSUME NEW lie \in Lies, NEW kind \in FrameKinds, NEW value \in Nat,
              ~IsExpected(c, [kind |-> kind, value |-> value]),
              peer' = [peer EXCEPT ![e] = Wrongly(lie, kind, value)]
       PROVE  ProbeTypeOK' /\ Underway'
  <2> DEFINE w == p.wrong \cup {lie}
             q == Wrongly(lie, kind, value)
  <2>1. w \in SUBSET FaultKinds /\ w \cap Lies # {} /\ p.wrong \subseteq w
        /\ "Refuse" \notin w /\ "Silent" \notin w
    BY <1>3, <1>11, <1>12 DEF Lies, FaultKinds, p
  <2>2. q = S(kind, value, w)
    OBVIOUS
  <2> HIDE DEF q, w, Wrongly
  <2>3. q.answered = k /\ q.asked = k /\ q.wrong = w /\ q.closed = p.closed
        /\ q.sending[1] = [kind |-> kind, value |-> value]
    <3> HIDE DEF S
    <3> QED BY <2>1, <2>2, <1>10
  <2>4. p.closed = TRUE => "Close" \in w
    BY <1>11 DEF w
  <2>5. Caught(c, q)
    BY <1>14, <2>1, <2>3, <2>4, <1>6 DEF Caught
  <2>6. peer' = [peer EXCEPT ![e] = q]
    BY <1>14 DEF q
  <2> HIDE DEF S
  <2> QED BY <2>1, <2>2, <2>5, <2>6, <1>9
<1>15. CASE peer' = [peer EXCEPT ![e] = Wrongly("Reject", "Error", None)]
  <2>1. ~IsExpected(c, [kind |-> "Error", value |-> None])
    BY <1>6, <1>7 DEF IsExpected
  <2>2. "Reject" \in Lies /\ "Error" \in FrameKinds /\ None \in Nat
    BY DEF Lies, FrameKinds, None
  <2> HIDE DEF Wrongly
  <2> QED BY <1>15, <2>1, <2>2, <1>14
<1>16. CASE peer' = [peer EXCEPT ![e] = Wrongly("Damage", "Damaged", None)]
  <2>1. ~IsExpected(c, [kind |-> "Damaged", value |-> None])
    BY <1>6, <1>7 DEF IsExpected
  <2>2. "Damage" \in Lies /\ "Damaged" \in FrameKinds /\ None \in Nat
    BY DEF Lies, FrameKinds, None
  <2> HIDE DEF Wrongly
  <2> QED BY <1>16, <2>1, <2>2, <1>14
<1>17. CASE k = Len(Script) /\ peer' = [peer EXCEPT ![e] = Wrongly("Disagree", Answer(k).kind, 2)]
  <2>1. ~IsExpected(c, [kind |-> Script[k], value |-> 2])
    BY <1>6, <1>17 DEF IsExpected
  <2>2. "Disagree" \in Lies /\ 2 \in Nat
    BY DEF Lies
  <2>3. peer' = [peer EXCEPT ![e] = Wrongly("Disagree", Script[k], 2)]
    BY <1>17, <1>8
  <2> HIDE DEF Wrongly
  <2> QED BY <2>1, <2>2, <2>3, <1>7, <1>14
<1>18. CASE peer' = [peer EXCEPT ![e] = Mute]
  <2> DEFINE q == Mute
  <2>1. /\ q \in PeerType /\ q.connected = p.connected /\ q.asked = p.asked /\ q.answered = p.answered
        /\ q.sending = p.sending /\ q.skipped = p.skipped /\ q.wrong = p.wrong \cup {"Silent"}
        /\ q.closed = p.closed
    BY <1>1 DEF PeerType, FaultKinds
  <2>2. peer' = [peer EXCEPT ![e] = q]
    BY <1>18
  <2> HIDE DEF q
  <2>3. q.wrong \cap Lies = {} /\ p.answered < p.asked
    BY <2>1, <1>6 DEF Lies
  <2>4. InStep(c, q)
    BY <2>1, <1>2 DEF InStep
  <2>5. Caught(c, q)
    BY <2>1, <2>3, <1>6, <1>11 DEF Caught
  <2>6. InOrder(c, q, now)
    BY <2>1, <1>2, <1>6 DEF InOrder
  <2>7. peer'[e] = q
    BY <2>2 DEF ProbeTypeOK
  <2>9. (ReadPending(e)' <=> ReadPending(e)) /\ (WritePending(e)' <=> WritePending(e))
    BY <1>4 DEF ReadPending, WritePending, loopVars, clientVars
  <2>11. Promised(e)'
    BY <1>2, <1>4, <2>1, <2>7, <2>9 DEF Promised, clientVars, p
  <2>12. /\ arrived' \in [Endpoints -> Nat]
         /\ readable' \in SUBSET Endpoints /\ writable' \in SUBSET Endpoints
         /\ \A g \in Endpoints \ {e} :
              /\ arrived'[g] = arrived[g]
              /\ g \in readable' <=> g \in readable
              /\ g \in writable' <=> g \in writable
    BY <1>4 DEF ProbeTypeOK, clientVars
  <2>13. UNCHANGED <<client, loopVars, now, lag>>
    BY <1>4 DEF clientVars
  <2>14. p.wrong \subseteq q.wrong /\ (p.sending # <<>> => q.sending # <<>>)
    BY <2>1
  <2> QED BY <2>1, <2>2, <2>4, <2>5, <2>6, <2>11, <2>12, <2>13, <2>14, EndpointMoves DEF p, c
<1> QED BY <1>5, <1>13, <1>15, <1>16, <1>17, <1>18

(* An endpoint that is settled without a fault has streamed to a client    *)
(* that streams.                                                           *)
LEMMA SettledMeans ==
  ASSUME ProbeTypeOK, Underway, Settled, NEW e \in Endpoints
  PROVE  /\ peer[e].sending = <<>>
         /\ peer[e].wrong = {} => client[e].state = "Streaming"
<1> DEFINE p == peer[e]
           c == client[e]
<1>1. c \in ClientType /\ p \in PeerType /\ arrived[e] \in Nat /\ p.sending \in Seq(FrameSent)
      /\ Len(p.sending) \in Nat
  BY TypesAt
<1>2. InStep(c, p) /\ Promised(e)
  BY DEF Underway
<1>3. ~ReadPending(e) /\ ~WritePending(e)
  BY DEF Settled, ReadPending, WritePending
<1>4. arrived[e] = 0 /\ Len(p.sending) = 0
  <2>1. 2 * Len(p.sending) - arrived[e] = 0
    BY DEF Settled, InFlight
  <2>2. ~(arrived[e] >= 2)
    BY <1>2, <1>3 DEF Promised
  <2> QED BY <1>1, <2>1, <2>2
<1>5. p.sending = <<>>
  BY <1>1, <1>4
<1>6. ASSUME p.wrong = {} PROVE c.state = "Streaming"
  <2>1. c.state # "Connecting"
    BY <1>2, <1>3, <1>1 DEF Promised, Settled, PeerType
  <2>2. c.state # "Sending"
    BY DEF Settled
  <2>3. ASSUME c.state = "Awaiting" PROVE FALSE
    <3>1. p.asked = c.step /\ c.step <= Len(Script) /\ c.step \in Nat /\ p.answered = c.step - 1
      BY <1>1, <1>2, <1>4, <2>3 DEF InStep, ClientType
    <3>2. p.asked = StartStep \/ p.answered = p.asked
      BY <1>6 DEF Settled, IsWrong
    <3> QED BY <3>1, <3>2, ScriptFacts
  <2> QED BY <1>1, <2>1, <2>2, <2>3 DEF ClientType
<1> QED BY <1>5, <1>6

(* What one endpoint sends when a sample is due: the sample, or nothing    *)
(* because it skips it or does not stream.                                 *)
LEMMA EmitCases ==
  ASSUME ProbeTypeOK, Underway, NEW e \in Endpoints, NEW skip \in BOOLEAN, NEW t, t = now + 1,
         NEW q, q = Emit(e, t, skip)
  PROVE  /\ q \in PeerType
         /\ InStep(client[e], q) /\ Caught(client[e], q) /\ InOrder(client[e], q, t)
         /\ q.connected = peer[e].connected
         /\ peer[e].wrong \subseteq q.wrong
         /\ Len(peer[e].sending) <= Len(q.sending) /\ Len(q.sending) <= Len(peer[e].sending) + 1
         /\ peer[e].sending # <<>> => q.sending # <<>>
         /\ client[e].state = "Streaming" /\ q.wrong = {} => q.sending # <<>>
<1> DEFINE p == peer[e]
           c == client[e]
           s == p.sending
<1>1. c \in ClientType /\ p \in PeerType /\ s \in Seq(FrameSent) /\ Len(s) \in Nat
  BY TypesAt
<1>2. InStep(c, p) /\ Caught(c, p) /\ InOrder(c, p, now)
  BY DEF Underway
<1>3. now \in Nat /\ t \in Nat /\ t > now /\ now # 0
  <2>1. now \in Nat /\ now # 0
    BY DEF ProbeTypeOK
  <2> QED BY <2>1
<1>c. c.last_timestamp \in Nat /\ c.data_frames \in Nat /\ p.skipped \subseteq Nat /\ p.asked \in Nat
  BY <1>1 DEF ClientType, PeerType
<1>o. /\ p.skipped \subseteq 1..now /\ p.skipped \cap Counted(c) = {} /\ c.last_timestamp <= now
      /\ (c.data_frames = 0 <=> c.last_timestamp = None)
      /\ p.skipped \subseteq 1..t /\ c.last_timestamp <= t
  <2>1. /\ p.skipped \subseteq 1..now /\ p.skipped \cap Counted(c) = {} /\ c.last_timestamp <= now
        /\ (c.data_frames = 0 <=> c.last_timestamp = None)
    BY <1>2 DEF InOrder
  <2>2. 1..now \subseteq 1..t
    BY <1>3
  <2>3. c.last_timestamp <= t
    BY <2>1, <1>3, <1>c
  <2> QED BY <2>1, <2>2, <2>3
<1>s. c.state = "Streaming" =>
        \A i \in 1..Len(s) :
          /\ s[i].kind = "PeriodicData" /\ s[i].value \in 1..now /\ s[i].value \notin p.skipped
          /\ s[i].value \in 1..t /\ s[i].value # t
          /\ p.wrong = {} => s[i].value = now - Len(s) + i
  <2> SUFFICES ASSUME c.state = "Streaming", NEW i \in 1..Len(s)
               PROVE  /\ s[i].kind = "PeriodicData" /\ s[i].value \in 1..now /\ s[i].value \notin p.skipped
                      /\ s[i].value \in 1..t /\ s[i].value # t
                      /\ p.wrong = {} => s[i].value = now - Len(s) + i
    OBVIOUS
  <2>1. /\ s[i].kind = "PeriodicData" /\ s[i].value \in 1..now /\ s[i].value \notin p.skipped
        /\ p.wrong = {} => s[i].value = now - Len(s) + i
    BY <1>2 DEF InOrder
  <2>2. s[i].value \in 1..t /\ s[i].value # t
    BY <2>1, <1>3
  <2> QED BY <2>1, <2>2
<1>l. c.last_timestamp # None /\ p.wrong = {} => c.last_timestamp = now - Len(s)
  BY <1>2 DEF InOrder
<1>a. Streams(e) <=> c.state = "Streaming" /\ p.closed = FALSE
  <2>1. p.closed \in BOOLEAN
    BY <1>1 DEF PeerType
  <2>2. p.asked = StartStep <=> c.state = "Streaming"
    BY <1>1, <1>2, ScriptFacts, SMTT(40) DEF InStep, ClientType
  <2> QED BY <2>1, <2>2 DEF Streams
<1>b. c.last_timestamp # None => c.state = "Streaming"
  BY <1>2 DEF InStep
<1>4. CASE ~Streams(e)
  <2>1. q = p
    BY <1>4 DEF Emit
  <2>2. c.state = "Streaming" => p.wrong # {}
    BY <1>1, <1>2, <1>a, <1>4 DEF Caught, PeerType
  <2> HIDE DEF p, c, s
  <2>3. InOrder(c, p, t)
    BY <2>2, <1>o, <1>s, <1>b DEF InOrder, s
  <2>4. Len(s) <= Len(s) /\ Len(s) <= Len(s) + 1
    BY <1>1
  <2> QED BY <2>1, <2>2, <2>3, <2>4, <1>1, <1>2 DEF p, c, s
<1>5. CASE Streams(e) /\ skip
  <2>1. q = [p EXCEPT !.wrong = p.wrong \cup {"Skip"}, !.skipped = p.skipped \cup {t}]
    BY <1>5 DEF Emit
  <2>2. /\ q \in PeerType /\ q.connected = p.connected /\ q.asked = p.asked /\ q.answered = p.answered
        /\ q.sending = s /\ q.closed = p.closed /\ q.wrong = p.wrong \cup {"Skip"}
        /\ q.skipped = p.skipped \cup {t}
    <3> DEFINE w == p.wrong \cup {"Skip"}
               k == p.skipped \cup {t}
    <3>1. w \in SUBSET FaultKinds /\ k \in SUBSET Nat
      BY <1>1, <1>3 DEF PeerType, FaultKinds
    <3>2. q = [p EXCEPT !.wrong = w, !.skipped = k]
      BY <2>1
    <3> HIDE DEF w, k
    <3>3. /\ q \in PeerType /\ q.connected = p.connected /\ q.asked = p.asked /\ q.answered = p.answered
          /\ q.sending = s /\ q.closed = p.closed /\ q.wrong = w /\ q.skipped = k
      BY <3>1, <3>2, <1>1 DEF PeerType
    <3> QED BY <3>3 DEF w, k
  <2> HIDE DEF p, c, s
  <2>3. c.state = "Streaming"
    BY <1>5, <1>a
  <2>4. InStep(c, q)
    BY <2>2, <2>3, <1>2 DEF InStep
  <2>5. Caught(c, q)
    BY <2>2, <2>3, <1>2 DEF Caught, Lies
  <2>6. q.skipped \cap Counted(c) = {}
    <3>1. t \notin Counted(c)
      BY <1>o, <1>3, <1>c DEF Counted
    <3> QED BY <3>1, <2>2, <1>o
  <2>7. q.skipped \subseteq 1..t
    BY <2>2, <1>o, <1>3
  <2>8. InOrder(c, q, t)
    BY <2>2, <2>6, <2>7, <1>o, <1>s DEF InOrder
  <2>9. Len(s) <= Len(s) /\ Len(s) <= Len(s) + 1
    BY <1>1
  <2>10. q.wrong # {} /\ p.wrong \subseteq q.wrong
    BY <2>2
  <2> QED BY <2>2, <2>4, <2>5, <2>8, <2>9, <2>10 DEF p, c, s
<1>6. CASE Streams(e) /\ ~skip
  <2> DEFINE f == [kind |-> "PeriodicData", value |-> t]
             z == Append(s, f)
  <2>1. q = [p EXCEPT !.sending = z]
    BY <1>6 DEF Emit, Send
  <2>2. f \in FrameSent
    BY <1>3 DEF FrameSent, FrameKinds
  <2>3. /\ z \in Seq(FrameSent) /\ Len(z) = Len(s) + 1 /\ z # <<>>
        /\ z[Len(s) + 1] = f /\ \A i \in 1..Len(s) : z[i] = s[i]
    <3> HIDE DEF s, f
    <3> QED BY <2>2, <1>1
  <2> HIDE DEF z
  <2>4. /\ q \in PeerType /\ q.connected = p.connected /\ q.asked = p.asked /\ q.answered = p.answered
        /\ q.sending = z /\ q.closed = p.closed /\ q.wrong = p.wrong
        /\ q.skipped = p.skipped
    BY <2>1, <2>3, <1>1 DEF PeerType
  <2> HIDE DEF p, c, s
  <2>5. c.state = "Streaming"
    BY <1>6, <1>a
  <2>6. InStep(c, q)
    BY <2>4, <2>5, <1>2 DEF InStep
  <2>7. Caught(c, q)
    BY <2>4, <2>5, <1>2 DEF Caught, Lies
  <2>8. ASSUME NEW i \in 1..Len(z)
        PROVE  /\ z[i].kind = "PeriodicData"
               /\ z[i].value \in 1..t /\ z[i].value \notin p.skipped
               /\ p.wrong = {} => z[i].value = t - Len(z) + i
    <3>0. i \in Nat /\ i <= Len(s) + 1 /\ i >= 1
      BY <2>3, <1>1
    <3>1. CASE i = Len(s) + 1
      <4>1. z[i] = f
        BY <2>3, <3>1
      <4>2. t \in 1..t /\ t \notin p.skipped
        BY <1>3, <1>o
      <4>3. t = t - Len(z) + i
        BY <2>3, <3>1, <1>1, <1>3
      <4> QED BY <4>1, <4>2, <4>3
    <3>2. CASE i # Len(s) + 1
      <4>1. i \in 1..Len(s)
        BY <3>0, <3>2, <1>1
      <4>2. z[i] = s[i]
        BY <2>3, <4>1
      <4>3. now - Len(s) + i = t - Len(z) + i
        <5>1. Len(z) = Len(s) + 1
          BY <2>3
        <5> QED BY <5>1, <3>0, <1>1, <1>3
      <4> QED BY <4>1, <4>2, <4>3, <1>s, <2>5
    <3> QED BY <3>1, <3>2
  <2>9. c.last_timestamp # None /\ p.wrong = {} => c.last_timestamp = t - Len(z)
    <3>1. now - Len(s) = t - Len(z)
      <4>1. Len(z) = Len(s) + 1
        BY <2>3
      <4> QED BY <4>1, <1>1, <1>3
    <3> QED BY <3>1, <1>l
  <2>10. InOrder(c, q, t)
    BY <2>4, <2>8, <2>9, <1>o DEF InOrder
  <2>11. Len(s) <= Len(z) /\ Len(z) <= Len(s) + 1
    <3>1. Len(z) = Len(s) + 1
      BY <2>3
    <3> QED BY <3>1, <1>1
  <2> QED BY <2>3, <2>4, <2>6, <2>7, <2>10, <2>11 DEF p, c, s
<1> QED BY <1>4, <1>5, <1>6

(* Time passes for the whole fleet: every endpoint emits at once.          *)
LEMMA TickStep ==
  ASSUME ProbeTypeOK, Underway, Tick
  PROVE  ProbeTypeOK' /\ Underway'
<1>1. PICK skipping \in SUBSET Endpoints : peer' = [e \in Endpoints |-> Emit(e, now + 1, e \in skipping)]
  BY DEF Tick
<1>2. /\ now' = now + 1 /\ lag' = (IF Settled THEN 0 ELSE lag + 1) /\ (Settled \/ lag < MAX_LAG)
      /\ UNCHANGED <<clientVars, loopVars>>
  BY DEF Tick
<1>3. now \in Nat /\ now # 0 /\ lag \in Nat /\ lag <= MAX_LAG /\ MAX_LAG \in Nat
  BY ConstantFacts DEF ProbeTypeOK
<1>4. now' \in Nat \ {0} /\ lag' \in Nat /\ lag' <= MAX_LAG
  BY <1>2, <1>3
<1>5. ASSUME NEW e \in Endpoints
      PROVE  /\ peer'[e] \in PeerType
             /\ InStep(client[e], peer'[e]) /\ Caught(client[e], peer'[e])
             /\ InOrder(client[e], peer'[e], now')
             /\ peer'[e].connected = peer[e].connected
             /\ peer[e].wrong \subseteq peer'[e].wrong
             /\ Len(peer[e].sending) <= Len(peer'[e].sending)
             /\ Len(peer'[e].sending) <= Len(peer[e].sending) + 1
             /\ peer[e].sending # <<>> => peer'[e].sending # <<>>
             /\ client[e].state = "Streaming" /\ peer'[e].wrong = {} => peer'[e].sending # <<>>
  <2> DEFINE skip == e \in skipping
             t == now + 1
  <2>1. peer'[e] = Emit(e, t, skip)
    BY <1>1
  <2>2. skip \in BOOLEAN /\ now' = t /\ t = now + 1
    BY <1>2
  <2> HIDE DEF skip, t
  <2>3. /\ peer'[e] \in PeerType
        /\ InStep(client[e], peer'[e]) /\ Caught(client[e], peer'[e])
        /\ InOrder(client[e], peer'[e], t)
        /\ peer'[e].connected = peer[e].connected
        /\ peer[e].wrong \subseteq peer'[e].wrong
        /\ Len(peer[e].sending) <= Len(peer'[e].sending)
        /\ Len(peer'[e].sending) <= Len(peer[e].sending) + 1
        /\ peer[e].sending # <<>> => peer'[e].sending # <<>>
        /\ client[e].state = "Streaming" /\ peer'[e].wrong = {} => peer'[e].sending # <<>>
    BY <2>1, <2>2, EmitCases
  <2> QED BY <2>2, <2>3, Zenon
<1>6. ProbeTypeOK'
  <2>1. peer' \in [Endpoints -> PeerType]
    BY <1>1, <1>5
  <2> QED BY <2>1, <1>2, <1>4 DEF ProbeTypeOK, clientVars, loopVars
<1>7. ASSUME NEW e \in Endpoints
      PROVE  /\ InStep(client[e], peer[e])' /\ Caught(client[e], peer[e])'
             /\ InOrder(client[e], peer[e], now)' /\ Promised(e)'
  <2> DEFINE n == Len(peer[e].sending)
             m == Len(peer'[e].sending)
  <2>1. n \in Nat /\ arrived[e] \in Nat /\ Promised(e)
    BY TypesAt DEF Underway
  <2>2. m \in Nat /\ n <= m /\ m <= n + 1
    BY <1>5 DEF PeerType
  <2>3. arrived[e] <= 2 * n /\ n <= lag + 1 /\ (arrived[e] >= 2 => ReadPending(e))
        /\ (client[e].state = "Connecting" => (peer[e].connected = TRUE <=> WritePending(e)))
    BY <2>1 DEF Promised
  <2>4. Settled => n = 0
    <3>1. Settled => peer[e].sending = <<>>
      BY SettledMeans
    <3> QED BY <3>1
  <2>5. UNCHANGED <<client, arrived, writable, readable, batch>>
    BY <1>2 DEF clientVars, loopVars
  <2>6. (ReadPending(e)' <=> ReadPending(e)) /\ (WritePending(e)' <=> WritePending(e))
    BY <2>5 DEF ReadPending, WritePending
  <2>7. arrived'[e] <= 2 * m /\ m <= lag' + 1
    <3> HIDE DEF m, n
    <3>1. arrived'[e] = arrived[e]
      BY <2>5
    <3>2. arrived[e] <= 2 * m
      BY <2>1, <2>2, <2>3
    <3>3. m <= lag' + 1
      <4>1. CASE Settled
        BY <4>1, <2>2, <2>4, <1>2
      <4>2. CASE ~Settled
        BY <4>2, <2>1, <2>2, <2>3, <1>2, <1>3
      <4> QED BY <4>1, <4>2
    <3> QED BY <3>1, <3>2, <3>3
  <2>8. Promised(e)'
    BY <2>3, <2>5, <2>6, <2>7, <1>5 DEF Promised
  <2> QED BY <2>5, <2>8, <1>5
<1>8. HandshakeInTime'
  <2> SUFFICES ASSUME AllSound'
               PROVE  \/ now' <= 1 + lag'
                      \/ /\ \A e \in Endpoints :
                              client[e].state = "Streaming" /\ (client[e].data_frames > 0 \/ peer'[e].sending # <<>>)
                         /\ \/ now' <= 2 + MAX_LAG + lag'
                            \/ \A e \in Endpoints : client[e].data_frames > 0
    BY <1>2 DEF HandshakeInTime, clientVars
  <2>1. \A e \in Endpoints : peer'[e].wrong = {} /\ peer[e].wrong = {}
    BY <1>5 DEF AllSound
  <2>2. \/ now <= 1 + lag
        \/ /\ \A e \in Endpoints :
                client[e].state = "Streaming" /\ (client[e].data_frames > 0 \/ peer[e].sending # <<>>)
           /\ \/ now <= 2 + MAX_LAG + lag
              \/ \A e \in Endpoints : client[e].data_frames > 0
    BY <2>1 DEF Underway, HandshakeInTime, AllSound
  <2>3. CASE ~Settled
    <3>1. now' = now + 1 /\ lag' = lag + 1
      BY <1>2, <2>3
    <3>2. CASE now <= 1 + lag
      BY <3>1, <3>2, <1>3
    <3>3. CASE /\ \A e \in Endpoints :
                client[e].state = "Streaming" /\ (client[e].data_frames > 0 \/ peer[e].sending # <<>>)
               /\ \/ now <= 2 + MAX_LAG + lag
                  \/ \A e \in Endpoints : client[e].data_frames > 0
      <4>1. \A e \in Endpoints :
              client[e].state = "Streaming" /\ (client[e].data_frames > 0 \/ peer'[e].sending # <<>>)
        BY <3>3, <1>5
      <4>2. now <= 2 + MAX_LAG + lag => now' <= 2 + MAX_LAG + lag'
        BY <3>1, <1>3
      <4> QED BY <3>3, <4>1, <4>2
    <3> QED BY <2>2, <3>2, <3>3
  <2>4. CASE Settled
    <3>1. now' = now + 1 /\ lag' = 0
      BY <1>2, <2>4
    <3>2. \A e \in Endpoints : client[e].state = "Streaming" /\ peer'[e].sending # <<>>
      BY <2>1, <2>4, <1>5, SettledMeans
    <3>3. now <= 1 + lag => now' <= 2 + MAX_LAG + lag'
      BY <3>1, <1>3
    <3>4. now <= 1 + lag \/ \A e \in Endpoints : client[e].data_frames > 0
      BY <2>2, <2>4, SettledMeans
    <3> QED BY <3>2, <3>3, <3>4
  <2> QED BY <2>3, <2>4
<1>9. TurnInOrder'
  BY <1>2 DEF TurnInOrder, Underway, loopVars, clientVars
<1>10. CountedSinceStart'
  <2> SUFFICES ASSUME streaming_started # None
               PROVE  /\ streaming_started <= now'
                      /\ \A e \in Endpoints :
                           /\ is_streaming(client[e])
                           /\ peer'[e].wrong = {} =>
                                client[e].data_frames >= client[e].last_timestamp - streaming_started + 1
    BY <1>2 DEF CountedSinceStart, clientVars, loopVars
  <2>1. /\ streaming_started <= now
        /\ \A e \in Endpoints :
             /\ is_streaming(client[e])
             /\ peer[e].wrong = {} =>
                  client[e].data_frames >= client[e].last_timestamp - streaming_started + 1
    BY DEF Underway, CountedSinceStart
  <2>2. streaming_started \in Nat
    BY DEF ProbeTypeOK
  <2>3. streaming_started <= now'
    BY <2>1, <2>2, <1>2, <1>3
  <2>4. \A e \in Endpoints : peer'[e].wrong = {} => peer[e].wrong = {}
    BY <1>5
  <2> QED BY <2>1, <2>3, <2>4
<1> QED BY <1>6, <1>7, <1>8, <1>9, <1>10 DEF Underway

(* A turn of the loop that has handled its events.                         *)
LEMMA EndOfTurnStep ==
  ASSUME ProbeTypeOK, Underway, EndOfTurn
  PROVE  ProbeTypeOK' /\ Underway'
<1>1. /\ turn' = "top" /\ batch = {} /\ UNCHANGED <<clientVars, batch, verdict, peer, now, lag>>
      /\ streaming_started' =
           IF streaming_started = None /\ \A e \in Endpoints : is_streaming(client[e])
             THEN now ELSE streaming_started
  BY DEF EndOfTurn
<1>2. UNCHANGED <<client, writable, readable, arrived>>
  BY <1>1 DEF clientVars
<1>3. now \in Nat /\ now # 0 /\ streaming_started \in Nat
  BY DEF ProbeTypeOK
<1>4. ProbeTypeOK'
  BY <1>1, <1>2, <1>3 DEF ProbeTypeOK
<1>5. ASSUME NEW e \in Endpoints
      PROVE  /\ InStep(client[e], peer[e])' /\ Caught(client[e], peer[e])'
             /\ InOrder(client[e], peer[e], now)' /\ Promised(e)'
  <2>1. (ReadPending(e)' <=> ReadPending(e)) /\ (WritePending(e)' <=> WritePending(e))
    BY <1>1, <1>2 DEF ReadPending, WritePending
  <2>2. Promised(e)'
    BY <2>1, <1>1, <1>2 DEF Promised, Underway
  <2> QED BY <2>2, <1>1, <1>2 DEF Underway
<1>6. HandshakeInTime'
  BY <1>1, <1>2 DEF HandshakeInTime, AllSound, Underway
<1>7. TurnInOrder'
  <2>1. streaming_started' = None => \E e \in Endpoints : ~is_streaming(client[e])
    BY <1>1, <1>3 DEF None
  <2> QED BY <2>1, <1>1, <1>2 DEF TurnInOrder
<1>8. CountedSinceStart'
  <2>1. CASE streaming_started = None /\ \A e \in Endpoints : is_streaming(client[e])
    <3>1. streaming_started' = now
      BY <1>1, <2>1
    <3>2. ASSUME NEW e \in Endpoints PROVE client[e].data_frames >= client[e].last_timestamp - now + 1
      <4>1. client[e].data_frames > 0 /\ client[e].last_timestamp <= now
        BY <2>1 DEF is_streaming, Underway, InOrder
      <4>2. client[e].data_frames \in Nat /\ client[e].last_timestamp \in Nat
        BY TypesAt DEF ClientType
      <4> QED BY <4>1, <4>2, <1>3
    <3>3. now <= now
      BY <1>3
    <3> QED BY <1>1, <1>2, <2>1, <3>1, <3>2, <3>3 DEF CountedSinceStart
  <2>2. CASE ~(streaming_started = None /\ \A e \in Endpoints : is_streaming(client[e]))
    BY <1>1, <1>2, <2>2 DEF CountedSinceStart, Underway
  <2> QED BY <2>1, <2>2
<1> QED BY <1>4, <1>5, <1>6, <1>7, <1>8 DEF Underway

(* Without a wrong endpoint the probe neither times out nor misses samples.  *)
LEMMA NoFalseTimeout ==
  ASSUME ProbeTypeOK, Underway, turn = "top", IsTimedOut
  PROVE  ~AllSound
<1> SUFFICES ASSUME AllSound PROVE FALSE
  OBVIOUS
<1>1. streaming_started = None /\ now - 1 >= HANDSHAKE_TIMEOUT
  BY DEF IsTimedOut
<1>2. now \in Nat /\ lag \in Nat /\ lag <= MAX_LAG
  BY DEF ProbeTypeOK
<1>3. PICK e \in Endpoints : ~is_streaming(client[e])
  BY <1>1 DEF Underway, TurnInOrder
<1>4. client[e].data_frames \in Nat
  BY TypesAt DEF ClientType
<1>5. now <= 1 + lag \/ now <= 2 + MAX_LAG + lag
  BY <1>3, <1>4 DEF Underway, HandshakeInTime, is_streaming
<1> QED BY <1>1, <1>2, <1>5, ConstantFacts

(* When the run is over, an endpoint without a fault has been counted often*)
(* enough: all samples since the start but those still on the way.         *)
LEMMA EnoughSamples ==
  ASSUME ProbeTypeOK, Underway, IsOver, NEW e \in Endpoints, peer[e].wrong = {}
  PROVE  client[e].data_frames >= Minimum
<1> DEFINE c == client[e]
           n == Len(peer[e].sending)
<1>1. streaming_started # None /\ now - streaming_started >= DURATION
  BY DEF IsOver
<1>2. /\ now \in Nat /\ lag \in Nat /\ lag <= MAX_LAG /\ streaming_started \in Nat
      /\ c.data_frames \in Nat /\ c.last_timestamp \in Nat /\ n \in Nat
  BY TypesAt DEF ProbeTypeOK, ClientType
<1>3. c.data_frames > 0 /\ c.data_frames >= c.last_timestamp - streaming_started + 1
  BY <1>1 DEF Underway, CountedSinceStart, is_streaming
<1>4. c.last_timestamp = now - n /\ n <= lag + 1
  <2>1. c.data_frames # 0
    BY <1>2, <1>3
  <2>2. c.last_timestamp # None
    BY <2>1 DEF Underway, InOrder
  <2> QED BY <2>2 DEF Underway, InOrder, Promised
<1> HIDE DEF c, n
<1>5. c.data_frames >= Minimum
  BY <1>1, <1>2, <1>3, <1>4, ConstantFacts
<1> QED BY <1>5 DEF c

(* The top of the loop: a verdict, or the next batch of events.            *)
LEMMA TopStep ==
  ASSUME ProbeTypeOK, Underway, Top
  PROVE  ProbeTypeOK' /\ (verdict' = "running" => Underway') /\ VerdictsAreEvidence'
<1>1. turn = "top" /\ verdict = "running" /\ UNCHANGED <<client, arrived, streaming_started, peer, now, lag>>
  BY DEF Top
<1>2. CASE IsTimedOut
  <2>1. verdict' = "timed out" /\ UNCHANGED <<turn, batch, writable, readable>>
    BY <1>2 DEF Top
  <2>2. ProbeTypeOK'
    BY <1>1, <2>1 DEF ProbeTypeOK
  <2>3. \E e \in Endpoints : peer[e].wrong # {}
    BY <1>1, <1>2, NoFalseTimeout DEF AllSound
  <2> QED BY <1>1, <2>1, <2>2, <2>3 DEF VerdictsAreEvidence
<1>3. CASE ~IsTimedOut /\ IsOver
  <2>1. /\ verdict' = (IF \E e \in Endpoints : client[e].data_frames < Minimum THEN "too few" ELSE "ok")
        /\ UNCHANGED <<turn, batch, writable, readable>>
    BY <1>3 DEF Top
  <2>2. ProbeTypeOK'
    BY <1>1, <2>1 DEF ProbeTypeOK
  <2>3. CASE \E e \in Endpoints : client[e].data_frames < Minimum
    <3>1. PICK e \in Endpoints : client[e].data_frames < Minimum
      BY <2>3
    <3>2. client[e].data_frames \in Nat
      BY TypesAt DEF ClientType
    <3>3. ~(client[e].data_frames >= Minimum)
      BY <3>1, <3>2, ConstantFacts
    <3>4. peer[e].wrong # {}
      BY <1>3, <3>3, EnoughSamples
    <3> QED BY <1>1, <2>1, <2>2, <2>3, <3>4 DEF VerdictsAreEvidence
  <2>4. CASE ~\E e \in Endpoints : client[e].data_frames < Minimum
    <3>1. verdict' = "ok"
      BY <2>1, <2>4
    <3>2. ASSUME NEW e \in Endpoints
          PROVE  /\ client[e].data_frames >= Minimum
                 /\ peer[e].skipped \cap Counted(client[e]) = {}
                 /\ peer[e].wrong \cap {"Refuse", "Silent", "Reject", "Disagree", "Damage"} = {}
      <4>1. client[e].data_frames >= Minimum
        <5>1. client[e].data_frames \in Nat
          BY TypesAt DEF ClientType
        <5>2. ~(client[e].data_frames < Minimum)
          BY <2>4
        <5> QED BY <5>1, <5>2, ConstantFacts
      <4>2. peer[e].skipped \cap Counted(client[e]) = {}
        BY DEF Underway, InOrder
      <4>3. client[e].state = "Streaming"
        BY <1>3 DEF IsOver, Underway, CountedSinceStart, is_streaming
      <4>4. peer[e].wrong \cap {"Refuse", "Silent", "Reject", "Disagree", "Damage"} = {}
        BY <4>3 DEF Underway, Caught, Lies
      <4> QED BY <4>1, <4>2, <4>4
    <3> QED BY <1>1, <2>2, <3>1, <3>2 DEF VerdictsAreEvidence, Counted
  <2> QED BY <2>3, <2>4
<1>4. CASE ~IsTimedOut /\ ~IsOver
  <2>1. /\ batch' = {[endpoint |-> e, writable |-> e \in writable, readable |-> e \in readable] :
                         e \in writable \cup readable}
        /\ writable' = {} /\ readable' = {} /\ turn' = "events" /\ verdict' = "running"
    BY <1>1, <1>4 DEF Top
  <2>2. batch = {}
    BY <1>1 DEF Underway, TurnInOrder
  <2>3. batch' \in SUBSET EventType
    <3> SUFFICES ASSUME NEW e \in writable \cup readable
                 PROVE  [endpoint |-> e, writable |-> e \in writable, readable |-> e \in readable] \in EventType
      BY <2>1
    <3>1. e \in Endpoints
      BY DEF ProbeTypeOK
    <3>2. (e \in writable) \in BOOLEAN /\ (e \in readable) \in BOOLEAN
      OBVIOUS
    <3> QED BY <3>1, <3>2 DEF EventType
  <2>4. ProbeTypeOK'
    BY <1>1, <2>1, <2>3 DEF ProbeTypeOK
  <2>5. ASSUME NEW e \in Endpoints
        PROVE  (ReadPending(e)' <=> ReadPending(e)) /\ (WritePending(e)' <=> WritePending(e))
    <3> DEFINE ev(x) == [endpoint |-> x, writable |-> x \in writable, readable |-> x \in readable]
    <3>1. ReadPending(e) <=> e \in readable
      BY <2>2 DEF ReadPending
    <3>2. WritePending(e) <=> e \in writable
      BY <2>2 DEF WritePending
    <3>3. ASSUME NEW x
          PROVE  ev(x).endpoint = x /\ (ev(x).writable = TRUE <=> x \in writable)
                 /\ (ev(x).readable = TRUE <=> x \in readable)
      <4>1. ev(x).endpoint = x
        OBVIOUS
      <4>2. ev(x).writable = (x \in writable)
        BY Zenon
      <4>3. ev(x).readable = (x \in readable)
        BY Zenon
      <4> QED BY <4>1, <4>2, <4>3
    <3>4. batch' = {ev(x) : x \in writable \cup readable}
      BY <2>1
    <3> HIDE DEF ev
    <3>5. ReadPending(e)' <=> \E v \in batch' : v.endpoint = e /\ v.readable = TRUE
      BY <2>1 DEF ReadPending
    <3>6. WritePending(e)' <=> \E v \in batch' : v.endpoint = e /\ v.writable = TRUE
      BY <2>1 DEF WritePending
    <3>7. (\E v \in batch' : v.endpoint = e /\ v.readable = TRUE) <=> e \in readable
      BY <3>3, <3>4, ZenonT(60)
    <3>8. (\E v \in batch' : v.endpoint = e /\ v.writable = TRUE) <=> e \in writable
      BY <3>3, <3>4, ZenonT(60)
    <3> QED BY <3>1, <3>2, <3>5, <3>6, <3>7, <3>8
  <2>6. ASSUME NEW e \in Endpoints
        PROVE  /\ InStep(client[e], peer[e])' /\ Caught(client[e], peer[e])'
               /\ InOrder(client[e], peer[e], now)' /\ Promised(e)'
    <3>1. Promised(e)'
      BY <2>5, <1>1 DEF Promised, Underway
    <3> QED BY <3>1, <1>1 DEF Underway
  <2>7. HandshakeInTime'
    BY <1>1 DEF HandshakeInTime, AllSound, Underway
  <2>8. TurnInOrder'
    BY <2>1 DEF TurnInOrder
  <2>9. CountedSinceStart'
    BY <1>1 DEF CountedSinceStart, Underway
  <2> QED BY <2>1, <2>4, <2>6, <2>7, <2>8, <2>9 DEF Underway, VerdictsAreEvidence
<1> QED BY <1>2, <1>3, <1>4

(* An event that is handled keeps the invariant, or fails the run with the *)
(* endpoint that is wrong.                                                 *)
LEMMA HandleEventStep ==
  ASSUME ProbeTypeOK, Underway, NEW v \in batch, NEW count \in 1..2, HandleEvent(v, count)
  PROVE  ProbeTypeOK' /\ (verdict' = "running" => Underway') /\ VerdictsAreEvidence'
<1> DEFINE e == v.endpoint
<1>1. /\ e \in Endpoints
      /\ client'[e] \in ClientType /\ peer'[e] \in PeerType /\ arrived'[e] \in Nat
      /\ client' = [client EXCEPT ![e] = client'[e]]
      /\ peer' = [peer EXCEPT ![e] = peer'[e]]
      /\ arrived' = [arrived EXCEPT ![e] = arrived'[e]]
      /\ writable \subseteq writable' /\ writable' \subseteq writable \cup {e}
      /\ client'[e].state # "Sending" => writable' = writable
      /\ peer'[e].wrong = peer[e].wrong /\ peer'[e].connected = peer[e].connected
      /\ verdict' = IF client'[e].failed = TRUE THEN "failed" ELSE verdict
      /\ client'[e].failed = TRUE => peer[e].wrong # {}
      /\ client'[e].failed = FALSE => EventDone(v, e)
  BY EventStep
<1>2. /\ batch' = batch \ {v} /\ turn = "events" /\ verdict = "running"
      /\ UNCHANGED <<readable, turn, streaming_started, now, lag>>
  BY DEF HandleEvent
<1> HIDE DEF e
<1>3. \A f \in Endpoints \ {e} :
        client'[f] = client[f] /\ peer'[f] = peer[f] /\ arrived'[f] = arrived[f]
  <2>1. \A f \in Endpoints \ {e} : client'[f] = client[f]
    BY <1>1 DEF ProbeTypeOK
  <2>2. \A f \in Endpoints \ {e} : peer'[f] = peer[f]
    BY <1>1 DEF ProbeTypeOK
  <2>3. \A f \in Endpoints \ {e} : arrived'[f] = arrived[f]
    BY <1>1 DEF ProbeTypeOK
  <2> QED BY <2>1, <2>2, <2>3
<1>4. ProbeTypeOK'
  <2>1. client' \in [Endpoints -> ClientType]
    BY <1>1 DEF ProbeTypeOK
  <2>2. peer' \in [Endpoints -> PeerType]
    BY <1>1 DEF ProbeTypeOK
  <2>3. arrived' \in [Endpoints -> Nat]
    BY <1>1 DEF ProbeTypeOK
  <2>4. writable' \in SUBSET Endpoints /\ batch' \in SUBSET EventType
    BY <1>1, <1>2 DEF ProbeTypeOK
  <2>5. verdict' \in {"running", "timed out", "too few", "failed", "ok"}
    BY <1>1, <1>2
  <2> QED BY <1>2, <2>1, <2>2, <2>3, <2>4, <2>5 DEF ProbeTypeOK
<1>5. CASE client'[e].failed = TRUE
  <2>1. verdict' = "failed" /\ peer'[e].wrong # {}
    BY <1>1, <1>5
  <2> QED BY <1>1, <1>4, <2>1 DEF VerdictsAreEvidence
<1>6. CASE client'[e].failed = FALSE
  <2>1. verdict' = "running" /\ EventDone(v, e)
    BY <1>1, <1>2, <1>6
  <2>n. /\ arrived[e] \in Nat /\ Len(peer[e].sending) \in Nat /\ Len(peer'[e].sending) \in Nat
        /\ lag \in Nat /\ client[e] \in ClientType
    <3>1. arrived[e] \in Nat /\ Len(peer[e].sending) \in Nat /\ client[e] \in ClientType
      BY <1>1, TypesAt
    <3>2. Len(peer'[e].sending) \in Nat
      BY <1>1 DEF PeerType
    <3>3. lag \in Nat
      BY DEF ProbeTypeOK
    <3> QED BY <3>1, <3>2, <3>3
  <2>2. ASSUME NEW f \in Endpoints
        PROVE  /\ InStep(client[f], peer[f])' /\ Caught(client[f], peer[f])'
               /\ InOrder(client[f], peer[f], now)' /\ Promised(f)'
    <3>0. Promised(f) /\ InStep(client[f], peer[f]) /\ Caught(client[f], peer[f])
          /\ InOrder(client[f], peer[f], now)
      BY DEF Underway
    <3>1. CASE f # e
      <4>1. client'[f] = client[f] /\ peer'[f] = peer[f] /\ arrived'[f] = arrived[f]
        BY <1>3, <3>1
      <4>2. (ReadPending(f)' <=> ReadPending(f)) /\ (WritePending(f)' <=> WritePending(f))
        BY <1>1, <1>2, <3>1 DEF ReadPending, WritePending, e
      <4>3. Promised(f)'
        BY <1>2, <3>0, <4>1, <4>2 DEF Promised
      <4> QED BY <1>2, <3>0, <4>1, <4>3
    <3>2. CASE f = e
      <4>1. InStep(client'[e], peer'[e]) /\ Caught(client'[e], peer'[e])
            /\ InOrder(client'[e], peer'[e], now)
        BY <2>1 DEF EventDone
      <4>2. arrived'[e] <= 2 * Len(peer'[e].sending) /\ Len(peer'[e].sending) <= lag + 1
        <5>1. Len(peer[e].sending) <= lag + 1
          BY <3>0, <3>2 DEF Promised
        <5>2. Len(peer'[e].sending) <= Len(peer[e].sending) /\ arrived'[e] <= 2 * Len(peer'[e].sending)
          BY <2>1 DEF EventDone
        <5> QED BY <5>1, <5>2, <2>n, SMTT(40)
      <4>3. arrived'[e] >= 2 => ReadPending(e)'
        <5> SUFFICES ASSUME arrived'[e] >= 2 PROVE ReadPending(e)'
          OBVIOUS
        <5>1. v.readable # TRUE /\ arrived[e] >= 2
          <6>1. (v.readable = TRUE => arrived'[e] <= 1) /\ arrived'[e] <= arrived[e]
            BY <2>1 DEF EventDone
          <6>2. arrived'[e] \in Nat
            BY <1>1
          <6>3. ~(arrived'[e] <= 1) /\ arrived[e] >= 2
            BY <6>1, <6>2, <2>n
          <6> QED BY <6>1, <6>3
        <5>2. ReadPending(e)
          BY <5>1, <3>0, <3>2 DEF Promised
        <5> QED BY <5>1, <5>2, <1>2 DEF ReadPending
      <4>4. client'[e].state = "Connecting" => (peer'[e].connected = TRUE <=> WritePending(e)')
        <5> SUFFICES ASSUME client'[e].state = "Connecting"
                     PROVE  peer'[e].connected = TRUE <=> WritePending(e)'
          OBVIOUS
        <5>1. client[e].state = "Connecting" /\ v.writable = FALSE /\ writable' = writable
          BY <1>1, <2>1 DEF EventDone
        <5>2. peer[e].connected = TRUE <=> WritePending(e)
          BY <5>1, <3>0, <3>2 DEF Promised
        <5>3. WritePending(e)' <=> WritePending(e)
          BY <5>1, <1>2 DEF WritePending
        <5> QED BY <5>2, <5>3, <1>1
      <4>5. Promised(e)'
        BY <1>2, <4>2, <4>3, <4>4 DEF Promised
      <4> QED BY <1>2, <3>2, <4>1, <4>5
    <3> QED BY <3>1, <3>2
  <2>3. ASSUME NEW f \in Endpoints
        PROVE  /\ peer'[f].wrong = peer[f].wrong
               /\ client[f].state = "Streaming" => client'[f].state = "Streaming"
               /\ client[f].data_frames > 0 => client'[f].data_frames > 0
               /\ client[f].state = "Streaming" /\ peer[f].sending # <<>> =>
                    client'[f].data_frames > 0 \/ peer'[f].sending # <<>>
               /\ client[f].last_timestamp # None =>
                    client'[f].last_timestamp - client'[f].data_frames
                      = client[f].last_timestamp - client[f].data_frames
    <3>1. CASE f # e
      BY <3>1, <1>3
    <3>2. CASE f = e
      <4>1. client[e].data_frames \in Nat /\ client'[e].data_frames \in Nat
        BY <1>1, <2>n DEF ClientType
      <4>2. client[e].data_frames > 0 => client'[e].data_frames > 0
        BY <4>1, <2>1 DEF EventDone
      <4> QED BY <3>2, <4>2, <2>1, <1>1 DEF EventDone
    <3> QED BY <3>1, <3>2
  <2>4. HandshakeInTime'
    BY <1>2, <2>3 DEF HandshakeInTime, AllSound, Underway
  <2>5. TurnInOrder'
    BY <1>2 DEF TurnInOrder
  <2>6. CountedSinceStart'
    <3> SUFFICES ASSUME streaming_started # None
                 PROVE  /\ streaming_started <= now
                        /\ \A f \in Endpoints :
                             /\ is_streaming(client'[f])
                             /\ peer'[f].wrong = {} =>
                                  client'[f].data_frames >= client'[f].last_timestamp - streaming_started + 1
      BY <1>2 DEF CountedSinceStart, is_streaming
    <3>1. /\ streaming_started <= now
          /\ \A f \in Endpoints :
               /\ is_streaming(client[f])
               /\ peer[f].wrong = {} =>
                    client[f].data_frames >= client[f].last_timestamp - streaming_started + 1
      BY DEF Underway, CountedSinceStart
    <3>2. ASSUME NEW f \in Endpoints
          PROVE  /\ is_streaming(client'[f])
                 /\ peer'[f].wrong = {} =>
                      client'[f].data_frames >= client'[f].last_timestamp - streaming_started + 1
      <4>1. is_streaming(client'[f])
        BY <2>3, <3>1 DEF is_streaming
      <4>2. /\ client[f].data_frames \in Nat /\ client[f].last_timestamp \in Nat
            /\ client'[f].data_frames \in Nat /\ client'[f].last_timestamp \in Nat
            /\ streaming_started \in Nat
        BY <1>4 DEF ProbeTypeOK, ClientType
      <4>3. client[f].last_timestamp # None
        <5>1. client[f].data_frames # 0
          BY <3>1, <4>2 DEF is_streaming
        <5> QED BY <5>1 DEF Underway, InOrder
      <4>4. client'[f].last_timestamp - client'[f].data_frames
              = client[f].last_timestamp - client[f].data_frames
        BY <2>3, <4>3
      <4>5. ASSUME peer'[f].wrong = {}
            PROVE  client'[f].data_frames >= client'[f].last_timestamp - streaming_started + 1
        <5>1. client[f].data_frames >= client[f].last_timestamp - streaming_started + 1
          BY <4>5, <2>3, <3>1
        <5> QED BY <5>1, <4>2, <4>4
      <4> QED BY <4>1, <4>5
    <3> QED BY <3>1, <3>2
  <2>7. Underway'
    BY <2>2, <2>4, <2>5, <2>6 DEF Underway
  <2> QED BY <1>4, <2>1, <2>7 DEF VerdictsAreEvidence
<1>7. client'[e].failed \in BOOLEAN
  BY <1>1 DEF ClientType
<1> QED BY <1>5, <1>6, <1>7

(* The invariant holds before the first turn.                              *)
LEMMA ProbeStarts == ProbeInit => ProbeInv
<1> SUFFICES ASSUME ProbeInit PROVE ProbeInv
  OBVIOUS
<1>1. NewClient \in ClientType
  BY DEF NewClient, ClientType, None
<1>2. NewPeer \in PeerType
  BY DEF NewPeer, PeerType
<1>3. ProbeTypeOK
  BY <1>1, <1>2, ConstantFacts DEF ProbeInit, ProbeTypeOK, None
<1>4. ASSUME NEW e \in Endpoints
      PROVE  /\ InStep(client[e], peer[e]) /\ Caught(client[e], peer[e])
             /\ InOrder(client[e], peer[e], now) /\ Promised(e)
  <2>1. client[e] = NewClient /\ peer[e] = NewPeer /\ arrived[e] = 0 /\ now = 1 /\ lag = 0
        /\ batch = {} /\ readable = {} /\ writable = {}
    BY DEF ProbeInit
  <2>2. /\ NewClient.state = "Connecting" /\ NewClient.step = 1 /\ NewClient.written = 0
        /\ NewClient.failed = FALSE /\ NewClient.data_frames = 0 /\ NewClient.last_timestamp = None
    BY DEF NewClient
  <2>3. /\ NewPeer.connected = FALSE /\ NewPeer.asked = 0 /\ NewPeer.answered = 0
        /\ NewPeer.sending = <<>> /\ NewPeer.closed = FALSE /\ NewPeer.wrong = {}
        /\ NewPeer.skipped = {}
    BY DEF NewPeer
  <2>4. Len(NewPeer.sending) = 0
    BY <2>3
  <2> HIDE DEF NewPeer, NewClient
  <2>5. InStep(NewClient, NewPeer)
    BY <2>2, <2>3, ScriptFacts DEF InStep
  <2>6. Caught(NewClient, NewPeer)
    BY <2>2, <2>3 DEF Caught
  <2>7. InOrder(NewClient, NewPeer, 1)
    BY <2>2, <2>3, <2>4 DEF InOrder, None
  <2>8. Promised(e)
    BY <2>1, <2>2, <2>3, <2>4 DEF Promised, WritePending, ReadPending
  <2> QED BY <2>1, <2>5, <2>6, <2>7, <2>8
<1>5. HandshakeInTime
  BY DEF ProbeInit, HandshakeInTime
<1>6. TurnInOrder
  BY ConstantFacts DEF ProbeInit, TurnInOrder, is_streaming, NewClient
<1>7. CountedSinceStart
  BY DEF ProbeInit, CountedSinceStart
<1>8. Underway
  BY <1>4, <1>5, <1>6, <1>7 DEF Underway
<1> QED BY <1>3, <1>8 DEF ProbeInv, VerdictsAreEvidence, ProbeInit

(* Every step keeps it: one case per action.                               *)
LEMMA ProbeContinues == ProbeInv /\ [ProbeNext]_probeVars => ProbeInv'
<1> SUFFICES ASSUME ProbeInv, [ProbeNext]_probeVars PROVE ProbeInv'
  OBVIOUS
<1>1. ProbeTypeOK /\ (verdict = "running" => Underway) /\ VerdictsAreEvidence
  BY DEF ProbeInv
<1>2. ASSUME ProbeTypeOK', Underway', verdict' = "running" PROVE ProbeInv'
  BY <1>2 DEF ProbeInv, VerdictsAreEvidence
<1>3. CASE Top
  <2>1. Underway
    BY <1>1, <1>3 DEF Top
  <2> QED BY <1>1, <1>3, <2>1, TopStep DEF ProbeInv
<1>4. CASE \E v \in batch, count \in 1..2 : HandleEvent(v, count)
  <2>1. PICK v \in batch, count \in 1..2 : HandleEvent(v, count)
    BY <1>4
  <2>2. Underway
    BY <1>1, <2>1 DEF HandleEvent
  <2> QED BY <1>1, <2>1, <2>2, HandleEventStep DEF ProbeInv
<1>5. CASE EndOfTurn
  <2>1. Underway /\ verdict' = "running"
    BY <1>1, <1>5 DEF EndOfTurn
  <2> QED BY <1>1, <1>2, <1>5, <2>1, EndOfTurnStep
<1>6. CASE Network
  <2>1. PICK e \in Endpoints : Connects(e) \/ Arrives(e) \/ Drains(e)
    BY <1>6 DEF Network
  <2>2. Underway /\ verdict' = "running"
    BY <1>1, <1>6, <2>1 DEF Network, Connects, Arrives, Drains, loopVars
  <2> QED BY <1>1, <1>2, <2>1, <2>2, ConnectsStep, DeliveryStep
<1>7. CASE Endpoint
  <2>1. PICK e \in Endpoints : Answers(e) \/ Closes(e)
    BY <1>7 DEF Endpoint
  <2>2. UNCHANGED loopVars
    BY <2>1 DEF Answers, Closes
  <2>3. Underway /\ verdict' = "running"
    BY <1>1, <1>7, <2>2 DEF Endpoint, loopVars
  <2> QED BY <1>1, <1>2, <2>1, <2>3, AnswersStep, ClosesStep
<1>8. CASE Tick
  <2>1. Underway /\ verdict' = "running"
    BY <1>1, <1>8 DEF Tick, loopVars
  <2> QED BY <1>1, <1>2, <1>8, <2>1, TickStep
<1>9. CASE UNCHANGED probeVars
  <2>1. UNCHANGED <<client, writable, readable, arrived, turn, batch, streaming_started, verdict, peer, now, lag>>
    BY <1>9 DEF probeVars, clientVars, loopVars
  <2>2. ProbeTypeOK' /\ VerdictsAreEvidence'
    BY <1>1, <2>1 DEF ProbeTypeOK, VerdictsAreEvidence
  <2>3. ASSUME verdict = "running" PROVE Underway'
    <3>1. \A e \in Endpoints : Promised(e)'
      BY <1>1, <2>1, <2>3 DEF Underway, Promised, ReadPending, WritePending
    <3>2. HandshakeInTime' /\ TurnInOrder' /\ CountedSinceStart'
      BY <1>1, <2>1, <2>3 DEF Underway, HandshakeInTime, AllSound, TurnInOrder, CountedSinceStart
    <3> QED BY <1>1, <2>1, <2>3, <3>1, <3>2 DEF Underway
  <2> QED BY <2>1, <2>2, <2>3 DEF ProbeInv
<1> QED BY <1>3, <1>4, <1>5, <1>6, <1>7, <1>8, <1>9 DEF ProbeNext, Loop

(* The verdict of Probe::run is evidence about the fleet, for any number of*)
(* endpoints, either version, any duration, timeout, buffer and lateness   *)
(* that LatenessAssumption allows: a run fails only when an endpoint did   *)
(* something wrong, and one that passes has counted the minimum of samples *)
(* of every endpoint, with none left out in between.                       *)
THEOREM ProbeVerdicts == ProbeSpec => []VerdictsAreEvidence
<1>1. ProbeInv => VerdictsAreEvidence
  BY DEF ProbeInv
<1> QED BY <1>1, ProbeStarts, ProbeContinues, PTL DEF ProbeSpec

Byte == 0 .. 255

(* The bits of a byte.                                                     *)
LEMMA ByteIsItsBits ==
  ASSUME NEW a \in Byte
  PROVE  a = (a % 2) + 2 * ((a \div 2) % 2) + 4 * ((a \div 4) % 2) + 8 * ((a \div 8) % 2)
               + 16 * ((a \div 16) % 2) + 32 * ((a \div 32) % 2) + 64 * ((a \div 64) % 2)
               + 128 * ((a \div 128) % 2)
  BY SMTT(40) DEF Byte

LEMMA BitType ==
  ASSUME NEW a \in Nat, NEW m \in {1, 2, 4, 8, 16, 32, 64, 128}
  PROVE  (a \div m) % 2 \in {0, 1}
  OBVIOUS

LEMMA ByteIsNatural == Byte \subseteq Nat /\ 0 \in Byte
  BY DEF Byte

(* XOR of two bytes, bit by bit.                                           *)
LEMMA DifferType ==
  ASSUME NEW a, NEW b, NEW m \in Nat
  PROVE  V2!Differ(a, b, m) \in {0, m}
  BY DEF V2!Differ

LEMMA XorAt ==
  ASSUME NEW a \in Byte, NEW b \in Byte
  PROVE  V2!Xor[a][b] =
     V2!Differ(a, b, 1) + V2!Differ(a, b, 2) + V2!Differ(a, b, 4) + V2!Differ(a, b, 8)
       + V2!Differ(a, b, 16) + V2!Differ(a, b, 32) + V2!Differ(a, b, 64) + V2!Differ(a, b, 128)
  BY DEF V2!Xor, Byte

LEMMA XorType ==
  ASSUME NEW a \in Byte, NEW b \in Byte
  PROVE  V2!Xor[a][b] \in Byte
<1>1. /\ V2!Differ(a, b, 1) \in {0, 1} /\ V2!Differ(a, b, 2) \in {0, 2}
      /\ V2!Differ(a, b, 4) \in {0, 4} /\ V2!Differ(a, b, 8) \in {0, 8}
      /\ V2!Differ(a, b, 16) \in {0, 16} /\ V2!Differ(a, b, 32) \in {0, 32}
      /\ V2!Differ(a, b, 64) \in {0, 64} /\ V2!Differ(a, b, 128) \in {0, 128}
  BY DifferType
<1>2. V2!Xor[a][b] =
        V2!Differ(a, b, 1) + V2!Differ(a, b, 2) + V2!Differ(a, b, 4) + V2!Differ(a, b, 8)
          + V2!Differ(a, b, 16) + V2!Differ(a, b, 32) + V2!Differ(a, b, 64) + V2!Differ(a, b, 128)
  BY XorAt
<1> QED BY <1>1, <1>2 DEF Byte

(* Sums of different powers of two are equal only when their terms are.    *)
LEMMA SumsOfBits ==
  ASSUME NEW a1 \in {0, 1}, NEW a2 \in {0, 2}, NEW a4 \in {0, 4}, NEW a8 \in {0, 8},
         NEW a16 \in {0, 16}, NEW a32 \in {0, 32}, NEW a64 \in {0, 64}, NEW a128 \in {0, 128},
         NEW b1 \in {0, 1}, NEW b2 \in {0, 2}, NEW b4 \in {0, 4}, NEW b8 \in {0, 8},
         NEW b16 \in {0, 16}, NEW b32 \in {0, 32}, NEW b64 \in {0, 64}, NEW b128 \in {0, 128},
         a1 + a2 + a4 + a8 + a16 + a32 + a64 + a128
           = b1 + b2 + b4 + b8 + b16 + b32 + b64 + b128
  PROVE  /\ a1 = b1 /\ a2 = b2 /\ a4 = b4 /\ a8 = b8
         /\ a16 = b16 /\ a32 = b32 /\ a64 = b64 /\ a128 = b128
<1>1. a128 = b128
  OBVIOUS
<1>2. a64 = b64
  BY <1>1
<1>3. a32 = b32
  BY <1>1, <1>2
<1>4. a16 = b16
  BY <1>1, <1>2, <1>3
<1>5. a8 = b8
  BY <1>1, <1>2, <1>3, <1>4
<1>6. a4 = b4
  BY <1>1, <1>2, <1>3, <1>4, <1>5
<1>7. a2 = b2
  BY <1>1, <1>2, <1>3, <1>4, <1>5, <1>6
<1> QED BY <1>1, <1>2, <1>3, <1>4, <1>5, <1>6, <1>7

LEMMA DifferCancels ==
  ASSUME NEW a \in Nat, NEW b \in Nat, NEW c \in Nat, NEW m \in {1, 2, 4, 8, 16, 32, 64, 128},
         V2!Differ(a, b, m) = V2!Differ(a, c, m)
  PROVE  (b \div m) % 2 = (c \div m) % 2
<1>1. (a \div m) % 2 \in {0, 1} /\ (b \div m) % 2 \in {0, 1} /\ (c \div m) % 2 \in {0, 1}
  BY BitType
<1>2. m # 0
  OBVIOUS
<1> QED BY <1>1, <1>2 DEF V2!Differ

LEMMA SameBits ==
  ASSUME NEW b \in Byte, NEW c \in Byte,
         \A m \in {1, 2, 4, 8, 16, 32, 64, 128} : (b \div m) % 2 = (c \div m) % 2
  PROVE  b = c
<1>1. /\ (b \div 1) % 2 = (c \div 1) % 2 /\ (b \div 2) % 2 = (c \div 2) % 2
      /\ (b \div 4) % 2 = (c \div 4) % 2 /\ (b \div 8) % 2 = (c \div 8) % 2
      /\ (b \div 16) % 2 = (c \div 16) % 2 /\ (b \div 32) % 2 = (c \div 32) % 2
      /\ (b \div 64) % 2 = (c \div 64) % 2 /\ (b \div 128) % 2 = (c \div 128) % 2
  OBVIOUS
<1>2. b \div 1 = b /\ c \div 1 = c
  BY DEF Byte
<1> HIDE DEF Byte
<1> DEFINE Sum(x) == (x % 2) + 2 * ((x \div 2) % 2) + 4 * ((x \div 4) % 2) + 8 * ((x \div 8) % 2)
               + 16 * ((x \div 16) % 2) + 32 * ((x \div 32) % 2) + 64 * ((x \div 64) % 2)
               + 128 * ((x \div 128) % 2)
<1>3. b = Sum(b) /\ c = Sum(c)
  BY ByteIsItsBits
<1>4. Sum(b) = Sum(c)
  BY ONLY <1>1, <1>2
<1> HIDE DEF Sum
<1> QED BY <1>3, <1>4

(* XOR with a byte can be undone.                                          *)
LEMMA XorCancels ==
  ASSUME NEW a \in Byte, NEW b \in Byte, NEW c \in Byte, V2!Xor[a][b] = V2!Xor[a][c]
  PROVE  b = c
<1> DEFINE d(m) == V2!Differ(a, b, m)
           e(m) == V2!Differ(a, c, m)
<1>1. /\ d(1) \in {0, 1} /\ d(2) \in {0, 2} /\ d(4) \in {0, 4} /\ d(8) \in {0, 8}
      /\ d(16) \in {0, 16} /\ d(32) \in {0, 32} /\ d(64) \in {0, 64} /\ d(128) \in {0, 128}
  BY DifferType
<1>2. /\ e(1) \in {0, 1} /\ e(2) \in {0, 2} /\ e(4) \in {0, 4} /\ e(8) \in {0, 8}
      /\ e(16) \in {0, 16} /\ e(32) \in {0, 32} /\ e(64) \in {0, 64} /\ e(128) \in {0, 128}
  BY DifferType
<1>3. d(1) + d(2) + d(4) + d(8) + d(16) + d(32) + d(64) + d(128)
        = e(1) + e(2) + e(4) + e(8) + e(16) + e(32) + e(64) + e(128)
  <2>1. V2!Xor[a][b] = d(1) + d(2) + d(4) + d(8) + d(16) + d(32) + d(64) + d(128)
    BY XorAt
  <2>2. V2!Xor[a][c] = e(1) + e(2) + e(4) + e(8) + e(16) + e(32) + e(64) + e(128)
    BY XorAt
  <2> HIDE DEF d, e
  <2> QED BY <2>1, <2>2
<1> HIDE DEF d, e
<1>4. /\ d(1) = e(1) /\ d(2) = e(2) /\ d(4) = e(4) /\ d(8) = e(8)
      /\ d(16) = e(16) /\ d(32) = e(32) /\ d(64) = e(64) /\ d(128) = e(128)
  BY <1>1, <1>2, <1>3, SumsOfBits, SMTT(40)
<1>5. \A m \in {1, 2, 4, 8, 16, 32, 64, 128} : d(m) = e(m)
  BY <1>4
<1>6. \A m \in {1, 2, 4, 8, 16, 32, 64, 128} : (b \div m) % 2 = (c \div m) % 2
  <2>1. a \in Nat /\ b \in Nat /\ c \in Nat
    BY ByteIsNatural
  <2>2. \A m \in {1, 2, 4, 8, 16, 32, 64, 128} : V2!Differ(a, b, m) = V2!Differ(a, c, m)
    BY <1>5 DEF d, e
  <2> QED BY ONLY <2>1, <2>2, DifferCancels
<1> QED BY <1>6, SameBits

LEMMA XorCommutes ==
  ASSUME NEW a \in Byte, NEW b \in Byte
  PROVE  V2!Xor[a][b] = V2!Xor[b][a]
<1>1. \A m : V2!Differ(a, b, m) = V2!Differ(b, a, m)
  BY DEF V2!Differ
<1>2. V2!Xor[a][b] =
        V2!Differ(a, b, 1) + V2!Differ(a, b, 2) + V2!Differ(a, b, 4) + V2!Differ(a, b, 8)
          + V2!Differ(a, b, 16) + V2!Differ(a, b, 32) + V2!Differ(a, b, 64) + V2!Differ(a, b, 128)
  BY XorAt
<1>3. V2!Xor[b][a] =
        V2!Differ(b, a, 1) + V2!Differ(b, a, 2) + V2!Differ(b, a, 4) + V2!Differ(b, a, 8)
          + V2!Differ(b, a, 16) + V2!Differ(b, a, 32) + V2!Differ(b, a, 64) + V2!Differ(b, a, 128)
  BY XorAt
<1> QED BY <1>1, <1>2, <1>3

LEMMA DifferZero ==
  ASSUME NEW a \in Nat, NEW m \in {1, 2, 4, 8, 16, 32, 64, 128}
  PROVE  V2!Differ(a, 0, m) = IF (a \div m) % 2 = 0 THEN 0 ELSE m
<1>1. (0 \div m) % 2 = 0
  OBVIOUS
<1> QED BY <1>1 DEF V2!Differ

LEMMA XorZero ==
  ASSUME NEW a \in Byte
  PROVE  V2!Xor[a][0] = a
<1>0. a \in Nat
  BY ByteIsNatural
<1>a1. V2!Differ(a, 0, 1) = 1 * ((a \div 1) % 2)
  <2>1. (a \div 1) % 2 \in {0, 1} /\ V2!Differ(a, 0, 1) = IF (a \div 1) % 2 = 0 THEN 0 ELSE 1
    BY <1>0, BitType, DifferZero
  <2> QED BY <2>1
<1>a2. V2!Differ(a, 0, 2) = 2 * ((a \div 2) % 2)
  <2>1. (a \div 2) % 2 \in {0, 1} /\ V2!Differ(a, 0, 2) = IF (a \div 2) % 2 = 0 THEN 0 ELSE 2
    BY <1>0, BitType, DifferZero
  <2> QED BY <2>1
<1>a4. V2!Differ(a, 0, 4) = 4 * ((a \div 4) % 2)
  <2>1. (a \div 4) % 2 \in {0, 1} /\ V2!Differ(a, 0, 4) = IF (a \div 4) % 2 = 0 THEN 0 ELSE 4
    BY <1>0, BitType, DifferZero
  <2> QED BY <2>1
<1>a8. V2!Differ(a, 0, 8) = 8 * ((a \div 8) % 2)
  <2>1. (a \div 8) % 2 \in {0, 1} /\ V2!Differ(a, 0, 8) = IF (a \div 8) % 2 = 0 THEN 0 ELSE 8
    BY <1>0, BitType, DifferZero
  <2> QED BY <2>1
<1>a16. V2!Differ(a, 0, 16) = 16 * ((a \div 16) % 2)
  <2>1. (a \div 16) % 2 \in {0, 1} /\ V2!Differ(a, 0, 16) = IF (a \div 16) % 2 = 0 THEN 0 ELSE 16
    BY <1>0, BitType, DifferZero
  <2> QED BY <2>1
<1>a32. V2!Differ(a, 0, 32) = 32 * ((a \div 32) % 2)
  <2>1. (a \div 32) % 2 \in {0, 1} /\ V2!Differ(a, 0, 32) = IF (a \div 32) % 2 = 0 THEN 0 ELSE 32
    BY <1>0, BitType, DifferZero
  <2> QED BY <2>1
<1>a64. V2!Differ(a, 0, 64) = 64 * ((a \div 64) % 2)
  <2>1. (a \div 64) % 2 \in {0, 1} /\ V2!Differ(a, 0, 64) = IF (a \div 64) % 2 = 0 THEN 0 ELSE 64
    BY <1>0, BitType, DifferZero
  <2> QED BY <2>1
<1>a128. V2!Differ(a, 0, 128) = 128 * ((a \div 128) % 2)
  <2>1. (a \div 128) % 2 \in {0, 1} /\ V2!Differ(a, 0, 128) = IF (a \div 128) % 2 = 0 THEN 0 ELSE 128
    BY <1>0, BitType, DifferZero
  <2> QED BY <2>1
<1>2. a \div 1 = a
  BY <1>0
<1>3. V2!Xor[a][0] = V2!Differ(a, 0, 1) + V2!Differ(a, 0, 2) + V2!Differ(a, 0, 4) + V2!Differ(a, 0, 8)
       + V2!Differ(a, 0, 16) + V2!Differ(a, 0, 32) + V2!Differ(a, 0, 64) + V2!Differ(a, 0, 128)
  BY ByteIsNatural, XorAt
<1> QED BY <1>0, <1>a1, <1>a2, <1>a4, <1>a8, <1>a16, <1>a32, <1>a64, <1>a128, <1>2, <1>3, ByteIsItsBits

(* XOR with a mask changes a byte.                                         *)
LEMMA XorChanges ==
  ASSUME NEW a \in Byte, NEW m \in Byte, m # 0
  PROVE  V2!Xor[a][m] \in Byte /\ V2!Xor[a][m] # a
<1>1. V2!Xor[a][m] = V2!Xor[a][0] => m = 0
  BY ByteIsNatural, XorCancels
<1> QED BY <1>1, XorZero, XorType

(* Two bytes as one number.                                                *)
Word == {n \in Nat : n <= 65535}

LEMMA WordIsNatural == Word \subseteq Nat
  BY SMT DEF Word

(* A round of the checksum: the top bit falls out, and when it was a one,  *)
(* bits 12, 5 and 0 are flipped.                                           *)
LEMMA RoundLow ==
  ASSUME NEW n \in Word, n < 32768
  PROVE  V2!Round1021(n) = 2 * n
  BY SMT DEF V2!Round1021, Word

Bit12(n) == IF ((2 * n - 65536) \div 4096) % 2 = 1 THEN -4096 ELSE 4096
Bit5(n) == IF ((2 * n - 65536) \div 32) % 2 = 1 THEN -32 ELSE 32

LEMMA RoundHigh ==
  ASSUME NEW n \in Word, n >= 32768
  PROVE  /\ V2!Round1021(n) = 2 * n - 65536 + Bit12(n) + Bit5(n) + 1
         /\ V2!Round1021(n) \in Word
         /\ Bit12(n) \in {4096, -4096} /\ Bit5(n) \in {32, -32}
         /\ Bit12(n) = 4096 <=> ((2 * n - 65536) \div 4096) % 2 = 0
         /\ Bit5(n) = 32 <=> ((2 * n - 65536) \div 32) % 2 = 0
<1> DEFINE r == 2 * n - 65536
           a == Bit12(n)
           b == Bit5(n)
<1>0. /\ a = IF (r \div 4096) % 2 = 1 THEN -4096 ELSE 4096
      /\ b = IF (r \div 32) % 2 = 1 THEN -32 ELSE 32
  BY SMT DEF Bit12, Bit5
<1>1. r \in Nat /\ r <= 65535 /\ r % 2 = 0 /\ (2 * n) % 65536 = r
  BY SMT DEF Word
<1>2. V2!Round1021(n) = V2!Flip(V2!Flip(V2!Flip(r, 4096), 32), 1)
  BY <1>1, SMT DEF V2!Round1021, Word
<1> HIDE DEF r, a, b
<1>3. V2!Flip(r, 4096) = r + a
  BY <1>0, <1>1, SMT DEF V2!Flip
<1>4. /\ r + a \in Nat /\ r + a <= 65535
      /\ ((r + a) \div 32) % 2 = (r \div 32) % 2 /\ (r + a) % 2 = 0
  BY <1>0, <1>1, SMT
<1>5. V2!Flip(r + a, 32) = r + a + b
  BY <1>0, <1>1, <1>4, SMT DEF V2!Flip
<1>6. r + a + b \in Nat /\ (r + a + b) % 2 = 0 /\ r + a + b <= 65535
  BY <1>0, <1>1, <1>4, SMT
<1>7. V2!Flip(r + a + b, 1) = r + a + b + 1
  BY <1>6, SMT DEF V2!Flip
<1>8. (r \div 4096) % 2 \in {0, 1} /\ (r \div 32) % 2 \in {0, 1}
  BY <1>1, SMT
<1>9. r + a + b + 1 \in Word
  BY <1>6, SMT DEF Word
<1>10. a \in {4096, -4096} /\ b \in {32, -32} /\ (a = 4096 <=> (r \div 4096) % 2 = 0)
       /\ (b = 32 <=> (r \div 32) % 2 = 0)
  BY <1>0, <1>8, SMT
<1>11. V2!Round1021(n) = r + a + b + 1
  BY <1>2, <1>3, <1>5, <1>7, SMT
<1> QED BY <1>9, <1>10, <1>11, SMT DEF r, a, b

LEMMA RoundType ==
  ASSUME NEW n \in Word
  PROVE  V2!Round1021(n) \in Word
<1>1. CASE n < 32768
  BY <1>1, RoundLow, SMT DEF Word
<1>2. CASE n >= 32768
  BY <1>2, RoundHigh, SMT
<1> QED BY <1>1, <1>2, SMT DEF Word

Powers == {1, 2, 4, 8, 16, 32, 64, 128}

(* Numbers that agree in their low bits are both odd or both even.         *)
LEMMA SameParity ==
  ASSUME NEW x \in Nat, NEW y \in Nat, NEW k \in Powers, x % (2 * k) = y % (2 * k)
  PROVE  x % 2 = y % 2
<1>1. CASE k = 1
  BY <1>1, SMT
<1>2. CASE k = 2
  BY <1>2, SMT
<1>3. CASE k = 4
  BY <1>3, SMT
<1>4. CASE k = 8
  BY <1>4, SMT
<1>5. CASE k = 16
  BY <1>5, SMT
<1>6. CASE k = 32
  BY <1>6, SMT
<1>7. CASE k = 64
  BY <1>7, SMT
<1>8. CASE k = 128
  BY <1>8, SMT
<1> QED BY <1>1, <1>2, <1>3, <1>4, <1>5, <1>6, <1>7, <1>8, SMT DEF Powers

(* The number that is added when bit 12 or bit 5 is flipped.               *)
Bits12 == {4096, -4096}
Flips5(r, b) == b \in {32, -32} /\ (b = 32 <=> (r \div 32) % 2 = 0)

(* The number of the low seven or eight bits, with bit 5 flipped.          *)
LEMMA FlipIsInjective ==
  ASSUME NEW s \in Byte, NEW t \in Byte, NEW b, NEW d, Flips5(s, b), Flips5(t, d), s + b = t + d
  PROVE  s = t
  BY SMT DEF Flips5, Byte

LEMMA LowBitsFlip ==
  ASSUME NEW r \in Nat, NEW s \in Nat, NEW a \in Bits12, NEW c \in Bits12, NEW b, NEW d,
         Flips5(r, b), Flips5(s, d), r % 2 = 0, s % 2 = 0, NEW k \in Powers,
         (r + a + b + 1) % (2 * k) = (s + c + d + 1) % (2 * k)
  PROVE  r % (2 * k) = s % (2 * k)
<1>0. a \in {4096, -4096} /\ c \in {4096, -4096} /\ b \in {32, -32} /\ d \in {32, -32}
  BY SMT DEF Flips5, Bits12
<1>1. CASE k = 1
  BY <1>1, SMT
<1>2. CASE k = 2
  BY <1>0, <1>2, SMT
<1>3. CASE k = 4
  BY <1>0, <1>3, SMT
<1>4. CASE k = 8
  BY <1>0, <1>4, SMT
<1>5. CASE k = 16
  BY <1>0, <1>5, SMT
<1>6. CASE k = 32
  <2>1. /\ r % 64 \in 0..63 /\ (r \div 32) % 2 = ((r % 64) \div 32) % 2
        /\ s % 64 \in 0..63 /\ (s \div 32) % 2 = ((s % 64) \div 32) % 2
    BY SMT
  <2>2. Flips5(r % 64, b) /\ Flips5(s % 64, d)
    BY <2>1, SMT DEF Flips5
  <2>3. (r + a + b + 1) % 64 = (r % 64) + b + 1
    BY <1>0, <2>1, <2>2, SMT DEF Flips5
  <2>4. (s + c + d + 1) % 64 = (s % 64) + d + 1
    BY <1>0, <2>1, <2>2, SMT DEF Flips5
  <2>5. (r % 64) + b = (s % 64) + d
    BY <1>0, <1>6, <2>1, <2>3, <2>4, SMT
  <2>6. r % 64 \in Byte /\ s % 64 \in Byte
    BY <2>1, SMT DEF Byte
  <2>7. r % 64 = s % 64
    BY ONLY <2>2, <2>5, <2>6, FlipIsInjective
  <2> QED BY <1>6, <2>7, SMT
<1>7. CASE k = 64
  <2>1. /\ r % 128 \in 0..127 /\ (r \div 32) % 2 = ((r % 128) \div 32) % 2
        /\ s % 128 \in 0..127 /\ (s \div 32) % 2 = ((s % 128) \div 32) % 2
    BY SMTT(40)
  <2>2. Flips5(r % 128, b) /\ Flips5(s % 128, d)
    BY <2>1, SMT DEF Flips5
  <2>3. (r + a + b + 1) % 128 = (r % 128) + b + 1
    BY <1>0, <2>1, <2>2, SMT DEF Flips5
  <2>4. (s + c + d + 1) % 128 = (s % 128) + d + 1
    BY <1>0, <2>1, <2>2, SMT DEF Flips5
  <2>5. (r % 128) + b = (s % 128) + d
    BY <1>0, <1>7, <2>1, <2>3, <2>4, SMT
  <2>6. r % 128 \in Byte /\ s % 128 \in Byte
    BY <2>1, SMT DEF Byte
  <2>7. r % 128 = s % 128
    BY ONLY <2>2, <2>5, <2>6, FlipIsInjective
  <2> QED BY <1>7, <2>7, SMT
<1>8. CASE k = 128
  <2>1. /\ r % 256 \in 0..255 /\ (r \div 32) % 2 = ((r % 256) \div 32) % 2
        /\ s % 256 \in 0..255 /\ (s \div 32) % 2 = ((s % 256) \div 32) % 2
    BY SMT
  <2>2. Flips5(r % 256, b) /\ Flips5(s % 256, d)
    BY <2>1, SMT DEF Flips5
  <2>3. (r + a + b + 1) % 256 = (r % 256) + b + 1
    BY <1>0, <2>1, <2>2, SMT DEF Flips5
  <2>4. (s + c + d + 1) % 256 = (s % 256) + d + 1
    BY <1>0, <2>1, <2>2, SMT DEF Flips5
  <2>5. (r % 256) + b = (s % 256) + d
    BY <1>0, <1>8, <2>1, <2>3, <2>4, SMT
  <2>6. r % 256 \in Byte /\ s % 256 \in Byte
    BY <2>1, SMT DEF Byte
  <2>7. r % 256 = s % 256
    BY ONLY <2>2, <2>5, <2>6, FlipIsInjective
  <2> QED BY <1>8, <2>7, SMT
<1> QED BY <1>1, <1>2, <1>3, <1>4, <1>5, <1>6, <1>7, <1>8, SMT DEF Powers

Drop(n) == 2 * n - 65536
IsHigh(n) == n >= 32768

(* A round in which a one falls out, in the terms of these lemmas.         *)
LEMMA HighRound ==
  ASSUME NEW n \in Word, IsHigh(n)
  PROVE  /\ V2!Round1021(n) = Drop(n) + Bit12(n) + Bit5(n) + 1
         /\ Drop(n) \in Nat /\ Drop(n) % 2 = 0
         /\ Bit12(n) \in Bits12 /\ Flips5(Drop(n), Bit5(n))
         /\ (Bit12(n) = 4096 <=> (Drop(n) \div 4096) % 2 = 0)
<1>1. n \in Nat /\ n >= 32768
  BY SMT DEF Word, IsHigh
<1> QED BY <1>1, RoundHigh, SMT DEF Drop, Bits12, Flips5

LEMMA LowRound ==
  ASSUME NEW n \in Word, ~IsHigh(n)
  PROVE  V2!Round1021(n) = 2 * n
<1>1. n \in Nat /\ n < 32768
  BY SMT DEF Word, IsHigh
<1> QED BY <1>1, RoundLow, SMT

LEMMA RoundParity ==
  ASSUME NEW n \in Word
  PROVE  V2!Round1021(n) \in Nat /\ (V2!Round1021(n) % 2 = 1 <=> IsHigh(n))
<1>0. n \in Nat /\ V2!Round1021(n) \in Nat
  BY RoundType, WordIsNatural
<1>1. CASE IsHigh(n)
  <2>1. /\ V2!Round1021(n) = Drop(n) + Bit12(n) + Bit5(n) + 1
        /\ Drop(n) \in Nat /\ Drop(n) % 2 = 0
        /\ Bit12(n) \in Bits12 /\ Flips5(Drop(n), Bit5(n))
    BY <1>1, HighRound
  <2> QED BY <1>0, <1>1, <2>1, SMT DEF Bits12, Flips5
<1>2. CASE ~IsHigh(n)
  <2>1. V2!Round1021(n) = 2 * n
    BY <1>2, LowRound
  <2> QED BY <1>0, <1>2, <2>1, SMT
<1> QED BY <1>1, <1>2

LEMMA BothHalves ==
  ASSUME NEW x \in Int, NEW y \in Int, NEW k \in Powers, (2 * x) % (2 * k) = (2 * y) % (2 * k)
  PROVE  x % k = y % k
<1>1. CASE k = 1
  BY <1>1, SMT
<1>2. CASE k = 2
  BY <1>2, SMT
<1>3. CASE k = 4
  BY <1>3, SMT
<1>4. CASE k = 8
  BY <1>4, SMT
<1>5. CASE k = 16
  BY <1>5, SMT
<1>6. CASE k = 32
  BY <1>6, SMT
<1>7. CASE k = 64
  BY <1>7, SMT
<1>8. CASE k = 128
  BY <1>8, SMT
<1> QED BY <1>1, <1>2, <1>3, <1>4, <1>5, <1>6, <1>7, <1>8, SMT DEF Powers

LEMMA DroppedHalves ==
  ASSUME NEW n \in Nat, NEW m \in Nat, NEW k \in Powers, Drop(n) % (2 * k) = Drop(m) % (2 * k)
  PROVE  n % k = m % k
<1> DEFINE x == n - 32768
           y == m - 32768
<1>1. x \in Int /\ y \in Int /\ Drop(n) = 2 * x /\ Drop(m) = 2 * y
  BY SMT DEF Drop
<1>2. (k = 1 \/ k = 2 \/ k = 4 \/ k = 8 \/ k = 16 \/ k = 32 \/ k = 64 \/ k = 128)
  BY SMT DEF Powers
<1>3. x % k = n % k /\ y % k = m % k
  BY <1>2, SMT
<1> HIDE DEF x, y
<1>4. (2 * x) % (2 * k) = (2 * y) % (2 * k)
  BY <1>1
<1> QED BY <1>1, <1>3, <1>4, BothHalves

(* Backwards through a round: its low bits tell whether a one fell out and *)
(* what the low bits were before.                                          *)
LEMMA Back ==
  ASSUME NEW n \in Word, NEW m \in Word, NEW k \in Powers,
         V2!Round1021(n) % (2 * k) = V2!Round1021(m) % (2 * k)
  PROVE  (IsHigh(n) <=> IsHigh(m)) /\ n % k = m % k
<1>0. n \in Nat /\ m \in Nat /\ V2!Round1021(n) \in Nat /\ V2!Round1021(m) \in Nat
  BY RoundType, WordIsNatural
<1>1. V2!Round1021(n) % 2 = V2!Round1021(m) % 2
  BY <1>0, SameParity
<1>2. IsHigh(n) <=> IsHigh(m)
  BY <1>1, RoundParity
<1>3. CASE ~IsHigh(n)
  <2>1. V2!Round1021(n) = 2 * n /\ V2!Round1021(m) = 2 * m
    BY <1>2, <1>3, LowRound
  <2>2. n \in Int /\ m \in Int
    BY <1>0
  <2>3. (2 * n) % (2 * k) = (2 * m) % (2 * k)
    BY <2>1
  <2> QED BY <1>2, <2>2, <2>3, BothHalves
<1>4. CASE IsHigh(n)
  <2>1. /\ V2!Round1021(n) = Drop(n) + Bit12(n) + Bit5(n) + 1
        /\ Drop(n) \in Nat /\ Drop(n) % 2 = 0
        /\ Bit12(n) \in Bits12 /\ Flips5(Drop(n), Bit5(n))
    BY <1>4, HighRound
  <2>2. /\ V2!Round1021(m) = Drop(m) + Bit12(m) + Bit5(m) + 1
        /\ Drop(m) \in Nat /\ Drop(m) % 2 = 0
        /\ Bit12(m) \in Bits12 /\ Flips5(Drop(m), Bit5(m))
    BY <1>2, <1>4, HighRound
  <2>3. (Drop(n) + Bit12(n) + Bit5(n) + 1) % (2 * k) = (Drop(m) + Bit12(m) + Bit5(m) + 1) % (2 * k)
    BY <2>1, <2>2
  <2>4. Drop(n) % (2 * k) = Drop(m) % (2 * k)
    BY ONLY <2>1, <2>2, <2>3, k \in Powers, LowBitsFlip
  <2> QED BY <1>0, <1>2, <2>4, DroppedHalves
<1> QED BY <1>3, <1>4

(* The places above the byte that a round carries up.                      *)
Heights == {256, 512, 1024, 2048, 4096, 8192, 16384}

(* What agrees from a place on agrees from every higher place on.          *)
LEMMA HigherBits ==
  ASSUME NEW x \in Int, NEW y \in Int, x \div 64 = y \div 64, NEW p \in Heights
  PROVE  x \div (2 * p) = y \div (2 * p)
<1>1. CASE p = 256
  BY <1>1, SMT
<1>2. CASE p = 512
  BY <1>2, SMT
<1>3. CASE p = 1024
  BY <1>3, SMT
<1>4. CASE p = 2048
  BY <1>4, SMT
<1>5. CASE p = 4096
  BY <1>5, SMT
<1>6. CASE p = 8192
  BY <1>6, SMT
<1>7. CASE p = 16384
  BY <1>7, SMT
<1> QED BY <1>1, <1>2, <1>3, <1>4, <1>5, <1>6, <1>7, SMT DEF Heights

LEMMA Above5 ==
  ASSUME NEW r \in Nat, NEW a \in Bits12, NEW b, Flips5(r, b), r % 2 = 0, NEW p \in Heights
  PROVE  (r + a + b + 1) \div (2 * p) = (r + a) \div (2 * p)
<1>0. a \in {4096, -4096} /\ b \in {32, -32}
  BY SMT DEF Bits12, Flips5
<1>1. b + 1 + (r % 64) \in 0..63
  BY SMT DEF Flips5
<1>2. (r + a + b + 1) \div 64 = (r + a) \div 64
  BY <1>0, <1>1, SMT
<1>3. r + a + b + 1 \in Int /\ r + a \in Int
  BY <1>0, SMT
<1> QED BY <1>2, <1>3, HigherBits

Flips12(r, a) == a \in Bits12 /\ (a = 4096 <=> (r \div 4096) % 2 = 0)

LEMMA AddBelow ==
  ASSUME NEW r \in Nat, NEW a \in Int, 0 <= (r % 8192) + a, (r % 8192) + a < 8192
  PROVE  (r + a) \div 8192 = r \div 8192
<1>1. PICK t \in Int : t = (r % 8192) + a
  BY SMT
<1>2. PICK q \in Int : q = r \div 8192
  BY SMT
<1>3. r = 8192 * q + (r % 8192)
  BY <1>2, SMT
<1>4. r + a = 8192 * q + t
  BY <1>1, <1>2, <1>3, SMT
<1>5. 0 <= t /\ t < 8192
  BY <1>1
<1>6. (8192 * q + t) \div 8192 = q
  BY ONLY q \in Int, t \in Int, <1>5, SMTT(40)
<1> QED BY <1>2, <1>4, <1>6

LEMMA Above12 ==
  ASSUME NEW r \in Nat, NEW s \in Nat, NEW a, NEW c, Flips12(r, a), Flips12(s, c),
         NEW p \in Heights, (r + a) \div (2 * p) = (s + c) \div (2 * p)
  PROVE  r \div (2 * p) = s \div (2 * p)
<1>0. a \in {4096, -4096} /\ c \in {4096, -4096}
  BY SMT DEF Bits12, Flips12
<1>4. CASE p = 256
  <2> DEFINE u == r \div 512
             v == s \div 512
  <2>1. /\ u \in Nat /\ v \in Nat
        /\ (r + a) \div 512 = IF a = 4096 THEN u + 8 ELSE u - 8
        /\ (s + c) \div 512 = IF c = 4096 THEN v + 8 ELSE v - 8
    BY <1>0, SMT
  <2>2. (r \div 4096) % 2 = (u \div 8) % 2 /\ (s \div 4096) % 2 = (v \div 8) % 2
    BY SMT
  <2> HIDE DEF u, v
  <2>3. u = v
    BY <1>4, <2>1, <2>2, SMT DEF Flips12
  <2> QED BY <1>4, <2>3, SMT DEF u, v
<1>5. CASE p = 512
  <2> DEFINE u == r \div 1024
             v == s \div 1024
  <2>1. /\ u \in Nat /\ v \in Nat
        /\ (r + a) \div 1024 = IF a = 4096 THEN u + 4 ELSE u - 4
        /\ (s + c) \div 1024 = IF c = 4096 THEN v + 4 ELSE v - 4
    BY <1>0, SMT
  <2>2. (r \div 4096) % 2 = (u \div 4) % 2 /\ (s \div 4096) % 2 = (v \div 4) % 2
    BY SMT
  <2> HIDE DEF u, v
  <2>3. u = v
    BY <1>5, <2>1, <2>2, SMT DEF Flips12
  <2> QED BY <1>5, <2>3, SMT DEF u, v
<1>6. CASE p = 1024
  <2> DEFINE u == r \div 2048
             v == s \div 2048
  <2>1. /\ u \in Nat /\ v \in Nat
        /\ (r + a) \div 2048 = IF a = 4096 THEN u + 2 ELSE u - 2
        /\ (s + c) \div 2048 = IF c = 4096 THEN v + 2 ELSE v - 2
    BY <1>0, SMT
  <2>2. (r \div 4096) % 2 = (u \div 2) % 2 /\ (s \div 4096) % 2 = (v \div 2) % 2
    BY SMT
  <2> HIDE DEF u, v
  <2>3. u = v
    BY <1>6, <2>1, <2>2, SMT DEF Flips12
  <2> QED BY <1>6, <2>3, SMT DEF u, v
<1>7. CASE p = 2048
  BY <1>0, <1>7, SMT DEF Flips12
<1>8. CASE p \in {4096, 8192, 16384}
  <2>1. /\ 0 <= (r % 8192) + a /\ (r % 8192) + a < 8192
        /\ 0 <= (s % 8192) + c /\ (s % 8192) + c < 8192
    <3>1. (r \div 4096) % 2 = (r % 8192) \div 4096 /\ (s \div 4096) % 2 = (s % 8192) \div 4096
      BY SMT
    <3>2. /\ r % 8192 \in Nat /\ r % 8192 < 8192
          /\ s % 8192 \in Nat /\ s % 8192 < 8192
      BY SMT
    <3> QED BY <1>0, <3>1, <3>2, SMTT(40) DEF Flips12
  <2>2. (r + a) \div 8192 = r \div 8192 /\ (s + c) \div 8192 = s \div 8192
    BY <1>0, <2>1, AddBelow
  <2>6. r + a \in Int /\ s + c \in Int
    BY <1>0, SMT
  <2>7. \A x \in Int : x \div 16384 = (x \div 8192) \div 2 /\ x \div 32768 = (x \div 8192) \div 4
    BY ONLY SMT
  <2>3. CASE p = 4096
    BY <2>2, <2>3, SMT
  <2>4. CASE p = 8192
    <3>1. (r + a) \div 16384 = (s + c) \div 16384
      BY <2>4, SMT
    <3>2. r \div 16384 = s \div 16384
      BY ONLY r \in Int, s \in Int, <2>2, <2>6, <2>7, <3>1, SMT
    <3> QED BY <2>4, <3>2, SMT
  <2>5. CASE p = 16384
    <3>1. (r + a) \div 32768 = (s + c) \div 32768
      BY <2>5, SMT
    <3>2. r \div 32768 = s \div 32768
      BY ONLY r \in Int, s \in Int, <2>2, <2>6, <2>7, <3>1, SMT
    <3> QED BY <2>5, <3>2, SMT
  <2> QED BY <1>8, <2>3, <2>4, <2>5, SMTT(40)
<1> QED BY <1>4, <1>5, <1>6, <1>7, <1>8, SMT DEF Heights

LEMMA HalvesAbove ==
  ASSUME NEW x \in Int, NEW p \in Heights
  PROVE  (2 * x) \div (2 * p) = x \div p
<1>1. CASE p = 256
  BY <1>1, SMT
<1>2. CASE p = 512
  BY <1>2, SMT
<1>3. CASE p = 1024
  BY <1>3, SMT
<1>4. CASE p = 2048
  BY <1>4, SMT
<1>5. CASE p = 4096
  BY <1>5, SMT
<1>6. CASE p = 8192
  BY <1>6, SMT
<1>7. CASE p = 16384
  BY <1>7, SMT
<1> QED BY <1>1, <1>2, <1>3, <1>4, <1>5, <1>6, <1>7, SMT DEF Heights

LEMMA DroppedAbove ==
  ASSUME NEW n \in Nat, NEW m \in Nat, NEW p \in Heights, Drop(n) \div (2 * p) = Drop(m) \div (2 * p)
  PROVE  n \div p = m \div p
<1> DEFINE x == n - 32768
           y == m - 32768
<1>1. x \in Int /\ y \in Int /\ Drop(n) = 2 * x /\ Drop(m) = 2 * y
  BY SMT DEF Drop
<1>2. (p = 256 \/ p = 512 \/ p = 1024 \/ p = 2048 \/ p = 4096 \/ p = 8192 \/ p = 16384)
  BY SMT DEF Heights
<1>3. (x \div p = y \div p) => (n \div p = m \div p)
  BY <1>2, SMT
<1> HIDE DEF x, y
<1>4. x \div p = y \div p
  BY <1>1, HalvesAbove
<1> QED BY <1>3, <1>4

(* Forwards: the fallen bit and the high bits after a round tell the high  *)
(* bits before it.                                                         *)
LEMMA Forth ==
  ASSUME NEW n \in Word, NEW m \in Word, NEW p \in Heights, IsHigh(n) <=> IsHigh(m),
         V2!Round1021(n) \div (2 * p) = V2!Round1021(m) \div (2 * p)
  PROVE  n \div p = m \div p
<1>0. n \in Nat /\ m \in Nat /\ n \in Int /\ m \in Int
  BY WordIsNatural
<1>1. CASE ~IsHigh(n)
  <2>1. V2!Round1021(n) = 2 * n /\ V2!Round1021(m) = 2 * m
    BY <1>1, LowRound
  <2> QED BY <1>0, <2>1, HalvesAbove
<1>2. CASE IsHigh(n)
  <2>1. /\ V2!Round1021(n) = Drop(n) + Bit12(n) + Bit5(n) + 1
        /\ Drop(n) \in Nat /\ Drop(n) % 2 = 0
        /\ Bit12(n) \in Bits12 /\ Flips5(Drop(n), Bit5(n)) /\ Flips12(Drop(n), Bit12(n))
    BY <1>2, HighRound DEF Flips12
  <2>2. /\ V2!Round1021(m) = Drop(m) + Bit12(m) + Bit5(m) + 1
        /\ Drop(m) \in Nat /\ Drop(m) % 2 = 0
        /\ Bit12(m) \in Bits12 /\ Flips5(Drop(m), Bit5(m)) /\ Flips12(Drop(m), Bit12(m))
    BY <1>2, HighRound DEF Flips12
  <2>3. /\ (Drop(n) + Bit12(n) + Bit5(n) + 1) \div (2 * p) = (Drop(n) + Bit12(n)) \div (2 * p)
        /\ (Drop(m) + Bit12(m) + Bit5(m) + 1) \div (2 * p) = (Drop(m) + Bit12(m)) \div (2 * p)
    BY ONLY <2>1, <2>2, p \in Heights, Above5
  <2>4. (Drop(n) + Bit12(n)) \div (2 * p) = (Drop(m) + Bit12(m)) \div (2 * p)
    BY <2>1, <2>2, <2>3
  <2>5. Drop(n) \div (2 * p) = Drop(m) \div (2 * p)
    BY ONLY <2>1, <2>2, <2>4, p \in Heights, Above12
  <2> QED BY <1>0, <2>5, DroppedAbove
<1> QED BY <1>1, <1>2

(* The low byte after eight rounds tells the byte they began with.         *)
LowRounds(h) == V2!Rounds[h] % 256

LEMMA RoundsAreInjective ==
  ASSUME NEW g \in Byte, NEW h \in Byte, LowRounds(g) = LowRounds(h)
  PROVE  g = h
<1> DEFINE n0 == 256 * g
           n1 == V2!Round1021(n0)
           n2 == V2!Round1021(n1)
           n3 == V2!Round1021(n2)
           n4 == V2!Round1021(n3)
           n5 == V2!Round1021(n4)
           n6 == V2!Round1021(n5)
           n7 == V2!Round1021(n6)
           n8 == V2!Round1021(n7)
           m0 == 256 * h
           m1 == V2!Round1021(m0)
           m2 == V2!Round1021(m1)
           m3 == V2!Round1021(m2)
           m4 == V2!Round1021(m3)
           m5 == V2!Round1021(m4)
           m6 == V2!Round1021(m5)
           m7 == V2!Round1021(m6)
           m8 == V2!Round1021(m7)
<1>1. n0 \in Word /\ m0 \in Word
  BY SMT DEF Word, Byte
<1>2. n8 % 256 = m8 % 256
  BY DEF LowRounds, V2!Rounds, Byte
<1>3. /\ n1 \in Word /\ n2 \in Word /\ n3 \in Word /\ n4 \in Word
      /\ n5 \in Word /\ n6 \in Word /\ n7 \in Word
  <2> HIDE DEF n0
  <2> QED BY <1>1, RoundType
<1>4. /\ m1 \in Word /\ m2 \in Word /\ m3 \in Word /\ m4 \in Word
      /\ m5 \in Word /\ m6 \in Word /\ m7 \in Word
  <2> HIDE DEF m0
  <2> QED BY <1>1, RoundType
<1>h. /\ n1 = V2!Round1021(n0) /\ n2 = V2!Round1021(n1) /\ n3 = V2!Round1021(n2) /\ n4 = V2!Round1021(n3)
      /\ n5 = V2!Round1021(n4) /\ n6 = V2!Round1021(n5) /\ n7 = V2!Round1021(n6) /\ n8 = V2!Round1021(n7)
      /\ m1 = V2!Round1021(m0) /\ m2 = V2!Round1021(m1) /\ m3 = V2!Round1021(m2) /\ m4 = V2!Round1021(m3)
      /\ m5 = V2!Round1021(m4) /\ m6 = V2!Round1021(m5) /\ m7 = V2!Round1021(m6) /\ m8 = V2!Round1021(m7)
  OBVIOUS
<1>5. 256 * g = n0 /\ 256 * h = m0
  OBVIOUS
<1> HIDE DEF n0, n1, n2, n3, n4, n5, n6, n7, n8, m0, m1, m2, m3, m4, m5, m6, m7, m8
<1>b. \A n \in Word, m \in Word, k \in Powers, j \in Nat :
        j = 2 * k /\ V2!Round1021(n) % j = V2!Round1021(m) % j =>
          (IsHigh(n) <=> IsHigh(m)) /\ n % k = m % k
  BY ONLY Back
<1>p. /\ 1 \in Powers /\ 2 \in Powers /\ 4 \in Powers /\ 8 \in Powers /\ 16 \in Powers
      /\ 32 \in Powers /\ 64 \in Powers /\ 128 \in Powers
  BY SMT DEF Powers
<1>7. (IsHigh(n7) <=> IsHigh(m7)) /\ n7 % 128 = m7 % 128
  BY ONLY <1>2, <1>3, <1>4, <1>h, <1>b, <1>p, SMT
<1>8. (IsHigh(n6) <=> IsHigh(m6)) /\ n6 % 64 = m6 % 64
  BY ONLY <1>7, <1>3, <1>4, <1>h, <1>b, <1>p, SMT
<1>9. (IsHigh(n5) <=> IsHigh(m5)) /\ n5 % 32 = m5 % 32
  BY ONLY <1>8, <1>3, <1>4, <1>h, <1>b, <1>p, SMT
<1>10. (IsHigh(n4) <=> IsHigh(m4)) /\ n4 % 16 = m4 % 16
  BY ONLY <1>9, <1>3, <1>4, <1>h, <1>b, <1>p, SMT
<1>11. (IsHigh(n3) <=> IsHigh(m3)) /\ n3 % 8 = m3 % 8
  BY ONLY <1>10, <1>3, <1>4, <1>h, <1>b, <1>p, SMT
<1>12. (IsHigh(n2) <=> IsHigh(m2)) /\ n2 % 4 = m2 % 4
  BY ONLY <1>11, <1>3, <1>4, <1>h, <1>b, <1>p, SMT
<1>13. (IsHigh(n1) <=> IsHigh(m1)) /\ n1 % 2 = m1 % 2
  BY ONLY <1>12, <1>3, <1>4, <1>h, <1>b, <1>p, SMT
<1>14. IsHigh(n0) <=> IsHigh(m0)
  BY ONLY <1>13, <1>1, <1>h, <1>b, <1>p, SMT
<1>15. n7 \div 32768 = m7 \div 32768
  BY <1>3, <1>4, <1>7, SMT DEF IsHigh, Word
<1>f. \A n \in Word, m \in Word, p \in Heights, j \in Nat :
        j = 2 * p /\ (IsHigh(n) <=> IsHigh(m)) /\ V2!Round1021(n) \div j = V2!Round1021(m) \div j =>
          n \div p = m \div p
  BY ONLY Forth
<1>q. /\ 256 \in Heights /\ 512 \in Heights /\ 1024 \in Heights /\ 2048 \in Heights
      /\ 4096 \in Heights /\ 8192 \in Heights /\ 16384 \in Heights
  BY SMT DEF Heights
<1>16. n6 \div 16384 = m6 \div 16384
  BY ONLY <1>8, <1>15, <1>3, <1>4, <1>h, <1>f, <1>q, SMT
<1>17. n5 \div 8192 = m5 \div 8192
  BY ONLY <1>9, <1>16, <1>3, <1>4, <1>h, <1>f, <1>q, SMT
<1>18. n4 \div 4096 = m4 \div 4096
  BY ONLY <1>10, <1>17, <1>3, <1>4, <1>h, <1>f, <1>q, SMT
<1>19. n3 \div 2048 = m3 \div 2048
  BY ONLY <1>11, <1>18, <1>3, <1>4, <1>h, <1>f, <1>q, SMT
<1>20. n2 \div 1024 = m2 \div 1024
  BY ONLY <1>12, <1>19, <1>3, <1>4, <1>h, <1>f, <1>q, SMT
<1>21. n1 \div 512 = m1 \div 512
  BY ONLY <1>13, <1>20, <1>3, <1>4, <1>h, <1>f, <1>q, SMT
<1>22. n0 \div 256 = m0 \div 256
  BY ONLY <1>14, <1>21, <1>1, <1>3, <1>4, <1>h, <1>f, <1>q, SMT
<1> QED BY ONLY <1>5, <1>22, g \in Byte, h \in Byte, SMT DEF Byte

(* Checksums are pairs of bytes.                                           *)
Sums == Byte \X Byte
HighRounds(h) == V2!Rounds[h] \div 256

LEMMA PairsAgree ==
  ASSUME NEW a, NEW b, NEW c, NEW d, <<a, b>> = <<c, d>>
  PROVE  a = c /\ b = d
  OBVIOUS

LEMMA RoundsType ==
  ASSUME NEW h \in Byte
  PROVE  HighRounds(h) \in Byte /\ LowRounds(h) \in Byte
<1> DEFINE n0 == 256 * h
<1>1. n0 \in Word
  BY SMT DEF Word, Byte
<1>2. V2!Rounds[h] = V2!Round1021(V2!Round1021(V2!Round1021(V2!Round1021(
                    V2!Round1021(V2!Round1021(V2!Round1021(V2!Round1021(n0))))))))
  BY DEF V2!Rounds, Byte
<1> HIDE DEF n0
<1>3. V2!Rounds[h] \in Word
  BY <1>1, <1>2, RoundType
<1> QED BY <1>3, SMTT(40) DEF Word, HighRounds, LowRounds, Byte

LEMMA AbsorbIs ==
  ASSUME NEW c \in Sums, NEW b \in Byte
  PROVE  LET x == V2!Xor[c[1]][b]
         IN  /\ x \in Byte /\ c[1] \in Byte /\ c[2] \in Byte /\ V2!Absorb(c, b) \in Sums
             /\ V2!Absorb(c, b) = <<V2!Xor[c[2]][HighRounds(x)], LowRounds(x)>>
<1> DEFINE x == V2!Xor[c[1]][b]
<1>1. c[1] \in Byte /\ c[2] \in Byte
  BY DEF Sums
<1>2. x \in Byte
  BY <1>1, XorType
<1>3. V2!Absorb(c, b) = <<V2!Xor[c[2]][HighRounds(x)], LowRounds(x)>>
  BY DEF V2!Absorb, V2!Shifted, HighRounds, LowRounds
<1> HIDE DEF x
<1>4. V2!Xor[c[2]][HighRounds(x)] \in Byte /\ LowRounds(x) \in Byte
  BY <1>1, <1>2, RoundsType, XorType
<1>5. V2!Absorb(c, b) \in Sums
  BY <1>3, <1>4 DEF Sums
<1> QED BY <1>1, <1>2, <1>3, <1>5 DEF x

(* The low byte of a checksum tells the byte that came in last.            *)
LEMMA AbsorbLow ==
  ASSUME NEW c \in Sums, NEW b \in Byte, NEW d \in Byte, V2!Absorb(c, b)[2] = V2!Absorb(c, d)[2]
  PROVE  b = d
<1> DEFINE x == V2!Xor[c[1]][b]
           y == V2!Xor[c[1]][d]
<1>1. x \in Byte /\ V2!Absorb(c, b) = <<V2!Xor[c[2]][HighRounds(x)], LowRounds(x)>> /\ c[1] \in Byte
  BY AbsorbIs
<1>2. y \in Byte /\ V2!Absorb(c, d) = <<V2!Xor[c[2]][HighRounds(y)], LowRounds(y)>>
  BY AbsorbIs
<1> HIDE DEF x, y
<1>3. LowRounds(x) = LowRounds(y)
  BY <1>1, <1>2
<1>4. x = y
  BY <1>1, <1>2, <1>3, RoundsAreInjective
<1> QED BY <1>1, <1>4, XorCancels DEF x, y

(* A byte keeps different checksums different.                             *)
LEMMA AbsorbInjective ==
  ASSUME NEW c \in Sums, NEW d \in Sums, NEW b \in Byte, V2!Absorb(c, b) = V2!Absorb(d, b)
  PROVE  c = d
<1> DEFINE x == V2!Xor[c[1]][b]
           y == V2!Xor[d[1]][b]
<1>1. /\ x \in Byte /\ V2!Absorb(c, b) = <<V2!Xor[c[2]][HighRounds(x)], LowRounds(x)>>
      /\ c[1] \in Byte /\ c[2] \in Byte
  BY AbsorbIs
<1>2. /\ y \in Byte /\ V2!Absorb(d, b) = <<V2!Xor[d[2]][HighRounds(y)], LowRounds(y)>>
      /\ d[1] \in Byte /\ d[2] \in Byte
  BY AbsorbIs
<1> HIDE DEF x, y
<1>3. LowRounds(x) = LowRounds(y) /\ V2!Xor[c[2]][HighRounds(x)] = V2!Xor[d[2]][HighRounds(y)]
  BY ONLY <1>1, <1>2, V2!Absorb(c, b) = V2!Absorb(d, b), PairsAgree
<1>4. x = y
  BY <1>1, <1>2, <1>3, RoundsAreInjective
<1>5. V2!Xor[b][c[1]] = V2!Xor[b][d[1]]
  BY <1>1, <1>2, <1>4, XorCommutes DEF x, y
<1>6. HighRounds(x) \in Byte
  BY <1>1, RoundsType
<1>7. V2!Xor[HighRounds(x)][c[2]] = V2!Xor[HighRounds(x)][d[2]]
  BY <1>1, <1>2, <1>3, <1>4, <1>6, XorCommutes
<1>8. c[1] = d[1] /\ c[2] = d[2]
  BY <1>1, <1>2, <1>5, <1>6, <1>7, XorCancels
<1> QED BY <1>8 DEF Sums

(* Two bytes in a row are told by the checksum they lead to.               *)
LEMMA AbsorbTwo ==
  ASSUME NEW c \in Sums, NEW b1 \in Byte, NEW b2 \in Byte, NEW d1 \in Byte, NEW d2 \in Byte,
         V2!Absorb(V2!Absorb(c, b1), b2) = V2!Absorb(V2!Absorb(c, d1), d2)
  PROVE  b1 = d1
<1> DEFINE p == V2!Absorb(c, b1)
           q == V2!Absorb(c, d1)
<1>0. p \in Sums /\ q \in Sums
  BY AbsorbIs
<1>h. V2!Absorb(p, b2) = V2!Absorb(q, d2)
  OBVIOUS
<1> HIDE DEF p, q
<1> DEFINE x == V2!Xor[p[1]][b2]
           y == V2!Xor[q[1]][d2]
<1>1. /\ x \in Byte /\ V2!Absorb(p, b2) = <<V2!Xor[p[2]][HighRounds(x)], LowRounds(x)>>
      /\ p[2] \in Byte
  BY <1>0, AbsorbIs
<1>2. /\ y \in Byte /\ V2!Absorb(q, d2) = <<V2!Xor[q[2]][HighRounds(y)], LowRounds(y)>>
      /\ q[2] \in Byte
  BY <1>0, AbsorbIs
<1> HIDE DEF x, y
<1>3. LowRounds(x) = LowRounds(y) /\ V2!Xor[p[2]][HighRounds(x)] = V2!Xor[q[2]][HighRounds(y)]
  <2>1. <<V2!Xor[p[2]][HighRounds(x)], LowRounds(x)>> = <<V2!Xor[q[2]][HighRounds(y)], LowRounds(y)>>
    BY ONLY <1>h, <1>1, <1>2
  <2> QED BY ONLY <2>1, PairsAgree
<1>4. x = y
  BY <1>1, <1>2, <1>3, RoundsAreInjective
<1>5. HighRounds(x) \in Byte
  BY <1>1, RoundsType
<1>6. V2!Xor[HighRounds(x)][p[2]] = V2!Xor[HighRounds(x)][q[2]]
  BY <1>1, <1>2, <1>3, <1>4, <1>5, XorCommutes
<1>7. p[2] = q[2]
  BY <1>1, <1>2, <1>5, <1>6, XorCancels
<1> QED BY <1>7, AbsorbLow DEF p, q

(* The checksum as a fold: `f[i]` is the sum after i bytes.                *)
IsFold(f, bytes, n) ==
  f = [i \in 0..n |-> IF i = 0 THEN <<255, 255>> ELSE V2!Absorb(f[i - 1], bytes[i])]

LEMMA FoldExists ==
  ASSUME NEW bytes, NEW len \in Nat
  PROVE  \E f : IsFold(f, bytes, len)
<1> DEFINE T == {n \in Nat : \E f : IsFold(f, bytes, n)}
<1>1. 0 \in T
  <2>1. IsFold([i \in 0..0 |-> <<255, 255>>], bytes, 0) BY DEF IsFold
  <2> QED BY <2>1
<1>2. ASSUME NEW n \in Nat, n \in T PROVE n + 1 \in T
  <2>1. PICK h : IsFold(h, bytes, n) BY <1>2
  <2> DEFINE k == [i \in 0..n+1 |-> IF i = n + 1 THEN V2!Absorb(h[n], bytes[n+1]) ELSE h[i]]
  <2>2. IsFold(k, bytes, n + 1)
    <3>1. k = [i \in 0..(n+1) |-> k[i]] OBVIOUS
    <3>2. ASSUME NEW i \in 0..(n + 1)
          PROVE k[i] = IF i = 0 THEN <<255, 255>> ELSE V2!Absorb(k[i - 1], bytes[i])
      <4>1. CASE i = n + 1
        <5>1. k[i] = V2!Absorb(h[n], bytes[n + 1]) BY <4>1
        <5>2. k[n] = h[n] /\ i - 1 = n BY <4>1
        <5> QED BY <5>1, <5>2, <4>1
      <4>2. CASE i # n + 1
        <5>0. i \in 0..n BY <4>2
        <5>1. k[i] = h[i] BY <4>2
        <5>2. h[i] = IF i = 0 THEN <<255, 255>> ELSE V2!Absorb(h[i - 1], bytes[i])
          BY <2>1, <5>0 DEF IsFold
        <5>3. i # 0 => k[i - 1] = h[i - 1] BY <5>0
        <5> QED BY <5>1, <5>2, <5>3
      <4> QED BY <4>1, <4>2
    <3> HIDE DEF k
    <3>3. [i \in 0..(n+1) |-> k[i]]
            = [i \in 0..(n+1) |-> IF i = 0 THEN <<255, 255>> ELSE V2!Absorb(k[i - 1], bytes[i])]
      BY <3>2, ZenonT(60)
    <3> QED BY <3>1, <3>3 DEF IsFold
  <2>3. \E g : IsFold(g, bytes, n + 1)
    <3> HIDE DEF k
    <3> QED BY <2>2
  <2>4. n + 1 \in Nat
    OBVIOUS
  <2> QED BY <2>3, <2>4
<1>3. len \in T
  <2> HIDE DEF T
  <2> QED BY <1>1, <1>2, SetInduction
<1> QED BY <1>3

LEMMA SumIsFold ==
  ASSUME NEW bytes, Len(bytes) \in Nat
  PROVE  \E f : IsFold(f, bytes, Len(bytes)) /\ V2!crc16_ccitt(bytes) = f[Len(bytes)]
<1> DEFINE crc == CHOOSE f : IsFold(f, bytes, Len(bytes))
<1>1. IsFold(crc, bytes, Len(bytes))
  BY FoldExists
<1>2. V2!crc16_ccitt(bytes) = crc[Len(bytes)]
  BY DEF V2!crc16_ccitt, IsFold
<1> QED BY <1>1, <1>2

Steps(f, bytes, n) == \A i \in 1..n : f[i] = V2!Absorb(f[i - 1], bytes[i])

LEMMA FoldSteps ==
  ASSUME NEW f, NEW bytes, NEW n \in Nat, \A i \in 1..n : bytes[i] \in Byte, IsFold(f, bytes, n)
  PROVE  /\ f[0] = <<255, 255>>
         /\ Steps(f, bytes, n)
         /\ \A i \in 0..n : f[i] \in Sums
<1>1. f[0] = <<255, 255>>
  BY DEF IsFold
<1>2. \A i \in 1..n : f[i] = V2!Absorb(f[i - 1], bytes[i])
  BY DEF IsFold
<1> DEFINE T == {i \in Nat : i <= n => f[i] \in Sums}
<1>3. 0 \in T
  BY <1>1 DEF Sums, Byte
<1>4. ASSUME NEW i \in Nat, i \in T PROVE i + 1 \in T
  <2> SUFFICES ASSUME i + 1 <= n PROVE f[i + 1] \in Sums
    OBVIOUS
  <2>1. f[i] \in Sums /\ i + 1 \in 1..n /\ i + 1 - 1 = i
    BY <1>4
  <2>2. f[i + 1] = V2!Absorb(f[i], bytes[i + 1]) /\ bytes[i + 1] \in Byte
    BY <1>2, <2>1
  <2> QED BY <2>1, <2>2, AbsorbIs
<1>5. Nat \subseteq T
  <2> HIDE DEF T
  <2> QED BY <1>3, <1>4, SetInduction
<1>6. \A i \in 0..n : f[i] \in Sums
  BY <1>5
<1> QED BY <1>1, <1>2, <1>6 DEF Steps

(* Sums over the same bytes are the same.                                  *)
LEMMA SamePrefix ==
  ASSUME NEW f, NEW g, NEW v, NEW w, NEW n \in Nat, NEW i \in Nat, i <= n,
         f[0] = g[0],
         Steps(f, v, n), Steps(g, w, n),
         \A j \in 1..i : v[j] = w[j]
  PROVE  f[i] = g[i]
<1> DEFINE T == {k \in Nat : k <= i => f[k] = g[k]}
<1>1. 0 \in T
  OBVIOUS
<1>2. ASSUME NEW k \in Nat, k \in T PROVE k + 1 \in T
  <2> SUFFICES ASSUME k + 1 <= i PROVE f[k + 1] = g[k + 1]
    OBVIOUS
  <2>1. f[k] = g[k] /\ k + 1 \in 1..n /\ k + 1 \in 1..i /\ k + 1 - 1 = k
    BY <1>2
  <2>2. f[k + 1] = V2!Absorb(f[k], v[k + 1]) /\ g[k + 1] = V2!Absorb(g[k], w[k + 1])
    BY <2>1 DEF Steps
  <2> QED BY <2>1, <2>2
<1>3. Nat \subseteq T
  <2> HIDE DEF T
  <2> QED BY <1>1, <1>2, SetInduction
<1> QED BY <1>3

(* Sums that differ stay different over the same bytes.                    *)
LEMMA StayDifferent ==
  ASSUME NEW f, NEW g, NEW v, NEW w, NEW n \in Nat, NEW i \in Nat, i <= n,
         f[i] # g[i],
         Steps(f, v, n), Steps(g, w, n),
         \A j \in 0..n : f[j] \in Sums /\ g[j] \in Sums,
         \A j \in 1..n : j > i => v[j] = w[j] /\ v[j] \in Byte
  PROVE  f[n] # g[n]
<1> DEFINE T == {k \in Nat : k >= i /\ k <= n => f[k] # g[k]}
<1>1. 0 \in T
  OBVIOUS
<1>2. ASSUME NEW k \in Nat, k \in T PROVE k + 1 \in T
  <2> SUFFICES ASSUME k + 1 >= i, k + 1 <= n PROVE f[k + 1] # g[k + 1]
    OBVIOUS
  <2>1. CASE k + 1 = i
    BY <2>1
  <2>2. CASE k >= i
    <3>1. f[k] # g[k] /\ k + 1 \in 1..n /\ k \in 0..n /\ k + 1 - 1 = k /\ k + 1 > i
      BY <1>2, <2>2
    <3>2. f[k + 1] = V2!Absorb(f[k], v[k + 1]) /\ g[k + 1] = V2!Absorb(g[k], v[k + 1])
      BY <3>1 DEF Steps
    <3>3. f[k] \in Sums /\ g[k] \in Sums /\ v[k + 1] \in Byte
      BY <3>1
    <3> QED BY <3>1, <3>2, <3>3, AbsorbInjective
  <2> QED BY <2>1, <2>2
<1>3. Nat \subseteq T
  <2> HIDE DEF T
  <2> QED BY <1>1, <1>2, SetInduction
<1> QED BY <1>3

(* What V2!checksum_matches compares.                                      *)
LEMMA MatchesIs ==
  ASSUME NEW w \in Seq(Byte), Len(w) >= 2
  PROVE  LET n == Len(w) - 2
         IN  /\ n \in Nat
             /\ \E f : /\ IsFold(f, w, n)
                       /\ V2!checksum_matches(w) <=> (f[n][1] = w[n + 1] /\ f[n][2] = w[n + 2])
<1> DEFINE n == Len(w) - 2
           s == SubSeq(w, 1, n)
           t == SubSeq(w, Len(w) - 1, Len(w))
<1>1. n \in Nat /\ Len(w) = n + 2 /\ Len(w) \in Nat
  OBVIOUS
<1>2. s \in Seq(Byte) /\ Len(s) = n /\ \A i \in 1..n : s[i] = w[i]
  BY <1>1
<1>3. t = <<w[n + 1], w[n + 2]>>
  <2>1. Len(t) = 2 /\ t \in Seq(Byte) /\ t[1] = w[n + 1] /\ t[2] = w[n + 2]
    BY <1>1
  <2> HIDE DEF t
  <2> QED BY <2>1
<1>4. PICK f : IsFold(f, s, n) /\ V2!crc16_ccitt(s) = f[n]
  <2> HIDE DEF s
  <2> QED BY <1>1, <1>2, SumIsFold
<1>5. V2!checksum_matches(w) <=> f[n] = t
  BY <1>1, <1>4 DEF V2!checksum_matches
<1> HIDE DEF s, t
<1>6. IsFold(f, w, n)
  <2>1. \A i \in 0..n : (IF i = 0 THEN <<255, 255>> ELSE V2!Absorb(f[i - 1], s[i]))
                          = (IF i = 0 THEN <<255, 255>> ELSE V2!Absorb(f[i - 1], w[i]))
    BY <1>1, <1>2
  <2> QED BY <1>4, <2>1, ZenonT(60) DEF IsFold
<1>7. \A i \in 1..n : w[i] \in Byte
  BY <1>1
<1>8. f[n] \in Sums
  BY <1>1, <1>6, <1>7, FoldSteps
<1>9. f[n] = t <=> (f[n][1] = w[n + 1] /\ f[n][2] = w[n + 2])
  BY <1>3, <1>8 DEF Sums
<1> QED BY <1>1, <1>5, <1>6, <1>9

(* A frame in which one byte, or two adjacent ones, have changed does not  *)
(* match its checksum, whatever its length and wherever they are.          *)
LEMMA DamageIsDetected ==
  ASSUME NEW v \in Seq(Byte), NEW w \in Seq(Byte), Len(v) = Len(w), NEW i \in 1..Len(v),
         v[i] # w[i], \A j \in 1..Len(v) : j # i /\ j # i + 1 => v[j] = w[j],
         V2!checksum_matches(v)
  PROVE  ~V2!checksum_matches(w)
<1>0. Len(v) \in Nat /\ Len(v) >= 2
  BY DEF V2!checksum_matches
<1> DEFINE n == Len(v) - 2
<1>1. PICK f : IsFold(f, v, n) /\ f[n][1] = v[n + 1] /\ f[n][2] = v[n + 2]
  BY <1>0, MatchesIs
<1>2. PICK g : IsFold(g, w, n) /\ (V2!checksum_matches(w) <=> (g[n][1] = w[n + 1] /\ g[n][2] = w[n + 2]))
  BY <1>0, MatchesIs
<1>3. /\ n \in Nat /\ Len(v) = n + 2 /\ i \in Nat /\ i >= 1 /\ i <= n + 2
      /\ \A j \in 1..n : v[j] \in Byte /\ w[j] \in Byte
      /\ \A j \in 1..(n + 2) : v[j] \in Byte /\ w[j] \in Byte
      /\ \A j \in 1..(n + 2) : j # i /\ j # i + 1 => v[j] = w[j]
  BY <1>0
<1> HIDE DEF n
<1>4. /\ f[0] = <<255, 255>>
      /\ Steps(f, v, n)
      /\ \A j \in 0..n : f[j] \in Sums
  BY <1>1, <1>3, FoldSteps
<1>5. /\ g[0] = <<255, 255>>
      /\ Steps(g, w, n)
      /\ \A j \in 0..n : g[j] \in Sums
  BY <1>2, <1>3, FoldSteps
<1>6. CASE i > n
  <2>1. \A j \in 1..n : v[j] = w[j]
    BY <1>3, <1>6
  <2>2. f[n] = g[n]
    <3>1. n \in Nat /\ n <= n /\ f[0] = g[0] /\ Steps(f, v, n) /\ Steps(g, w, n)
      BY <1>3, <1>4, <1>5
    <3> QED BY ONLY <2>1, <3>1, SamePrefix
  <2>3. i = n + 1 \/ i = n + 2
    BY <1>3, <1>6
  <2> QED BY <1>1, <1>2, <2>2, <2>3
<1>7. CASE i <= n
  <2>1. /\ i - 1 \in Nat /\ i - 1 <= n /\ i \in 1..n /\ i - 1 \in 0..n
        /\ \A j \in 1..(i - 1) : v[j] = w[j]
    BY <1>3, <1>7
  <2>2. f[i - 1] = g[i - 1] /\ f[i - 1] \in Sums
    <3> DEFINE k == i - 1
    <3>1. k \in Nat /\ k <= n /\ k \in 0..n /\ \A j \in 1..k : v[j] = w[j]
      BY <2>1
    <3> HIDE DEF k
    <3>2. f[k] = g[k]
      <4>1. n \in Nat /\ f[0] = g[0] /\ Steps(f, v, n) /\ Steps(g, w, n)
        BY <1>3, <1>4, <1>5
      <4> QED BY ONLY <3>1, <4>1, SamePrefix
    <3>3. f[k] \in Sums
      BY <1>4, <3>1
    <3> QED BY <3>2, <3>3 DEF k
  <2>3. f[i] = V2!Absorb(f[i - 1], v[i]) /\ g[i] = V2!Absorb(f[i - 1], w[i])
        /\ v[i] \in Byte /\ w[i] \in Byte
    BY <1>3, <1>4, <1>5, <2>1, <2>2, SMTT(40) DEF Steps
  <2>4. CASE i = n
    <3>1. f[i][2] # g[i][2]
      BY <2>2, <2>3, AbsorbLow
    <3>2. v[n + 2] = w[n + 2]
      BY <1>3, <2>4
    <3> QED BY <1>1, <1>2, <2>4, <3>1, <3>2
  <2>5. CASE i < n
    <3>1. i + 1 \in 1..n /\ i + 1 - 1 = i /\ i + 1 \in Nat /\ i + 1 <= n
      BY <1>3, <2>5
    <3>2. /\ f[i + 1] = V2!Absorb(f[i], v[i + 1]) /\ g[i + 1] = V2!Absorb(g[i], w[i + 1])
          /\ v[i + 1] \in Byte /\ w[i + 1] \in Byte
      <4>1. f[i + 1] = V2!Absorb(f[i], v[i + 1])
        BY <1>4, <3>1 DEF Steps
      <4>2. g[i + 1] = V2!Absorb(g[i], w[i + 1])
        BY <1>5, <3>1 DEF Steps
      <4> QED BY <1>3, <3>1, <4>1, <4>2
    <3>3. f[i + 1] # g[i + 1]
      <4>1. /\ f[i + 1] = V2!Absorb(V2!Absorb(f[i - 1], v[i]), v[i + 1])
            /\ g[i + 1] = V2!Absorb(V2!Absorb(f[i - 1], w[i]), w[i + 1])
        BY <2>3, <3>2
      <4> QED BY <2>2, <2>3, <3>2, <4>1, AbsorbTwo
    <3>4. \A j \in 1..n : j > i + 1 => v[j] = w[j] /\ v[j] \in Byte
      BY <1>3
    <3>5. f[n] # g[n]
      <4> DEFINE k == i + 1
      <4>1. /\ k \in Nat /\ k <= n /\ f[k] # g[k]
            /\ \A j \in 1..n : j > k => v[j] = w[j] /\ v[j] \in Byte
            /\ \A j \in 0..n : f[j] \in Sums /\ g[j] \in Sums
        BY <1>4, <1>5, <3>1, <3>3, <3>4
      <4> HIDE DEF k
      <4>2. n \in Nat /\ Steps(f, v, n) /\ Steps(g, w, n)
        BY <1>3, <1>4, <1>5
      <4> QED BY ONLY <4>1, <4>2, StayDifferent
    <3>6. v[n + 1] = w[n + 1] /\ v[n + 2] = w[n + 2]
      BY <1>3, <2>5
    <3>7. n \in 0..n
      BY <1>3
    <3>8. f[n] \in Sums /\ g[n] \in Sums
      BY <1>4, <1>5, <3>7
    <3>9. f[n][1] # g[n][1] \/ f[n][2] # g[n][2]
      BY <3>5, <3>8 DEF Sums
    <3> QED BY <1>1, <1>2, <3>6, <3>9
  <2> QED BY <1>3, <1>7, <2>4, <2>5
<1> QED BY <1>3, <1>6, <1>7

(* The two codecs share their checksum.                                    *)
LEMMA SameAbsorb == \A c, b : V3!Absorb(c, b) = V2!Absorb(c, b)
<1>1. \A n, m : V3!Flip(n, m) = V2!Flip(n, m)
  BY SMT DEF V3!Flip, V2!Flip
<1>2. \A n : V3!Round1021(n) = V2!Round1021(n)
  BY <1>1, SMT DEF V3!Round1021, V2!Round1021
<1>3. V3!Rounds = V2!Rounds
  BY <1>2, SMT DEF V3!Rounds, V2!Rounds
<1>4. V3!Xor = V2!Xor
  BY SMT DEF V3!Xor, V2!Xor, V3!Differ, V2!Differ
<1> QED BY ONLY <1>3, <1>4, SMT DEF V3!Absorb, V2!Absorb, V3!Shifted, V2!Shifted

LEMMA FoldUnfolds ==
  ASSUME NEW bytes, NEW n \in Nat, NEW f, IsFold(f, bytes, n)
  PROVE  f[0] = <<255, 255>> /\ Steps(f, bytes, n)
<1>1. f[0] = <<255, 255>>
  BY DEF IsFold
<1>2. ASSUME NEW i \in 1..n PROVE f[i] = V2!Absorb(f[i - 1], bytes[i])
  <2> DEFINE b(j) == IF j = 0 THEN <<255, 255>> ELSE V2!Absorb(f[j - 1], bytes[j])
  <2>1. f = [j \in 0..n |-> b(j)]
    BY DEF IsFold
  <2>2. i \in 0..n /\ i # 0
    OBVIOUS
  <2>3. b(i) = V2!Absorb(f[i - 1], bytes[i])
    BY <2>2
  <2> HIDE DEF b
  <2> QED BY <2>1, <2>2, <2>3
<1> QED BY <1>1, <1>2 DEF Steps

IsFold3(f, bytes, n) ==
  f = [i \in 0..n |-> IF i = 0 THEN <<255, 255>> ELSE V3!Absorb(f[i - 1], bytes[i])]

LEMMA FoldsAgree ==
  ASSUME NEW bytes, NEW n \in Nat, NEW f
  PROVE  IsFold3(f, bytes, n) <=> IsFold(f, bytes, n)
<1> DEFINE a(i) == IF i = 0 THEN <<255, 255>> ELSE V3!Absorb(f[i - 1], bytes[i])
           b(i) == IF i = 0 THEN <<255, 255>> ELSE V2!Absorb(f[i - 1], bytes[i])
<1>1. \A i \in 0..n : a(i) = b(i)
  BY SameAbsorb, SMT
<1>2. (IsFold3(f, bytes, n) <=> f = [i \in 0..n |-> a(i)])
      /\ (IsFold(f, bytes, n) <=> f = [i \in 0..n |-> b(i)])
  BY DEF IsFold3, IsFold
<1> HIDE DEF a, b
<1>3. [i \in 0..n |-> a(i)] = [i \in 0..n |-> b(i)]
  BY <1>1
<1> QED BY ONLY <1>2, <1>3

LEMMA SameSum ==
  ASSUME NEW bytes, Len(bytes) \in Nat
  PROVE  V3!crc16_ccitt(bytes) = V2!crc16_ccitt(bytes)
<1> DEFINE n == Len(bytes)
           crc == CHOOSE f : IsFold3(f, bytes, n)
<1>2. V3!crc16_ccitt(bytes) = crc[n]
  BY SMT DEF V3!crc16_ccitt, IsFold3
<1>3. PICK g : IsFold(g, bytes, n) /\ V2!crc16_ccitt(bytes) = g[n]
  BY SumIsFold, SMT
<1>0. n \in Nat
  OBVIOUS
<1>4. IsFold3(crc, bytes, n)
  <2> HIDE DEF n
  <2>1. IsFold3(g, bytes, n)
    BY <1>0, <1>3, FoldsAgree
  <2> QED BY <2>1
<1> HIDE DEF n, crc
<1>5. IsFold(crc, bytes, n)
  BY <1>0, <1>4, FoldsAgree
<1>6. /\ crc[0] = <<255, 255>> /\ Steps(crc, bytes, n)
      /\ g[0] = <<255, 255>> /\ Steps(g, bytes, n)
  BY <1>0, <1>3, <1>5, FoldUnfolds, ZenonT(60)
<1>7. crc[n] = g[n]
  <2>1. n <= n /\ \A j \in 1..n : bytes[j] = bytes[j]
    BY <1>0
  <2>2. crc[0] = g[0]
    BY <1>6
  <2> QED BY ONLY <1>0, <1>6, <2>1, <2>2, SamePrefix
<1> QED BY <1>2, <1>3, <1>7

LEMMA SameChecksum ==
  ASSUME NEW w, Len(w) \in Nat, Len(w) >= 2 => Len(SubSeq(w, 1, Len(w) - 2)) \in Nat
  PROVE  V3!checksum_matches(w) <=> V2!checksum_matches(w)
  BY SameSum, SMT DEF V3!checksum_matches, V2!checksum_matches

(* A part of a text, by the number of bytes before it.                     *)
At(text, k, part) ==
  /\ k \in Nat /\ k + Len(part) <= Len(text)
  /\ \A i \in 1..Len(part) : text[k + i] = part[i]

LEMMA Joined ==
  ASSUME NEW S, NEW s \in Seq(S), NEW t \in Seq(S)
  PROVE  /\ s \o t \in Seq(S) /\ Len(s \o t) = Len(s) + Len(t)
         /\ At(s \o t, 0, s) /\ At(s \o t, Len(s), t)
  BY DEF At

LEMMA StaysAt ==
  ASSUME NEW S, NEW s \in Seq(S), NEW t \in Seq(S), NEW r \in Seq(S), NEW k, At(s, k, r)
  PROVE  At(s \o t, k, r)
  BY DEF At

(* Joining a text and a part: what was in the text stays where it was.     *)
LEMMA Kept ==
  ASSUME NEW S, NEW s \in Seq(S), NEW t \in Seq(S)
  PROVE  \A k : \A r \in Seq(S) : At(s, k, r) => At(s \o t, k, r)
  BY StaysAt

-----------------------------------------------------------------------------
(* A word is sent as two bytes, and read back.                             *)
LEMMA WordOnWire ==
  ASSUME NEW n \in Word
  PROVE  /\ V2!U16(n) \in Seq(Byte) /\ Len(V2!U16(n)) = 2
         /\ V2!U16(n)[1] = n \div 256 /\ V2!U16(n)[2] = n % 256
         /\ n \div 256 \in Byte /\ n % 256 \in Byte /\ 256 * (n \div 256) + (n % 256) = n
<1>1. n \div 256 \in Byte /\ n % 256 \in Byte /\ 256 * (n \div 256) + (n % 256) = n
  BY SMT DEF Word, Byte
<1>2. V2!U16(n) = <<n \div 256, n % 256>>
  BY DEF V2!U16
<1> DEFINE a == n \div 256
           b == n % 256
<1> HIDE DEF a, b
<1>3. a \in Byte /\ b \in Byte /\ V2!U16(n) = <<a, b>>
  BY <1>1, <1>2 DEF a, b
<1>4. <<a, b>> \in Seq(Byte) /\ Len(<<a, b>>) = 2 /\ <<a, b>>[1] = a /\ <<a, b>>[2] = b
  BY <1>3
<1> QED BY <1>1, <1>3, <1>4 DEF a, b

LEMMA ReadWord ==
  ASSUME NEW S, NEW s \in Seq(S), NEW k, NEW n \in Word, At(s, k, V2!U16(n))
  PROVE  k \in Nat /\ V2!WordAt(s, k + 1) = n
<1>1. /\ k \in Nat /\ k + Len(V2!U16(n)) <= Len(s)
      /\ \A i \in 1..Len(V2!U16(n)) : s[k + i] = V2!U16(n)[i]
  BY DEF At
<1>2. /\ Len(V2!U16(n)) = 2 /\ V2!U16(n)[1] = n \div 256 /\ V2!U16(n)[2] = n % 256
      /\ 256 * (n \div 256) + (n % 256) = n
  BY WordOnWire
<1>3. s[k + 1] = n \div 256 /\ s[k + 2] = n % 256 /\ (k + 1) + 1 = k + 2
  BY <1>1, <1>2
<1> QED BY <1>1, <1>2, <1>3 DEF V2!WordAt

(* A timestamp of the wire.                                                *)
Halves32(n) == n \in Nat /\ n \div 65536 \in Word
LEMMA LongOnWire ==
  ASSUME NEW n, Halves32(n)
  PROVE  /\ V2!U32(n) = V2!U16(n \div 65536) \o V2!U16(n % 65536)
         /\ n \div 65536 \in Word /\ n % 65536 \in Word
         /\ 65536 * (n \div 65536) + (n % 65536) = n
         /\ V2!U32(n) \in Seq(Byte) /\ Len(V2!U32(n)) = 4
         /\ At(V2!U32(n), 0, V2!U16(n \div 65536)) /\ At(V2!U32(n), 2, V2!U16(n % 65536))
<1> DEFINE a == n \div 65536
           b == n % 65536
<1>1. a \in Word /\ b \in Word /\ 65536 * a + b = n
  BY SMT DEF Word, Halves32
<1>2. V2!U32(n) = V2!U16(a) \o V2!U16(b)
  BY DEF V2!U32
<1> HIDE DEF a, b
<1>3. /\ V2!U16(a) \in Seq(Byte) /\ Len(V2!U16(a)) = 2
      /\ V2!U16(b) \in Seq(Byte) /\ Len(V2!U16(b)) = 2
  BY <1>1, WordOnWire
<1>4. /\ V2!U16(a) \o V2!U16(b) \in Seq(Byte)
      /\ Len(V2!U16(a) \o V2!U16(b)) = 4
      /\ At(V2!U16(a) \o V2!U16(b), 0, V2!U16(a))
      /\ At(V2!U16(a) \o V2!U16(b), 2, V2!U16(b))
  <2> DEFINE s == V2!U16(a)
             t == V2!U16(b)
  <2> HIDE DEF s, t
  <2>1. s \in Seq(Byte) /\ t \in Seq(Byte) /\ Len(s) = 2 /\ Len(t) = 2
    BY <1>3 DEF s, t
  <2>2. s \o t \in Seq(Byte) /\ Len(s \o t) = 2 + 2 /\ At(s \o t, 0, s) /\ At(s \o t, 2, t)
    BY ONLY <2>1, Joined, ZenonT(60)
  <2> QED BY <2>2 DEF s, t
<1> QED BY <1>1, <1>2, <1>4 DEF a, b

LEMMA PartOfPart ==
  ASSUME NEW S, NEW r \in Seq(S), NEW s \in Seq(S), NEW t \in Seq(S), NEW j, NEW k,
         At(r, j, s), At(s, k, t)
  PROVE  At(r, j + k, t)
<1>1. j \in Nat /\ k \in Nat /\ Len(r) \in Nat /\ Len(s) \in Nat /\ Len(t) \in Nat
  BY DEF At
<1>2. j + k + Len(t) <= Len(r)
  BY <1>1 DEF At
<1>3. ASSUME NEW i \in 1..Len(t) PROVE r[j + k + i] = t[i]
  <2>1. k + i \in 1..Len(s) /\ s[k + i] = t[i]
    BY <1>1 DEF At
  <2>2. r[j + (k + i)] = s[k + i] /\ j + (k + i) = j + k + i
    BY <1>1, <2>1 DEF At
  <2> QED BY <2>1, <2>2
<1> QED BY <1>1, <1>2, <1>3 DEF At

LEMMA ReadLong ==
  ASSUME NEW S, Byte \subseteq S, NEW s \in Seq(S), NEW k, NEW n, Halves32(n), At(s, k, V2!U32(n))
  PROVE  k \in Nat /\ V2!LongAt(s, k + 1) = n
<1> DEFINE a == n \div 65536
           b == n % 65536
<1>1. /\ a \in Word /\ b \in Word /\ 65536 * a + b = n /\ V2!U32(n) \in Seq(Byte)
      /\ At(V2!U32(n), 0, V2!U16(a)) /\ At(V2!U32(n), 2, V2!U16(b))
  BY LongOnWire
<1> HIDE DEF a, b
<1>2. V2!U16(a) \in Seq(S) /\ V2!U16(b) \in Seq(S) /\ V2!U32(n) \in Seq(S)
  <2>1. V2!U16(a) \in Seq(Byte) /\ V2!U16(b) \in Seq(Byte)
    BY <1>1, WordOnWire
  <2>2. Seq(Byte) \subseteq Seq(S)
    OBVIOUS
  <2> QED BY <1>1, <2>1, <2>2
<1>3. At(s, k + 0, V2!U16(a)) /\ At(s, k + 2, V2!U16(b))
  BY <1>1, <1>2, PartOfPart
<1>4. /\ k \in Nat /\ k + 0 = k /\ (k + 2) + 1 = (k + 1) + 2
  BY DEF At
<1>5. V2!WordAt(s, k + 1) = a /\ V2!WordAt(s, (k + 2) + 1) = b
  BY <1>1, <1>3, <1>4, ReadWord
<1>6. V2!LongAt(s, k + 1) = 65536 * a + b
  BY <1>4, <1>5, SMT DEF V2!LongAt
<1> QED BY <1>1, <1>4, <1>6

(* The fraction of a second has three bytes.                               *)
Fraction == {n \in Nat : n <= 16777215}
IsStamp(ts) == Halves32(ts.soc) /\ ts.fracsec \in Fraction

FractionAt(text, i) == 65536 * text[i] + V2!WordAt(text, i + 1)

LEMMA TailOfFour ==
  ASSUME NEW S, NEW u \in Seq(S), Len(u) = 4
  PROVE  /\ Tail(u) \in Seq(S) /\ Len(Tail(u)) = 3
         /\ Tail(u)[1] = u[2] /\ Tail(u)[2] = u[3] /\ Tail(u)[3] = u[4]
         /\ u[1] \in S /\ u[2] \in S
<1>1. u # << >>
  <2>1. Len(<< >>) = 0
    OBVIOUS
  <2>2. 0 # 4
    OBVIOUS
  <2> QED BY ONLY Len(u) = 4, <2>1, <2>2, Zenon
<1>4. u[1] \in S /\ u[2] \in S
  BY 1 \in 1..Len(u), 2 \in 1..Len(u), ElementOfSeq
<1> DEFINE t == Tail(u)
<1>2. t \in Seq(S) /\ Len(t) = 3 /\ \A i \in 1..3 : t[i] = u[i + 1]
  <2>1. t \in Seq(S) /\ Len(t) = Len(u) - 1 /\ \A i \in 1..Len(t) : t[i] = u[i + 1]
    BY <1>1, HeadTailProperties, Zenon
  <2> HIDE DEF t
  <2> QED BY <2>1
<1> HIDE DEF t
<1>3. t[1] = u[2] /\ t[2] = u[3] /\ t[3] = u[4]
  BY <1>2
<1> QED BY <1>2, <1>3, <1>4, Zenon DEF t

LEMMA HighByteIsZero ==
  ASSUME NEW x \in Byte, NEW y \in Byte, NEW a \in Nat, a <= 255, 256 * x + y = a
  PROVE  y = a
  BY SMT DEF Byte

LEMMA FractionOnWire ==
  ASSUME NEW n \in Fraction
  PROVE  LET t == Tail(V2!U32(n))
         IN  /\ t \in Seq(Byte) /\ Len(t) = 3
             /\ FractionAt(t, 1) = n
<1> DEFINE a == n \div 65536
           b == n % 65536
           u == V2!U32(n)
           t == Tail(u)
<1>1. /\ n \in Nat /\ a \in Word /\ a <= 255 /\ 65536 * a + b = n
  BY SMT DEF Fraction, Word
<1>2. Halves32(n)
  BY <1>1 DEF Halves32
<1>3. /\ b \in Word /\ u \in Seq(Byte) /\ Len(u) = 4
      /\ At(u, 0, V2!U16(a)) /\ At(u, 2, V2!U16(b))
  BY <1>2, LongOnWire
<1> HIDE DEF a, b, u
<1>4. V2!WordAt(u, 2 + 1) = b /\ V2!WordAt(u, 0 + 1) = a
  BY <1>1, <1>3, ReadWord
<1>5. /\ t \in Seq(Byte) /\ Len(t) = 3 /\ t[1] = u[2] /\ t[2] = u[3] /\ t[3] = u[4]
      /\ u[1] \in Byte /\ u[2] \in Byte
  BY <1>3, TailOfFour
<1> HIDE DEF t
<1>6. V2!WordAt(t, 2) = b
  BY <1>4, <1>5, SMT DEF V2!WordAt
<1>7. 256 * u[1] + u[2] = a
  BY <1>4, SMT DEF V2!WordAt
<1>8. u[2] = a
  <2>1. a \in Nat
    BY <1>1, WordIsNatural
  <2> QED BY <1>1, <1>5, <1>7, <2>1, HighByteIsZero
<1>9. FractionAt(t, 1) = n
  BY <1>1, <1>5, <1>6, <1>8, SMT DEF FractionAt
<1> QED BY <1>5, <1>9 DEF t, u

(* What write_common writes, for both versions.                            *)
CommonHead(v, quality, size, type, id, ts) ==
  <<170, 16 * type + v>> \o V2!U16(size) \o V2!U16(id) \o V2!U32(ts.soc)
    \o <<quality>> \o Tail(V2!U32(ts.fracsec))

HasHead(w, v, quality, size, type, id, ts) ==
  /\ w[1] = 170 /\ w[2] = 16 * type + v /\ w[11] = quality
  /\ V2!WordAt(w, 3) = size /\ V2!WordAt(w, 5) = id
  /\ V2!LongAt(w, 7) = ts.soc /\ FractionAt(w, 12) = ts.fracsec

LEMMA HeadIs ==
  ASSUME NEW v \in {2, 3}, NEW quality \in Byte, NEW size \in Word, NEW type \in 0..15,
         NEW id \in Word, NEW ts, IsStamp(ts)
  PROVE  LET h == CommonHead(v, quality, size, type, id, ts)
         IN  /\ h \in Seq(Byte) /\ Len(h) = 14
             /\ HasHead(h, v, quality, size, type, id, ts)
<1> DEFINE p1 == <<170, 16 * type + v>>
           p2 == V2!U16(size)
           p3 == V2!U16(id)
           p4 == V2!U32(ts.soc)
           p5 == <<quality>>
           p6 == Tail(V2!U32(ts.fracsec))
<1>1. /\ p1 \in Seq(Byte) /\ Len(p1) = 2 /\ p1[1] = 170 /\ p1[2] = 16 * type + v
  <2> DEFINE x == 16 * type + v
  <2>1. 170 \in Byte /\ x \in Byte
    BY SMT DEF Byte
  <2> HIDE DEF x
  <2>2. <<170, x>> \in Seq(Byte) /\ Len(<<170, x>>) = 2 /\ <<170, x>>[1] = 170 /\ <<170, x>>[2] = x
    BY <2>1
  <2> QED BY <2>2 DEF x
<1>2. p2 \in Seq(Byte) /\ Len(p2) = 2 /\ p3 \in Seq(Byte) /\ Len(p3) = 2
  BY WordOnWire
<1>3. p4 \in Seq(Byte) /\ Len(p4) = 4
  BY LongOnWire DEF IsStamp
<1>4. p5 \in Seq(Byte) /\ Len(p5) = 1 /\ p5[1] = quality
  OBVIOUS
<1>5. p6 \in Seq(Byte) /\ Len(p6) = 3 /\ FractionAt(p6, 1) = ts.fracsec
  BY FractionOnWire DEF IsStamp
<1> HIDE DEF p1, p2, p3, p4, p5, p6
<1>a. /\ p1 \in Seq(Byte) /\ Len(p1) = 2 /\ p2 \in Seq(Byte) /\ Len(p2) = 2
      /\ p3 \in Seq(Byte) /\ Len(p3) = 2 /\ p4 \in Seq(Byte) /\ Len(p4) = 4
      /\ p5 \in Seq(Byte) /\ Len(p5) = 1 /\ p6 \in Seq(Byte) /\ Len(p6) = 3
  BY ONLY <1>1, <1>2, <1>3, <1>4, <1>5
<1> DEFINE q2 == p1 \o p2
           q3 == q2 \o p3
           q4 == q3 \o p4
           q5 == q4 \o p5
           q6 == q5 \o p6
<1>6. q2 \in Seq(Byte) /\ Len(q2) = 4 /\ At(q2, 0, p1) /\ At(q2, 2, p2)
  <2>1. q2 \in Seq(Byte) /\ Len(q2) = 2 + 2 /\ At(q2, 0, p1) /\ At(q2, 2, p2)
    <3>1. p1 \in Seq(Byte) /\ Len(p1) = 2 /\ p2 \in Seq(Byte) /\ Len(p2) = 2
      BY ONLY <1>a
    <3> QED BY ONLY <3>1, Joined, ZenonT(60)
  <2> QED BY <2>1
<1> HIDE DEF q2
<1>7. q3 \in Seq(Byte) /\ Len(q3) = 6 /\ At(q3, 0, p1) /\ At(q3, 2, p2) /\ At(q3, 4, p3)
  <2>1. q3 \in Seq(Byte) /\ Len(q3) = 4 + 2 /\ At(q3, 4, p3)
    <3>1. q2 \in Seq(Byte) /\ Len(q2) = 4 /\ p3 \in Seq(Byte) /\ Len(p3) = 2
      BY ONLY <1>a, <1>6
    <3> QED BY ONLY <3>1, Joined, ZenonT(60)
  <2>2. At(q3, 0, p1) /\ At(q3, 2, p2)
    BY ONLY <1>a, <1>6, StaysAt, Zenon
  <2> QED BY <2>1, <2>2
<1> HIDE DEF q3
<1>8. /\ q4 \in Seq(Byte) /\ Len(q4) = 10
      /\ At(q4, 0, p1) /\ At(q4, 2, p2) /\ At(q4, 4, p3) /\ At(q4, 6, p4)
  <2>1. q4 \in Seq(Byte) /\ Len(q4) = 6 + 4 /\ At(q4, 6, p4)
    <3>1. q3 \in Seq(Byte) /\ Len(q3) = 6 /\ p4 \in Seq(Byte) /\ Len(p4) = 4
      BY ONLY <1>a, <1>7
    <3> QED BY ONLY <3>1, Joined, ZenonT(60)
  <2>2. At(q4, 0, p1) /\ At(q4, 2, p2) /\ At(q4, 4, p3)
    BY ONLY <1>a, <1>7, StaysAt, Zenon
  <2> QED BY <2>1, <2>2
<1> HIDE DEF q4
<1>9. /\ q5 \in Seq(Byte) /\ Len(q5) = 11
      /\ At(q5, 0, p1) /\ At(q5, 2, p2) /\ At(q5, 4, p3) /\ At(q5, 6, p4) /\ At(q5, 10, p5)
  <2>1. q5 \in Seq(Byte) /\ Len(q5) = 10 + 1 /\ At(q5, 10, p5)
    <3>1. q4 \in Seq(Byte) /\ Len(q4) = 10 /\ p5 \in Seq(Byte) /\ Len(p5) = 1
      BY ONLY <1>a, <1>8
    <3> QED BY ONLY <3>1, Joined, ZenonT(60)
  <2>2. At(q5, 0, p1) /\ At(q5, 2, p2) /\ At(q5, 4, p3) /\ At(q5, 6, p4)
    BY ONLY <1>a, <1>8, StaysAt, Zenon
  <2> QED BY <2>1, <2>2
<1> HIDE DEF q5
<1>10. /\ q6 \in Seq(Byte) /\ Len(q6) = 14
       /\ At(q6, 0, p1) /\ At(q6, 2, p2) /\ At(q6, 4, p3) /\ At(q6, 6, p4) /\ At(q6, 10, p5)
       /\ At(q6, 11, p6)
  <2>1. q6 \in Seq(Byte) /\ Len(q6) = 11 + 3 /\ At(q6, 11, p6)
    <3>1. q5 \in Seq(Byte) /\ Len(q5) = 11 /\ p6 \in Seq(Byte) /\ Len(p6) = 3
      BY ONLY <1>a, <1>9
    <3> QED BY ONLY <3>1, Joined, ZenonT(60)
  <2>2. At(q6, 0, p1) /\ At(q6, 2, p2) /\ At(q6, 4, p3) /\ At(q6, 6, p4) /\ At(q6, 10, p5)
    BY ONLY <1>a, <1>9, StaysAt, Zenon
  <2> QED BY <2>1, <2>2
<1>11. CommonHead(v, quality, size, type, id, ts) = q6
  BY SMT DEF CommonHead, q2, q3, q4, q5, p1, p2, p3, p4, p5, p6
<1> HIDE DEF q6
<1>12. q6[1] = 170 /\ q6[2] = 16 * type + v /\ q6[11] = quality
  <2>1. q6[0 + 1] = p1[1] /\ q6[0 + 2] = p1[2]
    BY <1>1, <1>10 DEF At
  <2>2. q6[10 + 1] = p5[1]
    BY <1>4, <1>10 DEF At
  <2> QED BY <1>1, <1>4, <2>1, <2>2
<1>13. V2!WordAt(q6, 2 + 1) = size /\ V2!WordAt(q6, 4 + 1) = id
  <2>1. At(q6, 2, V2!U16(size)) /\ At(q6, 4, V2!U16(id)) /\ q6 \in Seq(Byte)
    BY <1>10 DEF p2, p3
  <2> QED BY ONLY <2>1, size \in Word, id \in Word, ReadWord, Zenon
<1>14. V2!LongAt(q6, 6 + 1) = ts.soc
  <2>1. At(q6, 6, V2!U32(ts.soc)) /\ q6 \in Seq(Byte) /\ Halves32(ts.soc) /\ Byte \subseteq Byte
    BY <1>10 DEF p4, IsStamp
  <2> QED BY ONLY <2>1, ReadLong, Zenon
<1>15. FractionAt(q6, 12) = ts.fracsec
  <2>1. q6[11 + 1] = p6[1] /\ q6[11 + 2] = p6[2] /\ q6[11 + 3] = p6[3]
    BY <1>a, <1>10 DEF At
  <2>2. FractionAt(q6, 12) = FractionAt(p6, 1)
    BY <2>1, SMT DEF V2!WordAt, FractionAt
  <2> QED BY <1>5, <2>2
<1>16. HasHead(q6, v, quality, size, type, id, ts)
  BY <1>12, <1>13, <1>14, <1>15 DEF HasHead
<1> QED BY <1>10, <1>11, <1>16

-----------------------------------------------------------------------------
LEMMA PartIs ==
  ASSUME NEW S, NEW w \in Seq(S), NEW t \in Seq(S), NEW k, At(w, k, t)
  PROVE  SubSeq(w, k + 1, k + Len(t)) = t
<1> DEFINE n == Len(t)
           u == SubSeq(w, k + 1, k + n)
<1>1. /\ k \in Nat /\ n \in Nat /\ k + n <= Len(w) /\ Len(w) \in Nat
      /\ \A i \in 1..n : w[k + i] = t[i]
  BY DEF At
<1>2. \A i \in 1..Len(w) : w[i] \in S
  BY ElementOfSeq
<1> HIDE DEF n
<1>3. \A i \in (k + 1)..(k + n) : w[i] \in S
  BY <1>1, <1>2
<1>4. /\ u \in Seq(S)
      /\ Len(u) = IF k + 1 <= k + n THEN (k + n) - (k + 1) + 1 ELSE 0
      /\ \A i \in 1..((k + n) - (k + 1) + 1) : u[i] = w[(k + 1) + i - 1]
  <2> DEFINE a == k + 1
             b == k + n
  <2>1. a \in Int /\ b \in Int /\ \A i \in a..b : w[i] \in S
    BY <1>1, <1>3
  <2> HIDE DEF a, b
  <2>2. /\ SubSeq(w, a, b) \in Seq(S)
        /\ Len(SubSeq(w, a, b)) = IF a <= b THEN b - a + 1 ELSE 0
        /\ \A i \in 1..(b - a + 1) : SubSeq(w, a, b)[i] = w[a + i - 1]
    BY ONLY <2>1, SubSeqProperties
  <2> QED BY <2>2 DEF a, b
<1> HIDE DEF u
<1>5. Len(u) = n
  BY <1>1, <1>4
<1>6. \A i \in 1..n : u[i] = t[i]
  <2>1. TAKE i \in 1..n
  <2>2. i \in 1..((k + n) - (k + 1) + 1) /\ (k + 1) + i - 1 = k + i
    BY <1>1
  <2> QED BY <1>1, <1>4, <2>2
<1>7. u = t
  <2>1. Len(u) = Len(t) /\ \A i \in 1..Len(u) : u[i] = t[i]
    BY <1>5, <1>6 DEF n
  <2>2. u \in Seq(S)
    BY <1>4
  <2> QED BY ONLY <2>1, <2>2, t \in Seq(S), SeqEqual
<1> QED BY <1>7 DEF u, n

(* The checksum is two bytes, and a frame that ends with it matches it.    *)
LEMMA SumType ==
  ASSUME NEW s \in Seq(Byte)
  PROVE  V2!crc16_ccitt(s) \in Seq(Byte) /\ Len(V2!crc16_ccitt(s)) = 2
<1> DEFINE n == Len(s)
<1>1. n \in Nat /\ \A i \in 1..n : s[i] \in Byte
  OBVIOUS
<1>2. PICK f : IsFold(f, s, n) /\ V2!crc16_ccitt(s) = f[n]
  BY <1>1, SumIsFold
<1> HIDE DEF n
<1>3. f[n] \in Sums
  BY <1>1, <1>2, FoldSteps
<1>4. \A c \in Sums : c \in Seq(Byte) /\ Len(c) = 2
  <2>1. TAKE c \in Sums
  <2>2. PICK a \in Byte, b \in Byte : c = <<a, b>>
    BY DEF Sums
  <2> QED BY <2>2
<1> QED BY <1>2, <1>3, <1>4

LEMMA SummedMatches ==
  ASSUME NEW s \in Seq(Byte)
  PROVE  LET w == s \o V2!crc16_ccitt(s)
         IN  /\ w \in Seq(Byte) /\ Len(w) = Len(s) + 2 /\ At(w, 0, s)
             /\ V2!checksum_matches(w)
<1> DEFINE c == V2!crc16_ccitt(s)
           w == s \o c
           n == Len(s)
<1>1. c \in Seq(Byte) /\ Len(c) = 2 /\ n \in Nat
  BY SumType
<1> HIDE DEF c
<1>2. w \in Seq(Byte) /\ Len(w) = n + 2 /\ At(w, 0, s) /\ At(w, n, c)
  <2>1. w \in Seq(Byte) /\ Len(w) = Len(s) + Len(c) /\ At(w, 0, s) /\ At(w, Len(s), c)
    BY ONLY s \in Seq(Byte), <1>1, Joined, Zenon
  <2> QED BY <1>1, <2>1
<1> HIDE DEF w
<1>3. SubSeq(w, 1, n) = s
  <2>1. SubSeq(w, 0 + 1, 0 + Len(s)) = s
    BY <1>2, PartIs
  <2> QED BY <1>1, <2>1
<1>4. SubSeq(w, n + 1, n + 2) = c
  <2>1. SubSeq(w, n + 1, n + Len(c)) = c
    BY <1>1, <1>2, PartIs
  <2> QED BY <1>1, <2>1
<1> HIDE DEF w, n
<1>5. Len(w) - 2 = n /\ Len(w) - 1 = n + 1 /\ Len(w) >= 2
  BY <1>1, <1>2
<1>6. V2!checksum_matches(w)
  <2>1. V2!crc16_ccitt(SubSeq(w, 1, Len(w) - 2)) = c
    BY <1>3, <1>5, Zenon DEF c
  <2>2. SubSeq(w, Len(w) - 1, Len(w)) = c
    BY <1>2, <1>4, <1>5, Zenon
  <2> QED BY <1>5, <2>1, <2>2, Zenon DEF V2!checksum_matches
<1> QED BY <1>2, <1>6 DEF w, c, n

(* A text that starts with a header has its fields.                        *)
LEMMA HeadStays ==
  ASSUME NEW h, Len(h) = 14, NEW w, At(w, 0, h), NEW v, NEW quality, NEW size, NEW type,
         NEW id, NEW ts, HasHead(h, v, quality, size, type, id, ts)
  PROVE  HasHead(w, v, quality, size, type, id, ts)
<1>1. \A i \in 1..14 : w[i] = h[i]
  <2>1. TAKE i \in 1..14
  <2>2. 0 + i = i
    BY ONLY <2>1, SMT
  <2>3. w[0 + i] = h[i]
    <3>1. At(w, 0, h) /\ Len(h) = 14
      OBVIOUS
    <3> QED BY ONLY <2>1, <3>1, Zenon DEF At
  <2> QED BY <2>2, <2>3
<1>2. /\ w[1] = h[1] /\ w[2] = h[2] /\ w[3] = h[3] /\ w[4] = h[4] /\ w[5] = h[5] /\ w[6] = h[6]
      /\ w[7] = h[7] /\ w[8] = h[8] /\ w[9] = h[9] /\ w[10] = h[10] /\ w[11] = h[11]
      /\ w[12] = h[12] /\ w[13] = h[13] /\ w[14] = h[14]
  BY <1>1
<1>3. /\ V2!WordAt(w, 3) = V2!WordAt(h, 3) /\ V2!WordAt(w, 5) = V2!WordAt(h, 5)
      /\ V2!LongAt(w, 7) = V2!LongAt(h, 7) /\ FractionAt(w, 12) = FractionAt(h, 12)
  BY <1>2, SMT DEF V2!WordAt, V2!LongAt, FractionAt
<1> QED BY ONLY <1>2, <1>3, HasHead(h, v, quality, size, type, id, ts), SMT DEF HasHead

FrameBytes(v, quality, type, id, ts, body) ==
  LET summed == CommonHead(v, quality, 16 + Len(body), type, id, ts) \o body
  IN  summed \o V2!crc16_ccitt(summed)

(* The bodies that are sent fit the size field many times over.            *)
Bodies == {b \in Seq(Byte) : Len(b) <= 1000}

IsFrame(w, v, quality, type, id, ts, body) ==
  /\ w \in Seq(Byte) /\ Len(w) = 16 + Len(body)
  /\ HasHead(w, v, quality, Len(w), type, id, ts)
  /\ SubSeq(w, 15, Len(w) - 2) = body /\ At(w, 14, body)
  /\ V2!checksum_matches(w)

LEMMA FrameIs ==
  ASSUME NEW v \in {2, 3}, NEW quality \in Byte, NEW type \in 0..15, NEW id \in Word,
         NEW ts, IsStamp(ts), NEW body \in Bodies
  PROVE  IsFrame(FrameBytes(v, quality, type, id, ts, body), v, quality, type, id, ts, body)
<1> DEFINE n == Len(body)
           size == 16 + n
           h == CommonHead(v, quality, size, type, id, ts)
           s == h \o body
           c == V2!crc16_ccitt(s)
           w == s \o c
<1>1. body \in Seq(Byte) /\ n \in Nat /\ size \in Word
  BY SMT DEF Bodies, Word
<1>2. /\ h \in Seq(Byte) /\ Len(h) = 14
      /\ HasHead(h, v, quality, size, type, id, ts)
  <2> HIDE DEF size
  <2> QED BY <1>1, HeadIs
<1> HIDE DEF h
<1>3. s \in Seq(Byte) /\ Len(s) = 14 + n /\ At(s, 0, h) /\ At(s, 14, body)
  <2>1. h \in Seq(Byte) /\ body \in Seq(Byte) /\ Len(h) = 14
    BY <1>1, <1>2
  <2>2. s \in Seq(Byte) /\ Len(s) = Len(h) + n /\ At(s, 0, h) /\ At(s, Len(h), body)
    BY ONLY <2>1, Joined, Zenon
  <2> QED BY <2>1, <2>2
<1>4. c \in Seq(Byte) /\ Len(c) = 2
  <2> HIDE DEF s
  <2> QED BY <1>3, SumType
<1>5. w \in Seq(Byte) /\ Len(w) = Len(s) + 2 /\ At(w, 0, s) /\ V2!checksum_matches(w)
  <2> HIDE DEF s
  <2> QED BY <1>3, SummedMatches
<1>6. Len(w) = size
  BY <1>1, <1>3, <1>5
<1>7. SubSeq(w, 15, Len(w) - 2) = body /\ At(w, 14, body)
  <2> HIDE DEF c
  <2>1. Len(w) - 2 = 14 + n
    BY <1>1, <1>6
  <2>2. At(w, 14, body)
    <3> HIDE DEF s
    <3>1. At(s \o c, 14, body)
      BY ONLY <1>1, <1>3, <1>4, StaysAt
    <3> QED BY <3>1
  <2>3. SubSeq(w, 15, 14 + n) = body
    <3> HIDE DEF w
    <3>1. SubSeq(w, 14 + 1, 14 + Len(body)) = body
      BY <1>1, <1>5, <2>2, PartIs
    <3> QED BY <3>1
  <2> HIDE DEF w
  <2> QED BY <2>1, <2>2, <2>3
<1>8. HasHead(w, v, quality, size, type, id, ts)
  <2> HIDE DEF s, c, size
  <2>1. At(w, 0, h)
    <3>1. At(s \o c, 0, h)
      BY ONLY <1>2, <1>3, <1>4, StaysAt
    <3> QED BY <3>1
  <2> HIDE DEF w
  <2> QED BY <1>2, <2>1, HeadStays
<1>9. FrameBytes(v, quality, type, id, ts, body) = w
  BY SMT DEF FrameBytes, h
<1> HIDE DEF w
<1> QED BY <1>5, <1>6, <1>7, <1>8, <1>9 DEF IsFrame

-----------------------------------------------------------------------------
(* The frames of the two codecs.                                           *)
LEMMA FrameOfV2 ==
  ASSUME NEW type, NEW id, NEW ts, NEW body
  PROVE  V2!encode_frame(type, id, ts, body) = FrameBytes(2, 15, type, id, ts, body)
  BY SMT DEF V2!encode_frame, V2!write_common, V2!SYNC_BYTE, V2!VERSION, V2!MIN_FRAME_BYTES,
    V2!MESSAGE_TIME_QUALITY_UNKNOWN, FrameBytes, CommonHead

LEMMA SameWords == \A n : V3!U16(n) = V2!U16(n) /\ V3!U32(n) = V2!U32(n) /\ V3!I16(n) = V2!I16(n)
<1>1. \A n : V3!U16(n) = V2!U16(n)
  BY SMT DEF V3!U16, V2!U16
<1> QED BY <1>1, SMTT(40) DEF V3!U32, V2!U32, V3!I16, V2!I16

LEMMA FrameOfV3 ==
  ASSUME NEW type \in 0..15, NEW id \in Word, NEW ts, IsStamp(ts), NEW body \in Bodies
  PROVE  V3!encode_frame(type, id, ts, body) = FrameBytes(3, 0, type, id, ts, body)
<1> DEFINE size == 16 + Len(body)
           h == CommonHead(3, 0, size, type, id, ts)
           s == h \o body
<1>1. V3!write_common(size, type, id, ts) = h
  <2> HIDE DEF size
  <2>1. /\ V3!U16(size) = V2!U16(size) /\ V3!U16(id) = V2!U16(id)
        /\ V3!U32(ts.soc) = V2!U32(ts.soc) /\ V3!U32(ts.fracsec) = V2!U32(ts.fracsec)
    BY SameWords
  <2> QED BY ONLY <2>1, SMT DEF V3!write_common, V3!SYNC_BYTE, V3!VERSION, CommonHead
<1>2. V3!encode_frame(type, id, ts, body) = s \o V3!crc16_ccitt(s)
  BY <1>1, SMT DEF V3!encode_frame, V3!MIN_FRAME_BYTES
<1>3. FrameBytes(3, 0, type, id, ts, body) = s \o V2!crc16_ccitt(s)
  BY SMT DEF FrameBytes
<1>4. Len(s) \in Nat
  <2>1. size \in Word /\ 0 \in Byte /\ 3 \in {2, 3} /\ body \in Seq(Byte)
    BY SMT DEF Bodies, Word, Byte
  <2>2. h \in Seq(Byte)
    <3> DEFINE q == 0
               v == 3
    <3>1. q \in Byte /\ v \in {2, 3} /\ h = CommonHead(v, q, size, type, id, ts)
      BY <2>1
    <3> HIDE DEF size, h, q, v
    <3> QED BY ONLY <2>1, <3>1, HeadIs, type \in 0..15, id \in Word, IsStamp(ts), Zenon
  <2> HIDE DEF h
  <2> QED BY <2>1, <2>2
<1>5. V3!crc16_ccitt(s) = V2!crc16_ccitt(s)
  <2> HIDE DEF s
  <2> QED BY <1>4, SameSum
<1> QED BY ONLY <1>2, <1>3, <1>5

(* A frame no reader of another version accepts, and every byte of which   *)
(* its checksum covers.                                                    *)
IsWhole(v, w) ==
  /\ w \in Seq(Byte) /\ Len(w) >= 16
  /\ V2!WordAt(w, 3) = Len(w) /\ w[2] % 16 = v
  /\ V2!checksum_matches(w)

LEMMA FrameIsWhole ==
  ASSUME NEW v \in {2, 3}, NEW quality \in Byte, NEW type \in 0..15, NEW id \in Word,
         NEW ts, IsStamp(ts), NEW body \in Bodies
  PROVE  IsWhole(v, FrameBytes(v, quality, type, id, ts, body))
<1> DEFINE w == FrameBytes(v, quality, type, id, ts, body)
<1>1. /\ w \in Seq(Byte) /\ Len(w) = 16 + Len(body)
      /\ HasHead(w, v, quality, Len(w), type, id, ts)
      /\ V2!checksum_matches(w)
  <2>1. IsFrame(w, v, quality, type, id, ts, body)
    BY FrameIs
  <2> HIDE DEF w
  <2> QED BY ONLY <2>1, Zenon DEF IsFrame
<1> HIDE DEF w
<1>2. Len(w) >= 16
  BY <1>1, SMT DEF Bodies
<1>3. V2!WordAt(w, 3) = Len(w) /\ w[2] = 16 * type + v
  BY <1>1, SMT DEF HasHead
<1>4. (16 * type + v) % 16 = v
  BY SMT
<1>5. w[2] % 16 = v
  BY <1>3, <1>4
<1> QED BY ONLY <1>1, <1>2, <1>3, <1>5, Zenon DEF IsWhole, w

(* Texts by their length.                                                  *)
Sized(text, n) == text \in Seq(Byte) /\ Len(text) = n

LEMMA SizedJoin ==
  ASSUME NEW s, NEW t, NEW m, NEW n, Sized(s, m), Sized(t, n)
  PROVE  Sized(s \o t, m + n)
  BY Joined DEF Sized

LEMMA SizedWord ==
  /\ \A n \in Word : Sized(V2!U16(n), 2)
  /\ \A n \in Int : Sized(V2!I16(n), 2)
<1>1. \A n \in Word : Sized(V2!U16(n), 2)
  BY WordOnWire DEF Sized
<1>2. \A n \in Int : n % 65536 \in Word
  BY SMT DEF Word
<1> QED BY <1>1, <1>2 DEF V2!I16

LEMMA SizedPhasors ==
  ASSUME NEW F, NEW n \in Nat, \A c \in 1..6 : Sized(F[c], n)
  PROVE  Sized(V2!ForEachPhasor(F), 6 * n) /\ V3!ForEachPhasor(F) = V2!ForEachPhasor(F)
<1>1. /\ Sized(F[1], n) /\ Sized(F[2], n) /\ Sized(F[3], n)
      /\ Sized(F[4], n) /\ Sized(F[5], n) /\ Sized(F[6], n)
  OBVIOUS
<1>2. Sized(F[1] \o F[2], n + n)
  BY <1>1, SizedJoin
<1>3. Sized(F[1] \o F[2] \o F[3], n + n + n)
  BY <1>1, <1>2, SizedJoin
<1>4. Sized(F[1] \o F[2] \o F[3] \o F[4], n + n + n + n)
  BY <1>1, <1>3, SizedJoin
<1>5. Sized(F[1] \o F[2] \o F[3] \o F[4] \o F[5], n + n + n + n + n)
  BY <1>1, <1>4, SizedJoin
<1>6. Sized(F[1] \o F[2] \o F[3] \o F[4] \o F[5] \o F[6], n + n + n + n + n + n)
  BY <1>1, <1>5, SizedJoin
<1>7. n + n + n + n + n + n = 6 * n
  OBVIOUS
<1> QED BY <1>6, <1>7, Zenon DEF V2!ForEachPhasor, V3!ForEachPhasor

LEMMA ShortBody ==
  ASSUME NEW text, NEW n \in 0..32, Sized(text, n)
  PROVE  text \in Bodies
  BY SMT DEF Sized, Bodies
-----------------------------------------------------------------------------
(* Fields that stand one after the other: a reader finds each at the place *)
(* where the ones before it end.  Some fields of a configuration are       *)
(* floats, of which a place holds some integer.                            *)
Spans(text, n) == text \in Seq(Int) /\ Len(text) = n

LEMMA SpansJoin ==
  ASSUME NEW s, NEW t, NEW m, NEW n, Spans(s, m), Spans(t, n)
  PROVE  Spans(s \o t, m + n)
<1>1. s \in Seq(Int) /\ t \in Seq(Int) /\ Len(s) = m /\ Len(t) = n
  BY DEF Spans
<1>2. s \o t \in Seq(Int) /\ Len(s \o t) = Len(s) + Len(t)
  BY <1>1, SMTT(40)
<1> QED BY <1>1, <1>2 DEF Spans

LEMMA WiderSeq ==
  ASSUME NEW R, NEW S, R \subseteq S
  PROVE  Seq(R) \subseteq Seq(S)
  OBVIOUS

LEMMA ByteSeqs == Seq(Byte) \subseteq Seq(Int)
<1>1. Byte \subseteq Int
  BY DEF Byte
<1> QED BY <1>1, WiderSeq

LEMMA SizedSpans ==
  ASSUME NEW s, NEW n, Sized(s, n)
  PROVE  Spans(s, n)
  BY ByteSeqs DEF Sized, Spans

(* The last field of a text that starts another one.                       *)
LEMMA Peel ==
  ASSUME NEW text \in Seq(Int), NEW s, NEW t, NEW m, NEW n, Spans(s, m), Spans(t, n),
         At(text, 0, s \o t)
  PROVE  At(text, 0, s) /\ At(text, m, t)
<1>1. s \in Seq(Int) /\ t \in Seq(Int) /\ Len(s) = m /\ Len(t) = n /\ m \in Nat /\ n \in Nat
  BY DEF Spans
<1>2. s \o t \in Seq(Int) /\ Len(s \o t) = m + n
  <2>1. s \o t \in Seq(Int) /\ Len(s \o t) = Len(s) + Len(t)
    BY ONLY <1>1, Joined, Zenon
  <2> QED BY <1>1, <2>1
<1>3. /\ 0 + (m + n) <= Len(text)
      /\ \A i \in 1..(m + n) : text[0 + i] = (s \o t)[i]
  BY <1>2 DEF At
<1>4. ASSUME NEW i \in 1..m PROVE text[0 + i] = s[i]
  <2>1. i \in 1..(m + n) /\ (s \o t)[i] = s[i]
    BY <1>1
  <2> QED BY <1>3, <2>1
<1>5. ASSUME NEW i \in 1..n PROVE text[m + i] = t[i]
  <2>1. m + i \in 1..(m + n) /\ (s \o t)[m + i] = t[i] /\ 0 + (m + i) = m + i
    BY <1>1, SMTT(40)
  <2>2. text[0 + (m + i)] = (s \o t)[m + i]
    BY <1>3, <2>1
  <2> QED BY <2>1, <2>2
<1>6. 0 + m <= Len(text) /\ m + n <= Len(text)
  BY <1>1, <1>3
<1> QED BY <1>1, <1>3, <1>4, <1>5, <1>6 DEF At

LEMMA WholeAt ==
  ASSUME NEW text \in Seq(Int)
  PROVE  At(text, 0, text)
<1>1. Len(text) \in Nat /\ \A i \in 1..Len(text) : 0 + i = i
  OBVIOUS
<1> QED BY <1>1 DEF At

(* Six fields of the same size.                                            *)
LEMMA SpansPhasors ==
  ASSUME NEW F, NEW n \in Nat, \A c \in 1..6 : Spans(F[c], n)
  PROVE  /\ Spans(V2!ForEachPhasor(F), 6 * n)
         /\ V3!ForEachPhasor(F) = V2!ForEachPhasor(F)
         /\ \A c \in 1..6 : At(V2!ForEachPhasor(F), n * (c - 1), F[c])
<1> DEFINE x1 == F[1]
           x2 == x1 \o F[2]
           x3 == x2 \o F[3]
           x4 == x3 \o F[4]
           x5 == x4 \o F[5]
           x6 == x5 \o F[6]
<1>0. V2!ForEachPhasor(F) = x6 /\ V3!ForEachPhasor(F) = x6
  BY Zenon DEF V2!ForEachPhasor, V3!ForEachPhasor
<1>1. /\ Spans(F[1], n) /\ Spans(F[2], n) /\ Spans(F[3], n)
      /\ Spans(F[4], n) /\ Spans(F[5], n) /\ Spans(F[6], n)
  OBVIOUS
<1> HIDE DEF x2, x3, x4, x5, x6
<1>2. Spans(x2, 2 * n)
  <2>1. Spans(x2, n + n) BY <1>1, SpansJoin DEF x2
  <2> QED BY <2>1
<1>3. Spans(x3, 3 * n)
  <2>1. Spans(x3, 2 * n + n) BY <1>1, <1>2, SpansJoin DEF x3
  <2> QED BY <2>1
<1>4. Spans(x4, 4 * n)
  <2>1. Spans(x4, 3 * n + n) BY <1>1, <1>3, SpansJoin DEF x4
  <2> QED BY <2>1
<1>5. Spans(x5, 5 * n)
  <2>1. Spans(x5, 4 * n + n) BY <1>1, <1>4, SpansJoin DEF x5
  <2> QED BY <2>1
<1>6. Spans(x6, 6 * n)
  <2>1. Spans(x6, 5 * n + n) BY <1>1, <1>5, SpansJoin DEF x6
  <2> QED BY <2>1
<1>7. x6 \in Seq(Int) /\ At(x6, 0, x6)
  BY <1>6, WholeAt DEF Spans
<1>8. At(x6, 0, x5) /\ At(x6, 5 * n, F[6])
  BY <1>1, <1>5, <1>7, Peel DEF x6
<1>9. At(x6, 0, x4) /\ At(x6, 4 * n, F[5])
  BY <1>1, <1>4, <1>7, <1>8, Peel DEF x5
<1>10. At(x6, 0, x3) /\ At(x6, 3 * n, F[4])
  BY <1>1, <1>3, <1>7, <1>9, Peel DEF x4
<1>11. At(x6, 0, x2) /\ At(x6, 2 * n, F[3])
  BY <1>1, <1>2, <1>7, <1>10, Peel DEF x3
<1>12. At(x6, 0, F[1]) /\ At(x6, n, F[2])
  BY <1>1, <1>7, <1>11, Peel DEF x2
<1>13. ASSUME NEW c \in 1..6 PROVE At(x6, n * (c - 1), F[c])
  <2>1. /\ n * (1 - 1) = 0 /\ n * (2 - 1) = n /\ n * (3 - 1) = 2 * n
        /\ n * (4 - 1) = 3 * n /\ n * (5 - 1) = 4 * n /\ n * (6 - 1) = 5 * n
    OBVIOUS
  <2>2. c = 1 \/ c = 2 \/ c = 3 \/ c = 4 \/ c = 5 \/ c = 6
    BY <1>13
  <2> QED BY ONLY <2>1, <2>2, <1>8, <1>9, <1>10, <1>11, <1>12, SMT
<1> QED BY <1>0, <1>6, <1>13

-----------------------------------------------------------------------------
(* What is sent.                                                           *)
LEMMA FitsInLong ==
  ASSUME NEW n \in Nat, n \div 65536 <= 65535
  PROVE  Halves32(n)
<1>1. n \div 65536 \in Nat
  BY SMT
<1> QED BY <1>1, SMT DEF Halves32, Word

LEMMA ZeroIsStamp == IsStamp(Zero)
<1>1. 0 \in Nat /\ 0 \div 65536 <= 65535 /\ 0 \in Fraction
  BY SMT DEF Fraction
<1>2. Zero.soc = 0 /\ Zero.fracsec = 0
  BY DEF Zero
<1>3. Halves32(0)
  BY <1>1, FitsInLong
<1> QED BY ONLY <1>1, <1>2, <1>3, SMT DEF IsStamp

LEMMA StampsAreStamps == \A ts \in Stamps : IsStamp(ts)
<1>1. TAKE ts \in Stamps
<1>2. ts.soc \in Nat /\ ts.soc \div 65536 <= U16_MAX /\ ts.fracsec \in 0 .. TIME_BASE_MAX
  BY StampsAssumption
<1>3. Halves32(ts.soc)
  <2>1. ts.soc \in Nat /\ ts.soc \div 65536 <= 65535
    BY <1>2, SMT DEF U16_MAX
  <2> QED BY ONLY <2>1, FitsInLong, SMT
<1>4. ts.fracsec \in Fraction
  <2> DEFINE n == ts.fracsec
  <2>1. TIME_BASE_MAX \in Nat
    BY SMT DEF TIME_BASE_MAX
  <2>2. n \in Nat /\ n <= TIME_BASE_MAX
    BY <1>2, <2>1
  <2> HIDE DEF n
  <2>3. n \in Fraction
    BY <2>2, SMT DEF Fraction, TIME_BASE_MAX
  <2> QED BY <2>3 DEF n
<1> QED BY ONLY <1>3, <1>4, SMT DEF IsStamp

LEMMA TypesAre ==
  /\ V2!FRAME_TYPE.Command = 4 /\ V2!FRAME_TYPE.Header = 1 /\ V2!FRAME_TYPE.PeriodicData = 0
  /\ V3!FRAME_TYPE.Command = 12 /\ V3!FRAME_TYPE.ErrorResponse = 15
  /\ V3!FRAME_TYPE.PeriodicData = 8
  BY DEF V2!FRAME_TYPE, V3!FRAME_TYPE

LEMMA TypesFit ==
  /\ 15 \in Byte /\ 0 \in Byte /\ 2 \in {2, 3} /\ 3 \in {2, 3}
  /\ V2!FRAME_TYPE.Command \in 0..15 /\ V2!FRAME_TYPE.Header \in 0..15
  /\ V2!FRAME_TYPE.PeriodicData \in 0..15
  /\ V3!FRAME_TYPE.Command \in 0..15 /\ V3!FRAME_TYPE.ErrorResponse \in 0..15
  /\ V3!FRAME_TYPE.PeriodicData \in 0..15
  BY DEF Byte, V2!FRAME_TYPE, V3!FRAME_TYPE

LEMMA WholeOfV2 ==
  ASSUME NEW type \in 0..15, NEW id \in Word, NEW ts, IsStamp(ts), NEW body \in Bodies
  PROVE  IsWhole(2, V2!encode_frame(type, id, ts, body))
<1> DEFINE v == 2
           q == 15
<1>1. v \in {2, 3} /\ q \in Byte
  BY TypesFit
<1>2. V2!encode_frame(type, id, ts, body) = FrameBytes(v, q, type, id, ts, body)
  BY FrameOfV2
<1> HIDE DEF v, q
<1>3. IsWhole(v, V2!encode_frame(type, id, ts, body))
  BY <1>1, <1>2, FrameIsWhole
<1> QED BY <1>3 DEF v

LEMMA WholeOfV3 ==
  ASSUME NEW type \in 0..15, NEW id \in Word, NEW ts, IsStamp(ts), NEW body \in Bodies
  PROVE  IsWhole(3, V3!encode_frame(type, id, ts, body))
<1> DEFINE v == 3
           q == 0
<1>1. v \in {2, 3} /\ q \in Byte
  BY TypesFit
<1>2. V3!encode_frame(type, id, ts, body) = FrameBytes(v, q, type, id, ts, body)
  BY FrameOfV3
<1> HIDE DEF v, q
<1>3. IsWhole(v, V3!encode_frame(type, id, ts, body))
  BY <1>1, <1>2, FrameIsWhole
<1> QED BY <1>3 DEF v

LEMMA CommandsAreWords ==
  /\ \A c \in DOMAIN V2!COMMAND : V2!COMMAND[c] \in Word
  /\ \A c \in DOMAIN V3!COMMAND : V3!COMMAND[c] \in Word
  /\ \A c \in DOMAIN V3!ErrorResponseCode : V3!ErrorResponseCode[c] \in Word
<1>1. \A c \in DOMAIN V2!COMMAND : V2!COMMAND[c] \in Word
  BY SMT DEF V2!COMMAND, Word
<1>2. \A c \in DOMAIN V3!COMMAND : V3!COMMAND[c] \in Word
  BY SMT DEF V3!COMMAND, Word
<1>3. \A c \in DOMAIN V3!ErrorResponseCode : V3!ErrorResponseCode[c] \in Word
  BY SMT DEF V3!ErrorResponseCode, Word
<1> QED BY <1>1, <1>2, <1>3

LEMMA CommandsAreWhole ==
  ASSUME NEW id \in Word
  PROVE  /\ \A c \in DOMAIN V2!COMMAND : IsWhole(2, V2!encode_command(id, c, Zero))
         /\ \A c \in DOMAIN V3!COMMAND : IsWhole(3, V3!encode_command(id, c, Zero))
<1>1. ASSUME NEW c \in DOMAIN V2!COMMAND PROVE IsWhole(2, V2!encode_command(id, c, Zero))
  <2>1. Sized(V2!U16(V2!COMMAND[c]), 2)
    BY SizedWord, CommandsAreWords
  <2>2. V2!U16(V2!COMMAND[c]) \in Bodies
    BY <2>1, ShortBody
  <2> QED BY <2>2, ZeroIsStamp, TypesFit, WholeOfV2 DEF V2!encode_command
<1>2. ASSUME NEW c \in DOMAIN V3!COMMAND PROVE IsWhole(3, V3!encode_command(id, c, Zero))
  <2>1. Sized(V3!U16(V3!COMMAND[c]), 2)
    BY SizedWord, SameWords, CommandsAreWords
  <2>2. V3!U16(V3!COMMAND[c]) \in Bodies
    BY <2>1, ShortBody
  <2> QED BY <2>2, ZeroIsStamp, TypesFit, WholeOfV3 DEF V3!encode_command
<1> QED BY <1>1, <1>2

LEMMA ErrorsAreWhole ==
  ASSUME NEW id \in Word, NEW ts, IsStamp(ts), NEW code \in DOMAIN V3!ErrorResponseCode
  PROVE  IsWhole(3, V3!encode_error_response(id, code, ts))
<1> DEFINE a == V3!U16(V3!ErrorResponseCode[code])
           b == V3!U16(0)
<1>1. Sized(a, 2) /\ Sized(b, 2)
  <2>1. 0 \in Word
    BY SMT DEF Word
  <2> QED BY <2>1, SizedWord, SameWords, CommandsAreWords
<1>2. V3!encode_error_response(id, code, ts)
        = V3!encode_frame(V3!FRAME_TYPE.ErrorResponse, id, ts, a \o b)
  BY DEF V3!encode_error_response
<1> HIDE DEF a, b
<1>3. Sized(a \o b, 4)
  <2>1. Sized(a \o b, 2 + 2)
    BY <1>1, SizedJoin
  <2> QED BY <2>1
<1>4. a \o b \in Bodies
  BY <1>3, ShortBody
<1> QED BY <1>2, <1>4, TypesFit, WholeOfV3

(* A name padded to its field.                                             *)
LEMMA SizedName ==
  ASSUME NEW name \in Seq(Byte), Len(name) <= 16
  PROVE  Sized(V2!Padded(name), 16)
<1> DEFINE m == 16 - Len(name)
           pad == [i \in 1..m |-> 32]
<1>1. m \in Nat /\ Len(name) + m = 16
  OBVIOUS
<1>2. pad \in Seq(Byte) /\ Len(pad) = m
  <2> HIDE DEF m
  <2>1. 32 \in Byte
    BY SMT DEF Byte
  <2> QED BY <1>1, <2>1
<1>3. V2!Padded(name) = name \o pad
  BY DEF V2!Padded
<1> HIDE DEF pad, m
<1>4. Sized(name \o pad, Len(name) + m)
  BY <1>2, SizedJoin DEF Sized
<1> QED BY <1>1, <1>3, <1>4

LEMMA HeadersAreWhole ==
  ASSUME NEW e, e.stream_id \in Word, e.pmu_name \in Seq(Byte), Len(e.pmu_name) <= 16,
         NEW ts, IsStamp(ts)
  PROVE  IsWhole(2, V2!encode_header(e, ts))
<1>1. V2!Padded(e.pmu_name) \in Bodies
  <2>1. Sized(V2!Padded(e.pmu_name), 16)
    BY SizedName
  <2> QED BY <2>1, ShortBody
<1> QED BY <1>1, TypesFit, WholeOfV2 DEF V2!encode_header

(* The data of a sample.                                                   *)
IsCounts(counts) ==
  /\ counts.voltage \in Word /\ counts.current \in Word
  /\ counts.frequency \in Int /\ counts.rocof \in Int

LEMMA SizedData ==
  ASSUME NEW counts, IsCounts(counts)
  PROVE  LET phasors == [c \in 1 .. 6 |->
                           V2!U16(IF c <= 3 THEN counts.voltage ELSE counts.current)
                             \o V2!I16(V2!Phase(c))]
         IN  /\ Sized(V2!ForEachPhasor(phasors), 24)
             /\ V3!ForEachPhasor(phasors) = V2!ForEachPhasor(phasors)
             /\ Sized(V2!I16(counts.frequency), 2) /\ Sized(V2!I16(counts.rocof), 2)
<1> DEFINE phasor(c) == V2!U16(IF c <= 3 THEN counts.voltage ELSE counts.current)
                          \o V2!I16(V2!Phase(c))
           phasors == [c \in 1 .. 6 |-> phasor(c)]
<1>1. ASSUME NEW c \in 1..6 PROVE Sized(phasors[c], 4)
  <2> DEFINE a == IF c <= 3 THEN counts.voltage ELSE counts.current
             b == V2!Phase(c)
  <2>1. a \in Word /\ b \in Int
    <3>1. a \in Word
      BY DEF IsCounts
    <3>2. \A i \in {1, 2, 3} : <<0, -20944, 20944>>[i] \in Int
      BY SMT
    <3>3. 1 + ((c - 1) % 3) \in {1, 2, 3}
      BY SMT
    <3>4. b = <<0, -20944, 20944>>[1 + ((c - 1) % 3)]
      BY SMT DEF V2!Phase
    <3> QED BY ONLY <3>1, <3>2, <3>3, <3>4, SMT
  <2>2. phasors[c] = V2!U16(a) \o V2!I16(b)
    OBVIOUS
  <2> HIDE DEF a, b, phasors
  <2>3. Sized(V2!U16(a), 2) /\ Sized(V2!I16(b), 2)
    BY <2>1, SizedWord
  <2>4. Sized(V2!U16(a) \o V2!I16(b), 2 + 2)
    BY <2>3, SizedJoin
  <2> QED BY <2>2, <2>4
<1>2. Sized(V2!ForEachPhasor(phasors), 24) /\ V3!ForEachPhasor(phasors) = V2!ForEachPhasor(phasors)
  <2> HIDE DEF phasors
  <2>1. Sized(V2!ForEachPhasor(phasors), 6 * 4) /\ V3!ForEachPhasor(phasors) = V2!ForEachPhasor(phasors)
    BY <1>1, SizedPhasors
  <2> QED BY <2>1
<1>3. Sized(V2!I16(counts.frequency), 2) /\ Sized(V2!I16(counts.rocof), 2)
  BY SizedWord DEF IsCounts
<1> QED BY <1>2, <1>3

LEMMA DataBodies ==
  ASSUME NEW e, NEW counts, IsCounts(counts), NEW degraded, NEW ts
  PROVE  /\ \E text : /\ Sized(text, 30) /\ V2!WordAt(text, 1) = V2!Stat(e, degraded)
                      /\ V2!encode_periodic_data(e, counts, degraded, ts)
                           = V2!encode_frame(0, e.stream_id, ts, text)
         /\ \E text : /\ Sized(text, 32)
                      /\ V3!encode_periodic_data(e, counts, degraded, ts)
                           = V3!encode_frame(8, e.stream_id, ts, text)
<1> DEFINE phasors == [c \in 1 .. 6 |->
                         V2!U16(IF c <= 3 THEN counts.voltage ELSE counts.current)
                           \o V2!I16(V2!Phase(c))]
           p == V2!ForEachPhasor(phasors)
           f == V2!I16(counts.frequency)
           r == V2!I16(counts.rocof)
           stat == V2!Stat(e, degraded)
           s2 == V2!U16(stat)
           s3 == V2!U16(8192)
           q3 == V2!U16(32767)
           b2 == s2 \o p
           c2 == b2 \o f
           d2 == c2 \o r
           a3 == s3 \o q3
           b3 == a3 \o p
           c3 == b3 \o f
           d3 == c3 \o r
<1>1. /\ Sized(p, 24) /\ Sized(f, 2) /\ Sized(r, 2)
      /\ V3!ForEachPhasor(phasors) = p
  BY SizedData
<1>2. Sized(s2, 2) /\ Sized(s3, 2) /\ Sized(q3, 2) /\ stat \in Word
  <2>1. V2!Stat(e, degraded) \in Word /\ 8192 \in Word /\ 32767 \in Word
    BY SMT DEF V2!Stat, V2!CONSERVATIVE_STAT, Word
  <2> QED BY <2>1, SizedWord
<1>3. V2!encode_periodic_data(e, counts, degraded, ts)
        = V2!encode_frame(V2!FRAME_TYPE.PeriodicData, e.stream_id, ts, d2)
  BY SMT DEF V2!encode_periodic_data
<1>4. V3!encode_periodic_data(e, counts, degraded, ts)
        = V3!encode_frame(V3!FRAME_TYPE.PeriodicData, e.stream_id, ts, d3)
  <2> DEFINE phasors3 == [c \in 1 .. 6 |->
                            V3!U16(IF c <= 3 THEN counts.voltage ELSE counts.current)
                              \o V3!I16(V3!Phase(c))]
  <2>1. phasors3 = phasors
    <3>1. \A c : V3!Phase(c) = V2!Phase(c)
      BY SMT DEF V3!Phase, V2!Phase
    <3> QED BY <3>1, SameWords, Zenon
  <2>2. /\ V3!U16(8192) = s3 /\ V3!U16(32767) = q3
        /\ V3!I16(counts.frequency) = f /\ V3!I16(counts.rocof) = r
    BY SameWords
  <2>3. V3!encode_periodic_data(e, counts, degraded, ts)
          = V3!encode_frame(V3!FRAME_TYPE.PeriodicData, e.stream_id, ts,
              V3!U16(8192) \o V3!U16(32767) \o V3!ForEachPhasor(phasors3)
                \o V3!I16(counts.frequency) \o V3!I16(counts.rocof))
    BY SMT DEF V3!encode_periodic_data, V3!STAT_FLAG_SYNC_UNCERTAIN, V3!TIME_QUALITY_UNKNOWN
  <2> HIDE DEF phasors3, phasors, s3, q3, f, r, p
  <2> QED BY ONLY <1>1, <2>1, <2>2, <2>3, SMT
<1> HIDE DEF p, f, r, s2, s3, q3, stat, b2, c2, d2, a3, b3, c3, d3
<1>5. Sized(b2, 26) /\ Sized(c2, 28) /\ Sized(d2, 30)
  <2>1. Sized(b2, 2 + 24)
    BY <1>1, <1>2, SizedJoin DEF b2
  <2>2. Sized(c2, 2 + 24 + 2)
    BY <1>1, <2>1, SizedJoin DEF c2
  <2>3. Sized(d2, 2 + 24 + 2 + 2)
    BY <1>1, <2>2, SizedJoin DEF d2
  <2> QED BY <2>1, <2>2, <2>3
<1>6. Sized(d3, 32)
  <2>0. Sized(a3, 2 + 2)
    BY <1>1, <1>2, SizedJoin DEF a3
  <2>1. Sized(b3, 2 + 2 + 24)
    BY <1>1, <2>0, SizedJoin DEF b3
  <2>2. Sized(c3, 2 + 2 + 24 + 2)
    BY <1>1, <2>1, SizedJoin DEF c3
  <2>3. Sized(d3, 2 + 2 + 24 + 2 + 2)
    BY <1>1, <2>2, SizedJoin DEF d3
  <2> QED BY <2>3
<1>7. V2!WordAt(d2, 1) = stat
  <2>1. d2 \in Seq(Int) /\ Spans(c2, 28) /\ Spans(b2, 26) /\ Spans(s2, 2)
        /\ Spans(r, 2) /\ Spans(f, 2) /\ Spans(p, 24) /\ At(d2, 0, d2)
    BY <1>1, <1>2, <1>5, SizedSpans, WholeAt DEF Spans
  <2>2. At(d2, 0, c2)
    <3>1. At(d2, 0, c2 \o r)
      BY ONLY <2>1, Zenon DEF d2
    <3> QED BY ONLY <2>1, <3>1, Peel, Zenon
  <2>3. At(d2, 0, b2)
    <3>1. At(d2, 0, b2 \o f)
      BY ONLY <2>2, Zenon DEF c2
    <3> QED BY ONLY <2>1, <3>1, Peel, Zenon
  <2>4. At(d2, 0, s2)
    <3>1. At(d2, 0, s2 \o p)
      BY ONLY <2>3, Zenon DEF b2
    <3> QED BY ONLY <2>1, <3>1, Peel, Zenon
  <2>5. V2!WordAt(d2, 0 + 1) = stat
    <3>1. At(d2, 0, V2!U16(stat))
      BY ONLY <2>4, Zenon DEF s2
    <3> QED BY ONLY <1>2, <2>1, <3>1, ReadWord, Zenon
  <2> QED BY <2>5
<1>8. \E text : /\ Sized(text, 30) /\ V2!WordAt(text, 1) = V2!Stat(e, degraded)
                /\ V2!encode_periodic_data(e, counts, degraded, ts)
                     = V2!encode_frame(0, e.stream_id, ts, text)
  BY <1>3, <1>5, <1>7, TypesAre DEF stat
<1>9. \E text : /\ Sized(text, 32)
                /\ V3!encode_periodic_data(e, counts, degraded, ts)
                     = V3!encode_frame(8, e.stream_id, ts, text)
  BY <1>4, <1>6, TypesAre
<1> QED BY <1>8, <1>9

LEMMA DataIsWhole ==
  ASSUME NEW e, e.stream_id \in Word, NEW counts, IsCounts(counts), NEW degraded,
         NEW ts, IsStamp(ts)
  PROVE  /\ IsWhole(2, V2!encode_periodic_data(e, counts, degraded, ts))
         /\ IsWhole(3, V3!encode_periodic_data(e, counts, degraded, ts))
<1>1. PICK text : /\ Sized(text, 30)
                  /\ V2!encode_periodic_data(e, counts, degraded, ts)
                       = V2!encode_frame(0, e.stream_id, ts, text)
  BY DataBodies
<1>2. PICK text3 : /\ Sized(text3, 32)
                   /\ V3!encode_periodic_data(e, counts, degraded, ts)
                        = V3!encode_frame(8, e.stream_id, ts, text3)
  BY DataBodies
<1>3. text \in Bodies /\ text3 \in Bodies
  BY <1>1, <1>2, ShortBody
<1>4. 0 \in 0..15 /\ 8 \in 0..15
  OBVIOUS
<1> QED BY <1>1, <1>2, <1>3, <1>4, WholeOfV2, WholeOfV3

-----------------------------------------------------------------------------
(* Who refuses what.                                                       *)
Errors == {"TooShort", "BadSync", "DeclaredSizeTooSmall", "DeclaredSizeTooLarge", "Incomplete",
           "TrailingBytes", "BadChecksum", "UnsupportedVersion", "UnexpectedFrameType",
           "InvalidCommandSize", "waits", "Malformed"}

LEMMA ErrorsAreNoCommands ==
  ASSUME NEW v \in {2, 3}
  PROVE  "Ok" \notin Errors /\ \A x \in Errors : x \notin Commands(v)
<1>1. \A x \in Errors : x \notin DOMAIN V2!COMMAND
  BY DEF Errors, V2!COMMAND
<1>2. \A x \in Errors : x \notin DOMAIN V3!COMMAND
  BY DEF Errors, V3!COMMAND
<1>3. "Ok" \notin Errors
  BY DEF Errors
<1>4. Commands(v) \in {DOMAIN V2!COMMAND, DOMAIN V3!COMMAND}
  BY DEF Commands
<1> QED BY <1>1, <1>2, <1>3, <1>4

LEMMA SameWordAt == \A w, i : V3!WordAt(w, i) = V2!WordAt(w, i)
  BY SMT DEF V3!WordAt, V2!WordAt

(* The outcome of the envelope of either version.                          *)
LEMMA EnvelopeOf ==
  ASSUME NEW w, NEW limit
  PROVE  /\ V2!parse_with_limit(w, limit) \in Errors \cup {"Ok"}
         /\ V3!parse_with_limit(w, limit) \in Errors \cup {"Ok"}
         /\ V2!parse_with_limit(w, limit) = "Ok" =>
              /\ ~(Len(w) < 16) /\ ~(Len(w) < V2!WordAt(w, 3)) /\ ~(Len(w) > V2!WordAt(w, 3))
              /\ V2!checksum_matches(w)
         /\ V3!parse_with_limit(w, limit) = "Ok" =>
              /\ ~(Len(w) < 16) /\ ~(Len(w) < V2!WordAt(w, 3)) /\ ~(Len(w) > V2!WordAt(w, 3))
              /\ V3!checksum_matches(w)
<1>1. /\ V2!parse_with_limit(w, limit) \in Errors \cup {"Ok"}
      /\ V2!parse_with_limit(w, limit) = "Ok" =>
           /\ ~(Len(w) < 16) /\ ~(Len(w) < V2!WordAt(w, 3)) /\ ~(Len(w) > V2!WordAt(w, 3))
           /\ V2!checksum_matches(w)
  BY SMT DEF V2!parse_with_limit, V2!MIN_FRAME_BYTES, Errors
<1>2. /\ V3!parse_with_limit(w, limit) \in Errors \cup {"Ok"}
      /\ V3!parse_with_limit(w, limit) = "Ok" =>
           /\ ~(Len(w) < 16) /\ ~(Len(w) < V3!WordAt(w, 3)) /\ ~(Len(w) > V3!WordAt(w, 3))
           /\ V3!checksum_matches(w)
  BY SMT DEF V3!parse_with_limit, V3!MIN_FRAME_BYTES, Errors
<1> QED BY <1>1, <1>2, SameWordAt

(* No reader of version v acts on the frame w, once it has cut it out.     *)
Spurned(v, w) == Parsed(v, w) \notin Commands(v) /\ ~IsTaken(v, w)

LEMMA NotServed ==
  ASSUME NEW v \in {2, 3}, NEW w,
         v = 2 => V2!parse_with_limit(w, U16_MAX) # "Ok",
         v = 3 => V3!parse_with_limit(w, U16_MAX) # "Ok"
  PROVE  Parsed(v, w) \notin Commands(v)
<1>1. Parsed(v, w) \in Errors
  <2>1. CASE v = 2
    BY <2>1, EnvelopeOf DEF Parsed
  <2>2. CASE v = 3
    BY <2>2, EnvelopeOf DEF Parsed
  <2> QED BY <2>1, <2>2
<1> QED BY <1>1, ErrorsAreNoCommands

LEMMA UnmatchedIsSpurned ==
  ASSUME NEW v \in {2, 3}, NEW w \in Seq(Byte), ~V2!checksum_matches(w)
  PROVE  Spurned(v, w)
<1>1. ~V3!checksum_matches(w)
  <2>1. Len(w) \in Nat /\ (Len(w) >= 2 => Len(SubSeq(w, 1, Len(w) - 2)) \in Nat)
    OBVIOUS
  <2> QED BY <2>1, SameChecksum
<1>2. V2!parse_with_limit(w, U16_MAX) # "Ok" /\ V3!parse_with_limit(w, U16_MAX) # "Ok"
  BY <1>1, EnvelopeOf
<1>3. Parsed(v, w) \notin Commands(v)
  BY <1>2, NotServed
<1>4. ~V2!decode_v2_frame(w) /\ ~V3!decode_v3_frame(w)
  BY <1>1 DEF V2!decode_v2_frame, V3!decode_v3_frame
<1> QED BY <1>3, <1>4 DEF Spurned, IsTaken, Decoded

LEMMA ShortIsSpurned ==
  ASSUME NEW v \in {2, 3}, NEW w, Len(w) < 16
  PROVE  Spurned(v, w)
<1>1. V2!parse_with_limit(w, U16_MAX) # "Ok" /\ V3!parse_with_limit(w, U16_MAX) # "Ok"
  BY EnvelopeOf
<1>2. Parsed(v, w) \notin Commands(v)
  BY <1>1, NotServed
<1>3. ~V2!decode_v2_frame(w) /\ ~V3!decode_v3_frame(w)
  <2>1. ~(Len(w) >= 16)
    OBVIOUS
  <2> QED BY <2>1 DEF V2!decode_v2_frame, V3!decode_v3_frame, V2!MIN_FRAME_BYTES,
                      V3!MIN_FRAME_BYTES
<1> QED BY <1>2, <1>3 DEF Spurned, IsTaken, Decoded

LEMMA OtherVersionIsSpurned ==
  ASSUME NEW v \in {2, 3}, NEW w, w[2] % 16 # v
  PROVE  Spurned(v, w)
<1>1. CASE v = 2
  <2>1. V2!parse_command(w) = "UnsupportedVersion" /\ ~V2!decode_v2_frame(w)
    BY <1>1, SMT DEF V2!parse_command, V2!decode_v2_frame, V2!version, V2!VERSION
  <2>2. Parsed(v, w) \in Errors
    <3>1. V2!parse_with_limit(w, U16_MAX) # "Ok" => Parsed(v, w) \in Errors
      BY <1>1, EnvelopeOf DEF Parsed
    <3>2. V2!parse_with_limit(w, U16_MAX) = "Ok" => Parsed(v, w) = "UnsupportedVersion"
      BY <1>1, <2>1 DEF Parsed
    <3> QED BY <3>1, <3>2 DEF Errors
  <2> QED BY <1>1, <2>1, <2>2, ErrorsAreNoCommands DEF Spurned, IsTaken, Decoded
<1>2. CASE v = 3
  <2>1. V3!parse_command(w) = "UnsupportedVersion" /\ ~V3!decode_v3_frame(w)
    BY <1>2, SMT DEF V3!parse_command, V3!decode_v3_frame, V3!version, V3!VERSION
  <2>2. Parsed(v, w) \in Errors
    <3>1. V3!parse_with_limit(w, U16_MAX) # "Ok" => Parsed(v, w) \in Errors
      BY <1>2, EnvelopeOf DEF Parsed
    <3>2. V3!parse_with_limit(w, U16_MAX) = "Ok" => Parsed(v, w) = "UnsupportedVersion"
      BY <1>2, <2>1 DEF Parsed
    <3> QED BY <3>1, <3>2 DEF Errors
  <2> QED BY <1>2, <2>1, <2>2, ErrorsAreNoCommands DEF Spurned, IsTaken, Decoded
<1> QED BY <1>1, <1>2

CommandCode(v) == IF v = 2 THEN 4 ELSE 12

(* Only a frame of the type and of the length of a command is one.         *)
LEMMA OthersAreNoCommands ==
  ASSUME NEW v \in {2, 3}, NEW w, w[2] \div 16 # CommandCode(v) \/ Len(w) # 18
  PROVE  Parsed(v, w) \notin Commands(v)
<1>1. CASE v = 2
  <2>1. w[2] \div 16 # 4 \/ Len(w) # 18
    BY <1>1 DEF CommandCode
  <2>2. V2!parse_command(w) \in Errors
    BY ONLY <2>1, TypesAre, SMT
       DEF V2!parse_command, V2!frame_type, V2!COMMAND_FRAME_BYTES, Errors
  <2>3. Parsed(v, w) \in Errors
    <3>1. V2!parse_with_limit(w, U16_MAX) # "Ok" => Parsed(v, w) \in Errors
      BY <1>1, EnvelopeOf DEF Parsed
    <3>2. V2!parse_with_limit(w, U16_MAX) = "Ok" => Parsed(v, w) = V2!parse_command(w)
      BY <1>1 DEF Parsed
    <3> QED BY <2>2, <3>1, <3>2
  <2> QED BY <2>3, ErrorsAreNoCommands
<1>2. CASE v = 3
  <2>1. w[2] \div 16 # 12 \/ Len(w) # 18
    BY <1>2 DEF CommandCode
  <2>2. V3!parse_command(w) \in Errors
    BY ONLY <2>1, TypesAre, SMT
       DEF V3!parse_command, V3!frame_type, V3!COMMAND_FRAME_BYTES, Errors
  <2>3. Parsed(v, w) \in Errors
    <3>1. V3!parse_with_limit(w, U16_MAX) # "Ok" => Parsed(v, w) \in Errors
      BY <1>2, EnvelopeOf DEF Parsed
    <3>2. V3!parse_with_limit(w, U16_MAX) = "Ok" => Parsed(v, w) = V3!parse_command(w)
      BY <1>2 DEF Parsed
    <3> QED BY <2>2, <3>1, <3>2
  <2> QED BY <2>3, ErrorsAreNoCommands
<1> QED BY <1>1, <1>2

(* What a probe does with a frame, by its type.                            *)
LEMMA HandledIs ==
  ASSUME NEW w
  PROVE  /\ w[2] \div 16 = 4 => ~IsHandled(2, w)
         /\ w[2] \div 16 = 1 => (IsHandled(2, w) <=> V2!decode_header(V2!body(w)))
         /\ w[2] \div 16 = 0 => (IsHandled(2, w) <=> V2!decode_periodic_data(w, Configuration, Rate))
         /\ w[2] \div 16 = 12 => ~IsHandled(3, w)
         /\ w[2] \div 16 = 15 => (IsHandled(3, w) <=> V3!decode_error_response(V3!body(w)))
         /\ w[2] \div 16 = 8 => (IsHandled(3, w) <=> V3!decode_periodic_data(w, Configuration, Rate))
<1> DEFINE type == w[2] \div 16
           header == V2!FRAME_TYPE.Header
           text2 == {V2!FRAME_TYPE.Configuration1, V2!FRAME_TYPE.Configuration2}
           data2 == V2!FRAME_TYPE.PeriodicData
           text3 == {V3!FRAME_TYPE.Capability, V3!FRAME_TYPE.StreamConfiguration}
           data3 == V3!FRAME_TYPE.PeriodicData
           error == V3!FRAME_TYPE.ErrorResponse
<1>1. IsHandled(2, w) <=>
        \/ type = header /\ V2!decode_header(V2!body(w))
        \/ type \in text2 /\ V2!decode_configuration(V2!body(w), Rate)
        \/ type = data2 /\ V2!decode_periodic_data(w, Configuration, Rate)
  BY Zenon DEF IsHandled
<1>2. IsHandled(3, w) <=>
        \/ type \in text3 /\ V3!decode_configuration(V3!body(w), Rate)
        \/ type = data3 /\ V3!decode_periodic_data(w, Configuration, Rate)
        \/ type = error /\ V3!decode_error_response(V3!body(w))
  <2>1. 3 # 2
    OBVIOUS
  <2> QED BY <2>1, Zenon DEF IsHandled
<1>3. /\ 4 # header /\ 4 \notin text2 /\ 4 # data2
      /\ 1 = header /\ 1 \notin text2 /\ 1 # data2
      /\ 0 # header /\ 0 \notin text2 /\ 0 = data2
  BY DEF V2!FRAME_TYPE
<1>4. /\ 12 \notin text3 /\ 12 # data3 /\ 12 # error
      /\ 15 \notin text3 /\ 15 # data3 /\ 15 = error
      /\ 8 \notin text3 /\ 8 = data3 /\ 8 # error
  BY DEF V3!FRAME_TYPE
<1> HIDE DEF type, header, text2, data2, text3, data3, error
<1>5. /\ type = 4 => ~IsHandled(2, w)
      /\ type = 1 => (IsHandled(2, w) <=> V2!decode_header(V2!body(w)))
      /\ type = 0 => (IsHandled(2, w) <=> V2!decode_periodic_data(w, Configuration, Rate))
  BY ONLY <1>1, <1>3, Zenon
<1>6. /\ type = 12 => ~IsHandled(3, w)
      /\ type = 15 => (IsHandled(3, w) <=> V3!decode_error_response(V3!body(w)))
      /\ type = 8 => (IsHandled(3, w) <=> V3!decode_periodic_data(w, Configuration, Rate))
  BY ONLY <1>2, <1>4, Zenon
<1> QED BY ONLY <1>5, <1>6, Zenon DEF type

(* A reader acts on nothing but the whole frame its buffer declares.       *)
LEMMA ActsOnAFrame ==
  ASSUME NEW v \in {2, 3}, NEW w
  PROVE  /\ Len(w) < 4 \/ Len(w) < Declared(w) \/ Spurned(v, FirstFrame(w)) =>
              Served(v, w) \notin Commands(v) /\ Probed(v, w) # "taken"
         /\ ~(Len(w) < 4) /\ ~(Len(w) < Declared(w))
              /\ Parsed(v, FirstFrame(w)) \notin Commands(v) => Served(v, w) \notin Commands(v)
<1>1. "waits" \notin Commands(v) /\ "Malformed" \notin Commands(v)
  BY ErrorsAreNoCommands DEF Errors
<1>2. Served(v, w) \in {"waits", "Malformed"} \/ Served(v, w) = Parsed(v, FirstFrame(w))
  BY SMT DEF Served
<1>3. Len(w) < 4 \/ Len(w) < Declared(w) => Served(v, w) \in {"waits", "Malformed"}
  BY SMT DEF Served
<1>4. Probed(v, w) = "taken" =>
        ~(Len(w) < 4) /\ ~(Len(w) < Declared(w)) /\ IsTaken(v, FirstFrame(w))
  <2> DEFINE itIs == IsTaken(v, FirstFrame(w))
             n == Len(w)
             d == Declared(w)
  <2>1. Probed(v, w) = IF n < 4 THEN "waits"
                       ELSE IF d > Limit \/ (v = 2 /\ d < V2!MIN_FRAME_BYTES) THEN "refused"
                       ELSE IF n < d THEN "waits" ELSE IF itIs THEN "taken" ELSE "refused"
    BY Zenon DEF Probed
  <2>2. "waits" # "taken" /\ "refused" # "taken"
    OBVIOUS
  <2> HIDE DEF itIs, n, d
  <2>3. Probed(v, w) = "taken" => ~(n < 4) /\ ~(n < d) /\ itIs
    BY ONLY <2>1, <2>2, Zenon
  <2> QED BY ONLY <2>3, Zenon DEF n, d, itIs
<1> QED BY ONLY <1>1, <1>2, <1>3, <1>4, Zenon DEF Spurned

-----------------------------------------------------------------------------
(* The endpoint of an accepted profile.                                    *)
LEMMA WordsAreU16 == \A n \in Nat : n <= U16_MAX => n \in Word
  BY SMT DEF U16_MAX, Word

LEMMA CountsType ==
  ASSUME NEW p \in RawProfile, Accepted(p), NEW e, e = Descriptor(p, 0), NEW w \in waveform
  PROVE  /\ Count(e, "voltage", Value(e, "voltage", w, NoExcursion)) \in Word
         /\ Count(e, "current", Value(e, "current", w, NoExcursion)) \in Word
         /\ Count(e, "frequency", Value(e, "frequency", w, NoExcursion)) \in Int
         /\ Count(e, "rocof", Value(e, "rocof", w, NoExcursion)) \in Int
<1>1. ASSUME NEW s \in Signals
      PROVE  Value(e, s, w, NoExcursion) \in Int /\ Step(e, s) \in Nat \ {0}
  BY ExcursionsAdd, StepsArePositive DEF NoExcursion, SignalExcursion
<1>2. ASSUME NEW s \in {"voltage", "current"}
      PROVE  Count(e, s, Value(e, s, w, NoExcursion)) \in Word
  <2> DEFINE v == Value(e, s, w, NoExcursion)
             d == Step(e, s)
  <2>1. v \in Int /\ d \in Nat \ {0}
    BY <1>1 DEF Signals
  <2>2. Count(e, s, v) = fixed_magnitude(v, d)
    BY DEF Count
  <2> HIDE DEF v, d
  <2>3. fixed_magnitude(v, d) \in 0 .. U16_MAX
    BY <2>1, MagnitudeCount
  <2>4. fixed_magnitude(v, d) \in Nat /\ fixed_magnitude(v, d) <= U16_MAX
    BY <2>3, Limits
  <2> QED BY <2>2, <2>4, WordsAreU16 DEF v
<1>3. Count(e, "frequency", Value(e, "frequency", w, NoExcursion)) \in Int
  <2> DEFINE v == Value(e, "frequency", w, NoExcursion)
  <2>1. v \in Int
    BY <1>1 DEF Signals
  <2> HIDE DEF v
  <2>2. Count(e, "frequency", v) = Saturated(Round(v, 1000), -32768, 32767)
    BY SMT DEF Count, fixed_frequency
  <2>3. 1000 \in Nat \ {0}
    BY SMT
  <2> QED BY <2>1, <2>2, <2>3, SignedCount, SMT DEF v
<1>4. Count(e, "rocof", Value(e, "rocof", w, NoExcursion)) \in Int
  <2> DEFINE v == Value(e, "rocof", w, NoExcursion)
  <2>1. v \in Int
    BY <1>1 DEF Signals
  <2> HIDE DEF v
  <2>2. Count(e, "rocof", v) = Saturated(Round(v, 10000), -32768, 32767)
    BY SMT DEF Count, fixed_rocof
  <2>3. 10000 \in Nat \ {0}
    BY SMT
  <2> QED BY <2>1, <2>2, <2>3, SignedCount, SMT DEF v
<1> QED BY <1>2, <1>3, <1>4

LEMMA EndpointFacts ==
  ASSUME CompilerInv, outcome = "compiled"
  PROVE  /\ endpoint.version \in {2, 3} /\ endpoint.stream_id \in Word
         /\ endpoint.version = 2 =>
              endpoint.pmu_name \in Seq(Byte) /\ Len(endpoint.pmu_name) <= 16
         /\ \A wave \in waveform : IsCounts(Counts(wave))
<1> DEFINE p == profile
           e == endpoint
<1>1. p \in RawProfile /\ Accepted(p) /\ endpoints = CompiledFleet
  BY DEF CompilerInv
<1>2. p.count \in Nat \ {0} /\ p.first_stream_id \in Nat \ {0}
      /\ p.first_stream_id + p.count - 1 <= U16_MAX - 1
  BY <1>1, IdentifiersAreInRange
<1>3. e = Descriptor(p, 0)
  <2>1. 1 \in 1 .. p.count /\ 1 - 1 = 0
    BY <1>2
  <2> QED BY <1>1, <2>1 DEF CompiledFleet, endpoint
<1>4. /\ e.version = p.protocol_version /\ e.stream_id = p.first_stream_id + 0
      /\ e.pmu_name = PmuName(p.pmu_name_prefix, 0 + 1)
  BY <1>3 DEF Descriptor
<1>5. e.version \in {2, 3}
  BY <1>1, <1>4, AcceptedIsInRange DEF WireVersions
<1>6. e.stream_id \in Word
  <2>1. p.first_stream_id + 0 \in Nat /\ p.first_stream_id + 0 <= U16_MAX
    BY <1>2, Limits
  <2> QED BY <1>4, <2>1, WordsAreU16
<1>7. ASSUME e.version = 2 PROVE e.pmu_name \in Seq(Byte) /\ Len(e.pmu_name) <= 16
  <2>1. p.pmu_name_prefix \in Seq(Byte)
    BY <1>1, SMT DEF RawProfile, Byte
  <2>2. 1 \in 1 .. p.count /\ 0 + 1 = 1
    BY <1>2
  <2>3. v2_fixed_ascii(PmuName(p.pmu_name_prefix, 1))
    BY <1>1, <1>4, <1>7, <2>2 DEF Accepted
  <2>4. <<48 + (1 \div 100), 48 + ((1 \div 10) % 10), 48 + (1 % 10)>> = <<48, 48, 49>>
    BY SMT
  <2>5. <<48, 48, 49>> \in Seq(Byte)
    <3>1. 48 \in Byte /\ 49 \in Byte
      BY SMT DEF Byte
    <3> QED BY <3>1
  <2>6. PmuName(p.pmu_name_prefix, 1) = p.pmu_name_prefix \o <<48, 48, 49>>
    BY <2>4 DEF PmuName
  <2>7. e.pmu_name = PmuName(p.pmu_name_prefix, 1)
    BY ONLY <1>4, <2>2, SMT
  <2> DEFINE digits == <<48, 48, 49>>
             prefix == p.pmu_name_prefix
  <2> HIDE DEF digits, e, p, prefix
  <2>9. prefix \o digits \in Seq(Byte)
    BY <2>1, <2>5 DEF digits, prefix
  <2>10. e.pmu_name \in Seq(Byte)
    <3>1. PmuName(p.pmu_name_prefix, 1) = prefix \o digits
      BY <2>6 DEF prefix, digits
    <3> QED BY ONLY <2>7, <2>9, <3>1, Zenon
  <2>8. Len(e.pmu_name) <= 16
    <3>1. Len(e.pmu_name) \in 1 .. V2_NAME_FIELD_BYTES
      BY ONLY <2>3, <2>7, Zenon DEF v2_fixed_ascii
    <3>2. V2_NAME_FIELD_BYTES = 16 /\ Len(e.pmu_name) \in Nat
      BY <2>10 DEF V2_NAME_FIELD_BYTES
    <3> DEFINE n == Len(e.pmu_name)
    <3> HIDE DEF n
    <3>3. n \in 1 .. 16
      BY ONLY <3>1, <3>2, Zenon DEF n
    <3>4. n <= 16
      BY ONLY <3>3
    <3> QED BY <3>4 DEF n
  <2> QED BY <2>8, <2>10
<1>8. ASSUME NEW wave \in waveform PROVE IsCounts(Counts(wave))
  <2> DEFINE c(s) == Count(e, s, Value(e, s, wave, NoExcursion))
  <2>1. c("voltage") \in Word /\ c("current") \in Word /\ c("frequency") \in Int /\ c("rocof") \in Int
    BY <1>1, <1>3, CountsType
  <2>2. \A s \in Signals : Counts(wave)[s] = c(s)
    BY DEF Counts, Sample
  <2>3. /\ Counts(wave).voltage = c("voltage") /\ Counts(wave).current = c("current")
        /\ Counts(wave).frequency = c("frequency") /\ Counts(wave).rocof = c("rocof")
    BY <2>2 DEF Signals
  <2> HIDE DEF c
  <2> QED BY <2>1, <2>3 DEF IsCounts
<1> QED BY <1>5, <1>6, <1>7, <1>8

-----------------------------------------------------------------------------
(* A message and the bytes that were written for it.                       *)
Encoded(message, bytes) ==
  \/ /\ endpoint.version = 2
     /\ \E c \in DOMAIN V2!COMMAND :
          /\ message = [kind |-> "command", name |-> c, ts |-> Zero]
          /\ bytes = V2!encode_command(endpoint.stream_id, c, Zero)
  \/ /\ endpoint.version = 3
     /\ \E c \in DOMAIN V3!COMMAND :
          /\ message = [kind |-> "command", name |-> c, ts |-> Zero]
          /\ bytes = V3!encode_command(endpoint.stream_id, c, Zero)
  \/ /\ endpoint.version = 2
     /\ \E ts \in Stamps :
          /\ message = [kind |-> "header", ts |-> ts]
          /\ bytes = V2!encode_header(endpoint, ts)
  \/ /\ endpoint.version = 3
     /\ \E ts \in Stamps, code \in DOMAIN V3!ErrorResponseCode :
          /\ message = [kind |-> "error", ts |-> ts]
          /\ bytes = V3!encode_error_response(endpoint.stream_id, code, ts)
  \/ \E ts \in Stamps, wave \in waveform, degraded \in BOOLEAN :
       /\ OnGrid(ts)
       /\ message = [kind |-> "data", ts |-> ts, degraded |-> degraded]
       /\ bytes = IF endpoint.version = 2
                  THEN V2!encode_periodic_data(endpoint, Counts(wave), degraded, ts)
                  ELSE V3!encode_periodic_data(endpoint, Counts(wave), degraded, ts)

LEMMA SentIsWritten ==
  ASSUME Exchange
  PROVE  \E message, bytes : SendFrame(message, bytes) /\ Encoded(message, bytes)
<1>1. CASE SendCommand
  BY <1>1, Zenon DEF SendCommand, Encoded
<1>2. CASE SendHeader
  BY <1>2, Zenon DEF SendHeader, Encoded
<1>3. CASE SendErrorResponse
  BY <1>3, Zenon DEF SendErrorResponse, Encoded
<1>4. CASE SendData
  BY <1>4, Zenon DEF SendData, Encoded
<1> QED BY <1>1, <1>2, <1>3, <1>4 DEF Exchange

LEMMA WrittenIsWhole ==
  ASSUME CompilerInv, outcome = "compiled", NEW message, NEW bytes, Encoded(message, bytes)
  PROVE  IsWhole(endpoint.version, bytes)
<1>1. /\ endpoint.version \in {2, 3} /\ endpoint.stream_id \in Word
      /\ endpoint.version = 2 => endpoint.pmu_name \in Seq(Byte) /\ Len(endpoint.pmu_name) <= 16
      /\ \A wave \in waveform : IsCounts(Counts(wave))
  BY EndpointFacts
<1>2. /\ \A c \in DOMAIN V2!COMMAND : IsWhole(2, V2!encode_command(endpoint.stream_id, c, Zero))
      /\ \A c \in DOMAIN V3!COMMAND : IsWhole(3, V3!encode_command(endpoint.stream_id, c, Zero))
  BY <1>1, CommandsAreWhole
<1>3. ASSUME NEW ts \in Stamps, endpoint.version = 2 PROVE IsWhole(2, V2!encode_header(endpoint, ts))
  BY <1>1, <1>3, StampsAreStamps, HeadersAreWhole
<1>4. ASSUME NEW ts \in Stamps, NEW code \in DOMAIN V3!ErrorResponseCode
      PROVE  IsWhole(3, V3!encode_error_response(endpoint.stream_id, code, ts))
  BY <1>1, StampsAreStamps, ErrorsAreWhole
<1>5. ASSUME NEW ts \in Stamps, NEW wave \in waveform, NEW degraded \in BOOLEAN
      PROVE  /\ IsWhole(2, V2!encode_periodic_data(endpoint, Counts(wave), degraded, ts))
             /\ IsWhole(3, V3!encode_periodic_data(endpoint, Counts(wave), degraded, ts))
  BY <1>1, StampsAreStamps, DataIsWhole
<1> QED BY <1>1, <1>2, <1>3, <1>4, <1>5, SMT DEF Encoded

-----------------------------------------------------------------------------
(* What a fault leaves of the bytes o of a frame.                          *)
Damages(o, w) ==
  /\ w \in Seq(Byte) /\ Len(w) = Len(o) /\ ~V2!checksum_matches(w)
  /\ \E i \in 1..Len(o) : \A j \in 1..Len(o) : j # i /\ j # i + 1 => w[j] = o[j]

Arrived(o, name, w) ==
  \/ name = "none" /\ w = o
  \/ name = "joined" /\ w = Append(o, V2!SYNC_BYTE)
  \/ name = "cut" /\ \E k \in 0 .. Len(o) - 1 : w = SubSeq(o, 1, k)
  \/ name = "damaged" /\ Damages(o, w)

(* The invariant: the wire holds the frame that was written, or what one   *)
(* fault left of it.                                                       *)
OnWire == \E o : Encoded(meant, o) /\ Arrived(o, fault, wire)

ExchangeInv ==
  /\ CompilerInv
  /\ meant # Nothing => outcome = "compiled" /\ OnWire
  /\ meant = Nothing => fault = "none"

LEMMA ExchangeStarts == ExchangeInit => ExchangeInv
  BY CompilerStarts DEF ExchangeInit, ExchangeInv

LEMMA WrittenStays ==
  ASSUME UNCHANGED compilerVars, UNCHANGED meant, NEW o, Encoded(meant, o)
  PROVE  Encoded(meant, o)'
  BY DEF Encoded, compilerVars, endpoint, OnGrid, Counts

LEMMA ArrivedIsOnWire ==
  ASSUME NEW o, NEW name, NEW w, Encoded(meant, o)', Arrived(o, name, w), fault' = name, wire' = w
  PROVE  OnWire'
<1>1. Arrived(o, fault, wire)'
  BY DEF Arrived, Damages
<1> QED BY <1>1 DEF OnWire

LEMMA SendKeeps ==
  ASSUME ExchangeInv, Exchange
  PROVE  ExchangeInv'
<1>1. /\ CompilerInv /\ outcome = "compiled" /\ meant = Nothing /\ fault = "none"
  BY DEF ExchangeInv, Exchange
<1>2. PICK message, bytes : SendFrame(message, bytes) /\ Encoded(message, bytes)
  BY SentIsWritten
<1>3. /\ wire' = bytes /\ meant' = message /\ fault' = "none" /\ outcome' = "compiled"
      /\ endpoints' = endpoints /\ UNCHANGED compilerVars
  BY <1>1, <1>2 DEF SendFrame, compilerVars
<1>4. CompilerInv'
  BY <1>1, <1>3, CompilerContinues
<1>5. Encoded(meant, bytes)'
  BY <1>2, <1>3 DEF Encoded, endpoint, OnGrid, Counts
<1>6. Arrived(bytes, "none", bytes)
  BY DEF Arrived
<1>7. OnWire'
  BY <1>3, <1>5, <1>6, ArrivedIsOnWire
<1> QED BY <1>3, <1>4, <1>7 DEF ExchangeInv

(* A fault finds a whole frame on the wire.                                *)
LEMMA SpoilKeeps ==
  ASSUME ExchangeInv, NEW name, NEW bytes, Spoil(name, bytes),
         IsWhole(endpoint.version, wire) => Arrived(wire, name, bytes)
  PROVE  ExchangeInv'
<1>1. /\ meant # Nothing /\ fault = "none" /\ fault' = name /\ wire' = bytes /\ meant' = meant
      /\ UNCHANGED compilerVars
  BY DEF Spoil
<1>2. CompilerInv /\ outcome = "compiled"
  BY <1>1 DEF ExchangeInv
<1>3. PICK o : Encoded(meant, o) /\ o = wire
  <2>1. PICK o : Encoded(meant, o) /\ Arrived(o, "none", wire)
    BY <1>1 DEF ExchangeInv, OnWire
  <2> QED BY <2>1 DEF Arrived
<1>4. Arrived(o, name, bytes)
  BY <1>2, <1>3, WrittenIsWhole
<1>5. CompilerInv'
  BY <1>1, <1>2, CompilerContinues
<1>6. Encoded(meant, o)'
  BY <1>1, <1>3, WrittenStays
<1>7. OnWire'
  BY <1>1, <1>4, <1>6, ArrivedIsOnWire
<1>8. outcome' = "compiled"
  BY <1>1, <1>2 DEF compilerVars
<1> QED BY <1>1, <1>5, <1>7, <1>8 DEF ExchangeInv

LEMMA DamageKeeps ==
  ASSUME ExchangeInv, Damage
  PROVE  ExchangeInv'
<1>1. PICK i \in DOMAIN wire, m \in Masks, n \in Masks \cup {0} :
        Spoil("damaged", [j \in DOMAIN wire |->
                            CASE j = i -> V2!Xor[wire[j]][m]
                              [] j = i + 1 -> V2!Xor[wire[j]][n]
                              [] OTHER -> wire[j]])
  BY DEF Damage
<1> DEFINE changed(j) == CASE j = i -> V2!Xor[wire[j]][m]
                           [] j = i + 1 -> V2!Xor[wire[j]][n]
                           [] OTHER -> wire[j]
           w == [j \in DOMAIN wire |-> changed(j)]
<1>2. m \in Byte /\ m # 0 /\ n \in Byte
  BY MasksAssumption DEF Byte
<1>3. ASSUME IsWhole(endpoint.version, wire) PROVE Damages(wire, w)
  <2>1. wire \in Seq(Byte) /\ V2!checksum_matches(wire)
    BY <1>3 DEF IsWhole
  <2>2. DOMAIN wire = 1..Len(wire) /\ Len(wire) \in Nat /\ \A j \in 1..Len(wire) : wire[j] \in Byte
    BY <2>1
  <2>3. ASSUME NEW j \in 1..Len(wire) PROVE changed(j) \in Byte
    <3>1. V2!Xor[wire[j]][m] \in Byte /\ V2!Xor[wire[j]][n] \in Byte /\ wire[j] \in Byte
      BY <1>2, <2>2, XorType
    <3> QED BY <3>1
  <2>4. changed(i) # wire[i]
    <3>1. V2!Xor[wire[i]][m] # wire[i]
      BY <1>2, <2>2, XorChanges
    <3>2. changed(i) = V2!Xor[wire[i]][m]
      <4>1. i # i + 1
        BY <2>2
      <4> QED BY <4>1
    <3> QED BY <3>1, <3>2
  <2>5. ASSUME NEW j \in 1..Len(wire), j # i, j # i + 1 PROVE changed(j) = wire[j]
    BY <2>5
  <2> HIDE DEF changed
  <2>6. /\ w \in Seq(Byte) /\ Len(w) = Len(wire) /\ w[i] # wire[i]
        /\ \A j \in 1..Len(wire) : j # i /\ j # i + 1 => wire[j] = w[j]
    <3>1. w = [j \in 1..Len(wire) |-> changed(j)] /\ \A j \in 1..Len(wire) : w[j] = changed(j)
      BY <2>2
    <3>2. w \in Seq(Byte) /\ Len(w) = Len(wire)
      BY <2>2, <2>3, <3>1
    <3> HIDE DEF w
    <3> QED BY <2>2, <2>4, <2>5, <3>1, <3>2
  <2> HIDE DEF w
  <2>7. ~V2!checksum_matches(w)
    <3>1. i \in 1..Len(wire) /\ Len(wire) = Len(w) /\ wire[i] # w[i]
      BY <2>2, <2>6
    <3> QED BY ONLY <2>1, <2>6, <3>1, DamageIsDetected
  <2> QED BY <2>2, <2>6, <2>7 DEF Damages
<1>4. Spoil("damaged", w)
  BY <1>1
<1> HIDE DEF w
<1> QED BY <1>3, <1>4, SpoilKeeps DEF Arrived

LEMMA CutKeeps ==
  ASSUME ExchangeInv, Cut
  PROVE  ExchangeInv'
<1>1. PICK n \in 0 .. Len(wire) - 1 : Spoil("cut", SubSeq(wire, 1, n))
  BY DEF Cut
<1>2. Arrived(wire, "cut", SubSeq(wire, 1, n))
  BY DEF Arrived
<1> QED BY <1>1, <1>2, SpoilKeeps

LEMMA JoinKeeps ==
  ASSUME ExchangeInv, Join
  PROVE  ExchangeInv'
<1>1. Spoil("joined", Append(wire, V2!SYNC_BYTE))
  BY DEF Join
<1>2. Arrived(wire, "joined", Append(wire, V2!SYNC_BYTE))
  BY Zenon DEF Arrived
<1> QED BY <1>1, <1>2, SpoilKeeps

LEMMA ExchangeContinues == ExchangeInv /\ [ExchangeNext]_exchangeVars => ExchangeInv'
<1>1. SUFFICES ASSUME ExchangeInv, [ExchangeNext]_exchangeVars PROVE ExchangeInv'
  OBVIOUS
<1>2. CASE meant = Nothing /\ CompilerNext /\ UNCHANGED frameVars
  <2>1. CompilerInv'
    BY <1>1, <1>2, CompilerContinues DEF ExchangeInv
  <2>2. meant' = Nothing /\ fault' = "none"
    BY <1>1, <1>2 DEF ExchangeInv, frameVars
  <2> QED BY <2>1, <2>2 DEF ExchangeInv
<1>3. CASE UNCHANGED exchangeVars
  <2>1. CompilerInv'
    BY <1>1, <1>3, CompilerContinues DEF ExchangeInv, exchangeVars
  <2>2. /\ meant' = meant /\ fault' = fault /\ wire' = wire /\ outcome' = outcome
        /\ UNCHANGED compilerVars
    BY <1>3 DEF exchangeVars, frameVars, compilerVars
  <2>3. ASSUME meant # Nothing PROVE OnWire'
    <3>1. PICK o : Encoded(meant, o) /\ Arrived(o, fault, wire)
      BY <1>1, <2>3 DEF ExchangeInv, OnWire
    <3>2. PICK name, w : name = fault /\ w = wire
      OBVIOUS
    <3>3. Encoded(meant, o)'
      BY <2>2, <3>1, WrittenStays
    <3> QED BY <2>2, <3>1, <3>2, <3>3, ArrivedIsOnWire
  <2> QED BY <1>1, <2>1, <2>2, <2>3 DEF ExchangeInv
<1> QED BY <1>1, <1>2, <1>3, SendKeeps, DamageKeeps, CutKeeps, JoinKeeps DEF ExchangeNext

-----------------------------------------------------------------------------
(* What a reader of its own version reads in a whole frame.                *)
IsRecord(ts) == ts = [soc |-> ts.soc, fracsec |-> ts.fracsec]

LEMMA FrameIsRead ==
  ASSUME NEW w, NEW v \in {2, 3}, NEW quality, NEW type \in 0..15, v = 2 => type < 8, NEW id, NEW ts,
         IsRecord(ts), NEW body \in Seq(Byte), IsFrame(w, v, quality, type, id, ts, body)
  PROVE  /\ V2!WordAt(w, 5) = id /\ V2!timestamp(w) = ts /\ V3!timestamp(w) = ts
         /\ V2!body(w) = body /\ V3!body(w) = body /\ w[11] = quality
         /\ Decoded(v, w)
<1>1. /\ w \in Seq(Byte) /\ Len(w) = 16 + Len(body) /\ HasHead(w, v, quality, Len(w), type, id, ts)
      /\ SubSeq(w, 15, Len(w) - 2) = body /\ V2!checksum_matches(w)
  BY Zenon DEF IsFrame
<1>2. /\ w[1] = 170 /\ w[2] = 16 * type + v /\ w[11] = quality
      /\ V2!WordAt(w, 3) = Len(w) /\ V2!WordAt(w, 5) = id
      /\ V2!LongAt(w, 7) = ts.soc /\ FractionAt(w, 12) = ts.fracsec
  BY ONLY <1>1, SMT DEF HasHead
<1>3. V2!timestamp(w) = ts /\ V3!timestamp(w) = ts
  <2>1. FractionAt(w, 12) = 65536 * w[12] + V2!WordAt(w, 13)
    BY SMT DEF FractionAt
  <2>2. V2!timestamp(w) = [soc |-> V2!LongAt(w, 7), fracsec |-> 65536 * w[12] + V2!WordAt(w, 13)]
    BY SMT DEF V2!timestamp
  <2>3. V3!timestamp(w) = V2!timestamp(w)
    BY SMT DEF V2!timestamp, V3!timestamp, V2!LongAt, V3!LongAt, V2!WordAt, V3!WordAt
  <2>4. V2!timestamp(w) = [soc |-> ts.soc, fracsec |-> ts.fracsec]
    BY ONLY <1>2, <2>1, <2>2, SMT
  <2> QED BY ONLY <2>3, <2>4, IsRecord(ts), SMT DEF IsRecord
<1>4. V2!body(w) = body /\ V3!body(w) = body
  BY ONLY <1>1, SMT DEF V2!body, V3!body, V2!FRAME_HEADER_BYTES, V3!FRAME_HEADER_BYTES
<1>5. Len(w) \in Nat /\ Len(w) >= 16
  BY <1>1
<1>6. (16 * type + v) % 16 = v
  BY SMT
<1>7. V3!checksum_matches(w)
  <2>1. Len(w) >= 2 => Len(SubSeq(w, 1, Len(w) - 2)) \in Nat
    BY <1>1
  <2> QED BY <1>1, <1>5, <2>1, SameChecksum
<1>8. CASE v = 2
  <2>1. w[2] < 128
    BY <1>2, <1>8, SMT
  <2>2. V2!version(w) = 2
    BY <1>2, <1>6, <1>8, SMT DEF V2!version
  <2>3. V2!decode_v2_frame(w)
    BY ONLY <1>1, <1>2, <1>5, <2>1, <2>2, SMT
       DEF V2!decode_v2_frame, V2!MIN_FRAME_BYTES, V2!SYNC_BYTE, V2!VERSION
  <2> QED BY <1>2, <1>3, <1>4, <1>8, <2>3 DEF Decoded
<1>9. CASE v = 3
  <2>1. V3!version(w) = 3
    BY <1>2, <1>6, <1>9, SMT DEF V3!version
  <2>2. V3!WordAt(w, 3) = Len(w)
    BY <1>2, SameWordAt
  <2>3. V3!decode_v3_frame(w)
    BY ONLY <1>2, <1>5, <1>7, <2>1, <2>2, SMT
       DEF V3!decode_v3_frame, V3!MIN_FRAME_BYTES, V3!SYNC_BYTE, V3!VERSION
  <2> QED BY <1>2, <1>3, <1>4, <1>9, <2>3 DEF Decoded
<1> QED BY <1>8, <1>9

(* The frames by what they are encoded from.                               *)
LEMMA IsFrameOfV2 ==
  ASSUME NEW type \in 0..15, NEW id \in Word, NEW ts, IsStamp(ts), NEW body \in Bodies
  PROVE  IsFrame(V2!encode_frame(type, id, ts, body), 2, 15, type, id, ts, body)
<1> DEFINE v == 2
           q == 15
<1>1. v \in {2, 3} /\ q \in Byte
  BY TypesFit
<1>2. V2!encode_frame(type, id, ts, body) = FrameBytes(v, q, type, id, ts, body)
  BY FrameOfV2
<1> HIDE DEF v, q
<1>3. IsFrame(V2!encode_frame(type, id, ts, body), v, q, type, id, ts, body)
  BY <1>1, <1>2, FrameIs
<1> QED BY <1>3 DEF v, q

LEMMA IsFrameOfV3 ==
  ASSUME NEW type \in 0..15, NEW id \in Word, NEW ts, IsStamp(ts), NEW body \in Bodies
  PROVE  IsFrame(V3!encode_frame(type, id, ts, body), 3, 0, type, id, ts, body)
<1> DEFINE v == 3
           q == 0
<1>1. v \in {2, 3} /\ q \in Byte
  BY TypesFit
<1>2. V3!encode_frame(type, id, ts, body) = FrameBytes(v, q, type, id, ts, body)
  BY FrameOfV3
<1> HIDE DEF v, q
<1>3. IsFrame(V3!encode_frame(type, id, ts, body), v, q, type, id, ts, body)
  BY <1>1, <1>2, FrameIs
<1> QED BY <1>3 DEF v, q

(* The simulator's parser recognises the command of a whole frame.         *)
LEMMA CommandIsServed ==
  ASSUME NEW w, NEW v \in {2, 3}, NEW quality, NEW id, NEW ts, NEW code \in Word,
         NEW type, type = IF v = 2 THEN 4 ELSE 12,
         IsFrame(w, v, quality, type, id, ts, V2!U16(code))
  PROVE  /\ v = 2 => \A c \in DOMAIN V2!COMMAND : V2!COMMAND[c] = code => Parsed(v, w) = c
         /\ v = 3 => \A c \in DOMAIN V3!COMMAND : V3!COMMAND[c] = code => Parsed(v, w) = c
<1>1. /\ w \in Seq(Byte) /\ Len(w) = 16 + Len(V2!U16(code))
      /\ HasHead(w, v, quality, Len(w), type, id, ts)
      /\ At(w, 14, V2!U16(code)) /\ V2!checksum_matches(w)
  BY Zenon DEF IsFrame
<1>2. Len(w) = 18
  <2>1. Len(V2!U16(code)) = 2
    BY WordOnWire
  <2> QED BY ONLY <1>1, <2>1, SMT
<1>3. w[1] = 170 /\ w[2] = 16 * type + v /\ V2!WordAt(w, 3) = 18
  <2>1. HasHead(w, v, quality, Len(w), type, id, ts)
    BY <1>1
  <2>2. w[1] = 170 /\ w[2] = 16 * type + v /\ V2!WordAt(w, 3) = Len(w)
    BY ONLY <2>1, SMT DEF HasHead
  <2> QED BY ONLY <1>2, <2>2
<1>4. V2!WordAt(w, 15) = code
  <2>1. V2!WordAt(w, 14 + 1) = code
    BY <1>1, ReadWord
  <2> QED BY <2>1
<1>5. type \in {4, 12} /\ (16 * type + v) % 16 = v /\ (16 * type + v) \div 16 = type
      /\ (v = 2 => 16 * type + v < 128)
  <2>1. v = 2 => type = 4
    OBVIOUS
  <2>2. v = 3 => type = 12
    OBVIOUS
  <2> QED BY ONLY v \in {2, 3}, <2>1, <2>2, SMT
<1>6. V3!checksum_matches(w)
  <2>1. Len(w) >= 2 => Len(SubSeq(w, 1, Len(w) - 2)) \in Nat
    BY <1>1
  <2> QED BY <1>1, <1>2, <2>1, SameChecksum
<1>7. V3!WordAt(w, 3) = 18 /\ V3!WordAt(w, 15) = code
  BY <1>3, <1>4, SameWordAt
<1>8. ASSUME v = 2, NEW c \in DOMAIN V2!COMMAND, V2!COMMAND[c] = code PROVE Parsed(v, w) = c
  <2>1. V2!parse_with_limit(w, U16_MAX) = "Ok"
    <3>1. V2!checksum_matches(w)
      BY <1>1
    <3>2. w[2] = 66
      BY ONLY <1>3, <1>8, type = IF v = 2 THEN 4 ELSE 12, SMT
    <3>3. w[1] = 170 /\ V2!WordAt(w, 3) = 18
      BY <1>3
    <3> QED BY ONLY <1>2, <3>1, <3>2, <3>3, SMT
       DEF V2!parse_with_limit, V2!MIN_FRAME_BYTES, V2!SYNC_BYTE, U16_MAX
  <2>2. V2!version(w) = 2 /\ V2!frame_type(w) = 4
    BY ONLY <1>3, <1>5, <1>8, type = IF v = 2 THEN 4 ELSE 12, SMT DEF V2!version, V2!frame_type
  <2>3. \A d \in DOMAIN V2!COMMAND : V2!COMMAND[d] = code => d = c
    BY ONLY <1>8, SMT DEF V2!COMMAND
  <2>4. (CHOOSE d \in DOMAIN V2!COMMAND : V2!COMMAND[d] = code) = c
    BY <1>8, <2>3
  <2>5. V2!parse_command(w) = c
    <3>1. V2!FRAME_TYPE.Command = 4
      BY DEF V2!FRAME_TYPE
    <3> QED BY ONLY <1>2, <1>4, <1>8, <2>2, <2>4, <3>1, SMT
       DEF V2!parse_command, V2!VERSION, V2!COMMAND_FRAME_BYTES
  <2> QED BY ONLY <1>8, <2>1, <2>5, SMT DEF Parsed
<1>9. ASSUME v = 3, NEW c \in DOMAIN V3!COMMAND, V3!COMMAND[c] = code PROVE Parsed(v, w) = c
  <2>1. V3!parse_with_limit(w, U16_MAX) = "Ok"
    BY ONLY <1>6, <1>2, <1>3, <1>5, <1>7, <1>9, SMT
       DEF V3!parse_with_limit, V3!MIN_FRAME_BYTES, V3!SYNC_BYTE, U16_MAX
  <2>2. V3!version(w) = 3 /\ V3!frame_type(w) = 12
    BY ONLY <1>3, <1>5, <1>9, type = IF v = 2 THEN 4 ELSE 12, SMT DEF V3!version, V3!frame_type
  <2>3. \A d \in DOMAIN V3!COMMAND : V3!COMMAND[d] = code => d = c
    BY ONLY <1>9, SMT DEF V3!COMMAND
  <2>4. (CHOOSE d \in DOMAIN V3!COMMAND : V3!COMMAND[d] = code) = c
    BY <1>9, <2>3
  <2>5. V3!parse_command(w) = c
    <3>1. V3!FRAME_TYPE.Command = 12
      BY DEF V3!FRAME_TYPE
    <3> QED BY ONLY <1>2, <1>7, <1>9, <2>2, <2>4, <3>1, SMT
       DEF V3!parse_command, V3!VERSION, V3!COMMAND_FRAME_BYTES
  <2> QED BY ONLY <1>9, <2>1, <2>5, SMT DEF Parsed
<1> QED BY <1>8, <1>9

LEMMA FractionsAreLong == \A n \in Fraction : Halves32(n)
<1>1. ASSUME NEW n \in Fraction PROVE n \in Nat /\ n \div 65536 <= 65535
  BY SMT DEF Fraction
<1> QED BY <1>1, FitsInLong

LEMMA LongSpans ==
  ASSUME NEW n, Halves32(n)
  PROVE  Spans(V2!U32(n), 4)
  BY LongOnWire, ByteSeqs DEF Spans

Printable == 32 .. 126

LEMMA PrintableBytes == 32 \in Printable /\ Printable \subseteq Byte /\ Seq(Printable) \subseteq Seq(Byte)
<1>1. 32 \in Printable /\ Printable \subseteq Byte
  BY SMT DEF Printable, Byte
<1> QED BY <1>1, WiderSeq

(* A name that is printable stays so when it is padded.                    *)
LEMMA PaddedIsPrintable ==
  ASSUME NEW name \in Seq(Printable), Len(name) <= 16
  PROVE  V2!Padded(name) \in Seq(Printable) /\ Sized(V2!Padded(name), 16)
<1> DEFINE m == 16 - Len(name)
           pad == [i \in 1..m |-> 32]
<1>1. m \in Nat
  OBVIOUS
<1>2. pad \in Seq(Printable)
  <2> HIDE DEF m
  <2> QED BY <1>1, PrintableBytes
<1>3. V2!Padded(name) = name \o pad
  BY DEF V2!Padded
<1> HIDE DEF pad, m
<1>4. name \o pad \in Seq(Printable)
  BY <1>2
<1>5. name \in Seq(Byte)
  BY PrintableBytes
<1> QED BY <1>3, <1>4, <1>5, SizedName

LEMMA ChannelNamesAre ==
  ASSUME NEW c \in 1..6
  PROVE  /\ V2!ChannelNames[c] \in Seq(Printable) /\ Len(V2!ChannelNames[c]) = 3
         /\ V3!ChannelNames[c] \in Seq(Printable) /\ Len(V3!ChannelNames[c]) = 3
<1> DEFINE a == IF c <= 3 THEN 86 ELSE 73
           b == 49 + ((c - 1) % 3)
           f == [d \in 1 .. 6 |-> <<IF d <= 3 THEN 86 ELSE 73, 76, 49 + ((d - 1) % 3)>>]
<1>1. a \in Printable /\ 76 \in Printable /\ b \in Printable
  BY SMT DEF Printable
<1>2. f[c] = <<a, 76, b>> /\ V2!ChannelNames[c] = f[c]
  BY Zenon DEF V2!ChannelNames
<1> HIDE DEF a, b
<1>3. <<a, 76, b>> \in Seq(Printable) /\ Len(<<a, 76, b>>) = 3
  BY ONLY <1>1, SMT
<1>4. V3!ChannelNames[c] = f[c]
  <2>1. V3!ChannelNames = f \o << <<70, 82, 69, 81>>, <<82, 79, 67, 79, 70>> >>
    BY SMT DEF V3!ChannelNames
  <2> DEFINE g == << <<70, 82, 69, 81>>, <<82, 79, 67, 79, 70>> >>
  <2>2. f \in Seq(Seq(Int)) /\ Len(f) = 6 /\ g \in Seq(Seq(Int))
    BY SMT
  <2> HIDE DEF f, g
  <2>3. (f \o g)[c] = f[c]
    <3>1. At(f \o g, 0, f)
      BY ONLY <2>2, Joined, Zenon
    <3>2. c \in 1..Len(f) /\ 0 + c = c
      BY <2>2
    <3> QED BY <3>1, <3>2 DEF At
  <2> QED BY <2>1, <2>3 DEF g
<1> QED BY <1>2, <1>3, <1>4

LEMMA ChannelNamesSpan ==
  LET names == V2!ForEachPhasor([c \in 1 .. 6 |-> V2!Padded(V2!ChannelNames[c])])
  IN  Spans(names, 96) /\ names \in Seq(Printable)
<1> DEFINE F == [c \in 1 .. 6 |-> V2!Padded(V2!ChannelNames[c])]
<1>1. ASSUME NEW c \in 1..6 PROVE Spans(F[c], 16) /\ F[c] \in Seq(Printable)
  <2>1. V2!ChannelNames[c] \in Seq(Printable) /\ Len(V2!ChannelNames[c]) <= 16
    <3>1. V2!ChannelNames[c] \in Seq(Printable) /\ Len(V2!ChannelNames[c]) = 3
      BY ChannelNamesAre
    <3>2. 3 <= 16
      OBVIOUS
    <3> QED BY ONLY <3>1, <3>2
  <2>2. F[c] = V2!Padded(V2!ChannelNames[c])
    OBVIOUS
  <2> QED BY ONLY <2>1, <2>2, PaddedIsPrintable, SizedSpans, Zenon
<1> HIDE DEF F
<1>2. Spans(V2!ForEachPhasor(F), 6 * 16)
  BY <1>1, SpansPhasors
<1>3. V2!ForEachPhasor(F) \in Seq(Printable)
  <2>1. /\ F[1] \in Seq(Printable) /\ F[2] \in Seq(Printable) /\ F[3] \in Seq(Printable)
        /\ F[4] \in Seq(Printable) /\ F[5] \in Seq(Printable) /\ F[6] \in Seq(Printable)
    BY <1>1
  <2>2. \A s, t \in Seq(Printable) : s \o t \in Seq(Printable)
    OBVIOUS
  <2> QED BY ONLY <2>1, <2>2, Zenon DEF V2!ForEachPhasor
<1> QED BY <1>2, <1>3 DEF F

LEMMA PhunitsSpan ==
  ASSUME NEW units, \A c \in 1..6 : Halves32(units[c])
  PROVE  LET text == V2!ForEachPhasor([c \in 1 .. 6 |-> V2!U32(units[c])])
         IN  /\ Spans(text, 24)
             /\ \A c \in 1..6 : At(text, 4 * (c - 1), V2!U32(units[c]))
<1> DEFINE F == [c \in 1 .. 6 |-> V2!U32(units[c])]
<1>1. ASSUME NEW c \in 1..6 PROVE Spans(F[c], 4)
  BY LongSpans
<1>2. \A c \in 1..6 : F[c] = V2!U32(units[c])
  OBVIOUS
<1> HIDE DEF F
<1>3. /\ Spans(V2!ForEachPhasor(F), 6 * 4)
      /\ \A c \in 1..6 : At(V2!ForEachPhasor(F), 4 * (c - 1), F[c])
  BY <1>1, SpansPhasors
<1> QED BY <1>2, <1>3 DEF F

(* The fields of CFG-2.                                                    *)
LEMMA LayoutOfV2 ==
  ASSUME NEW e, e.recipe.time_base \in Fraction, e.pmu_id \in Word,
         e.pmu_name \in Seq(Byte), Len(e.pmu_name) <= 16,
         \A c \in 1..6 : Halves32(e.phunits[c]), e.recipe.data_rate_hz \in Int
  PROVE  LET text == V2!encode_configuration(e)
         IN  /\ Spans(text, 158)
             /\ At(text, 0, V2!U32(e.recipe.time_base))
             /\ At(text, 4, V2!U16(1))
             /\ At(text, 6, V2!Padded(e.pmu_name))
             /\ At(text, 22, V2!U16(e.pmu_id))
             /\ At(text, 24, V2!U16(1))
             /\ At(text, 26, V2!U16(6))
             /\ At(text, 28, V2!U16(0))
             /\ At(text, 30, V2!U16(0))
             /\ At(text, 32, V2!ForEachPhasor([c \in 1 .. 6 |-> V2!Padded(V2!ChannelNames[c])]))
             /\ At(text, 128, V2!ForEachPhasor([c \in 1 .. 6 |-> V2!U32(e.phunits[c])]))
             /\ At(text, 152, V2!U16(IF e.recipe.nominal_frequency_hz = 50 THEN 1 ELSE 0))
             /\ At(text, 156, V2!I16(e.recipe.data_rate_hz))
<1> DEFINE a1 == V2!U32(e.recipe.time_base)
           a2 == V2!U16(1)
           a3 == V2!Padded(e.pmu_name)
           a4 == V2!U16(e.pmu_id)
           a5 == V2!U16(1)
           a6 == V2!U16(6)
           a7 == V2!U16(0)
           a8 == V2!U16(0)
           a9 == V2!ForEachPhasor([c \in 1 .. 6 |-> V2!Padded(V2!ChannelNames[c])])
           a10 == V2!ForEachPhasor([c \in 1 .. 6 |-> V2!U32(e.phunits[c])])
           a11 == V2!U16(IF e.recipe.nominal_frequency_hz = 50 THEN 1 ELSE 0)
           a12 == V2!U16(0)
           a13 == V2!I16(e.recipe.data_rate_hz)
           x2 == a1 \o a2
           x3 == x2 \o a3
           x4 == x3 \o a4
           x5 == x4 \o a5
           x6 == x5 \o a6
           x7 == x6 \o a7
           x8 == x7 \o a8
           x9 == x8 \o a9
           x10 == x9 \o a10
           x11 == x10 \o a11
           x12 == x11 \o a12
           x13 == x12 \o a13
<1>1. V2!encode_configuration(e) = x13
  BY Zenon DEF V2!encode_configuration
<1>2. /\ Spans(a1, 4)
      /\ Spans(a2, 2)
      /\ Spans(a3, 16)
      /\ Spans(a4, 2)
      /\ Spans(a5, 2)
      /\ Spans(a6, 2)
      /\ Spans(a7, 2)
      /\ Spans(a8, 2)
      /\ Spans(a9, 96)
      /\ Spans(a10, 24)
      /\ Spans(a11, 2)
      /\ Spans(a12, 2)
      /\ Spans(a13, 2)
  <2>1. 0 \in Word /\ 1 \in Word /\ 6 \in Word /\ Halves32(e.recipe.time_base)
    BY FractionsAreLong, SMT DEF Word
  <2>2. /\ Spans(a2, 2) /\ Spans(a4, 2) /\ Spans(a5, 2) /\ Spans(a6, 2) /\ Spans(a7, 2)
        /\ Spans(a8, 2) /\ Spans(a12, 2)
    BY <2>1, SizedWord, SizedSpans, Zenon
  <2>3. Spans(a1, 4)
    BY <2>1, LongSpans
  <2>4. Spans(a3, 16)
    BY SizedName, SizedSpans
  <2>5. Spans(a9, 96)
    BY ChannelNamesSpan
  <2>6. Spans(a10, 24)
    BY PhunitsSpan
  <2>7. Spans(a11, 2)
    BY <2>1, SizedWord, SizedSpans
  <2>8. Spans(a13, 2)
    BY SizedWord, SizedSpans
  <2> QED BY ONLY <2>2, <2>3, <2>4, <2>5, <2>6, <2>7, <2>8
<1> HIDE DEF a1, a2, a3, a4, a5, a6, a7, a8, a9, a10, a11, a12, a13, x2, x3, x4,
         x5, x6, x7, x8, x9, x10, x11, x12, x13
<1>3. Spans(x2, 6)
  <2>1. Spans(x2, 4 + 2)
    BY <1>2, SpansJoin, Zenon DEF x2
  <2> QED BY ONLY <2>1, SMT
<1>4. Spans(x3, 22)
  <2>1. Spans(x3, 6 + 16)
    BY <1>2, <1>3, SpansJoin, Zenon DEF x3
  <2> QED BY ONLY <2>1, SMT
<1>5. Spans(x4, 24)
  <2>1. Spans(x4, 22 + 2)
    BY <1>2, <1>4, SpansJoin, Zenon DEF x4
  <2> QED BY ONLY <2>1, SMT
<1>6. Spans(x5, 26)
  <2>1. Spans(x5, 24 + 2)
    BY <1>2, <1>5, SpansJoin, Zenon DEF x5
  <2> QED BY ONLY <2>1, SMT
<1>7. Spans(x6, 28)
  <2>1. Spans(x6, 26 + 2)
    BY <1>2, <1>6, SpansJoin, Zenon DEF x6
  <2> QED BY ONLY <2>1, SMT
<1>8. Spans(x7, 30)
  <2>1. Spans(x7, 28 + 2)
    BY <1>2, <1>7, SpansJoin, Zenon DEF x7
  <2> QED BY ONLY <2>1, SMT
<1>9. Spans(x8, 32)
  <2>1. Spans(x8, 30 + 2)
    BY <1>2, <1>8, SpansJoin, Zenon DEF x8
  <2> QED BY ONLY <2>1, SMT
<1>10. Spans(x9, 128)
  <2>1. Spans(x9, 32 + 96)
    BY <1>2, <1>9, SpansJoin, Zenon DEF x9
  <2> QED BY ONLY <2>1, SMT
<1>11. Spans(x10, 152)
  <2>1. Spans(x10, 128 + 24)
    BY <1>2, <1>10, SpansJoin, Zenon DEF x10
  <2> QED BY ONLY <2>1, SMT
<1>12. Spans(x11, 154)
  <2>1. Spans(x11, 152 + 2)
    BY <1>2, <1>11, SpansJoin, ZenonT(60) DEF x11
  <2> QED BY ONLY <2>1, SMT
<1>13. Spans(x12, 156)
  <2>1. Spans(x12, 154 + 2)
    BY <1>2, <1>12, SpansJoin, Zenon DEF x12
  <2> QED BY ONLY <2>1, SMT
<1>14. Spans(x13, 158)
  <2>1. Spans(x13, 156 + 2)
    BY <1>2, <1>13, SpansJoin, Zenon DEF x13
  <2> QED BY ONLY <2>1, SMT
<1>15. x13 \in Seq(Int) /\ At(x13, 0, x13)
  BY <1>14, WholeAt DEF Spans
<1>16. At(x13, 0, x12) /\ At(x13, 156, a13)
  BY <1>2, <1>13, <1>15, Peel, Zenon DEF x13
<1>17. At(x13, 0, x11) /\ At(x13, 154, a12)
  BY <1>2, <1>12, <1>15, <1>16, Peel, Zenon DEF x12
<1>18. At(x13, 0, x10) /\ At(x13, 152, a11)
  BY <1>2, <1>11, <1>15, <1>17, Peel, Zenon DEF x11
<1>19. At(x13, 0, x9) /\ At(x13, 128, a10)
  BY <1>2, <1>10, <1>15, <1>18, Peel, Zenon DEF x10
<1>20. At(x13, 0, x8) /\ At(x13, 32, a9)
  BY <1>2, <1>9, <1>15, <1>19, Peel, Zenon DEF x9
<1>21. At(x13, 0, x7) /\ At(x13, 30, a8)
  BY <1>2, <1>8, <1>15, <1>20, Peel, Zenon DEF x8
<1>22. At(x13, 0, x6) /\ At(x13, 28, a7)
  BY <1>2, <1>7, <1>15, <1>21, Peel, Zenon DEF x7
<1>23. At(x13, 0, x5) /\ At(x13, 26, a6)
  BY <1>2, <1>6, <1>15, <1>22, Peel, Zenon DEF x6
<1>24. At(x13, 0, x4) /\ At(x13, 24, a5)
  BY <1>2, <1>5, <1>15, <1>23, Peel, Zenon DEF x5
<1>25. At(x13, 0, x3) /\ At(x13, 22, a4)
  BY <1>2, <1>4, <1>15, <1>24, Peel, Zenon DEF x4
<1>26. At(x13, 0, x2) /\ At(x13, 6, a3)
  BY <1>2, <1>3, <1>15, <1>25, Peel, Zenon DEF x3
<1>27. At(x13, 0, a1) /\ At(x13, 4, a2)
  BY <1>2, <1>15, <1>26, Peel, Zenon DEF x2
<1> QED BY ONLY <1>1, <1>14, <1>27, <1>26, <1>25, <1>24, <1>23, <1>22, <1>21, <1>20, <1>19, <1>18, <1>16, ZenonT(60)
  DEF a1, a2, a3, a4, a5, a6, a7, a8, a9, a10, a11, a12, a13

(* A PHUNIT: a flag in the high byte, and a factor that is not 0.          *)
IsPhunit(n) == \E flag \in {0, 1}, factor \in Fraction \ {0} : n = 16777216 * flag + factor

LEMMA PhunitsAreLong == \A n : IsPhunit(n) => Halves32(n)
<1>1. ASSUME NEW flag \in {0, 1}, NEW factor \in Fraction \ {0}
      PROVE  16777216 * flag + factor \in Nat /\ (16777216 * flag + factor) \div 65536 <= 65535
  BY SMT DEF Fraction
<1>2. \A flag \in {0, 1}, factor \in Fraction \ {0} : Halves32(16777216 * flag + factor)
  BY <1>1, FitsInLong
<1> QED BY <1>2 DEF IsPhunit

LEMMA ReadPhunit ==
  ASSUME NEW text \in Seq(Int), NEW k, NEW n, IsPhunit(n), At(text, k, V2!U32(n))
  PROVE  text[k + 1] <= 1 /\ SubSeq(text, k + 2, k + 4) # <<0, 0, 0>>
<1>1. Halves32(n) /\ Byte \subseteq Int
  BY PhunitsAreLong DEF Byte
<1>2. k \in Nat /\ V2!LongAt(text, k + 1) = n
  BY <1>1, ReadLong
<1>3. V2!U32(n) \in Seq(Byte) /\ Len(V2!U32(n)) = 4
  BY <1>1, LongOnWire
<1>4. /\ text[k + 1] \in Byte /\ text[k + 2] \in Byte /\ text[k + 3] \in Byte /\ text[k + 4] \in Byte
      /\ k + 4 <= Len(text)
  <2> DEFINE u == V2!U32(n)
  <2> HIDE DEF u
  <2>1. u \in Seq(Byte) /\ Len(u) = 4 /\ At(text, k, u)
    BY <1>3 DEF u
  <2>2. u[1] \in Byte /\ u[2] \in Byte /\ u[3] \in Byte /\ u[4] \in Byte
    <3>1. u \in Seq(Byte) /\ Len(u) = 4
      BY <2>1
    <3>2. \A i \in 1..Len(u) : u[i] \in Byte
      BY ONLY <3>1, ElementOfSeq, Zenon
    <3> QED BY ONLY <3>1, <3>2, SMT
  <2>3. /\ text[k + 1] = u[1] /\ text[k + 2] = u[2] /\ text[k + 3] = u[3] /\ text[k + 4] = u[4]
        /\ k + 4 <= Len(text)
    BY ONLY <2>1, SMT DEF At
  <2> QED BY ONLY <2>2, <2>3
<1> DEFINE a == text[k + 1]
           b == text[k + 2]
           c == text[k + 3]
           d == text[k + 4]
<1>5. 65536 * (256 * a + b) + (256 * c + d) = n
  <2>1. (k + 1) + 1 = k + 2 /\ (k + 1) + 2 = k + 3 /\ (k + 3) + 1 = k + 4
    BY <1>2
  <2> QED BY ONLY <1>2, <2>1, SMT DEF V2!LongAt, V2!WordAt
<1>6. PICK flag \in {0, 1}, factor \in Fraction \ {0} : n = 16777216 * flag + factor
  BY DEF IsPhunit
<1>7. a \in Byte /\ b \in Byte /\ c \in Byte /\ d \in Byte
  BY <1>4
<1> HIDE DEF a, b, c, d
<1>8. a <= 1 /\ ~(b = 0 /\ c = 0 /\ d = 0)
  BY ONLY <1>5, <1>6, <1>7, SMT DEF Byte, Fraction
<1>9. ASSUME SubSeq(text, k + 2, k + 4) = <<0, 0, 0>> PROVE FALSE
  <2> DEFINE s == SubSeq(text, k + 2, k + 4)
  <2>1. s[1] = text[k + 2] /\ s[2] = text[k + 3] /\ s[3] = text[k + 4]
    BY ONLY <1>2, <1>4, text \in Seq(Int), SMT
  <2> HIDE DEF s
  <2>2. s[1] = 0 /\ s[2] = 0 /\ s[3] = 0
    <3>1. s = <<0, 0, 0>>
      BY <1>9 DEF s
    <3> QED BY ONLY <3>1, SMT
  <2> QED BY <1>8, <2>1, <2>2 DEF b, c, d
<1> QED BY <1>8, <1>9 DEF a

LEMMA PrintableIs ==
  ASSUME NEW text \in Seq(Printable)
  PROVE  V2!IsPrintable(text)
<1>1. \A i \in DOMAIN text : text[i] \in Printable
  OBVIOUS
<1> QED BY <1>1, Zenon DEF V2!IsPrintable, Printable

LEMMA PrintablePart ==
  ASSUME NEW text \in Seq(Int), NEW t \in Seq(Printable), NEW k, NEW i, NEW j, At(text, k, t),
         i = k + 1, j = k + Len(t)
  PROVE  V2!IsPrintable(SubSeq(text, i, j))
<1>1. t \in Seq(Int)
  BY PrintableBytes, ByteSeqs
<1>2. SubSeq(text, k + 1, k + Len(t)) = t
  BY <1>1, PartIs, Zenon
<1>3. SubSeq(text, i, j) = t
  BY <1>2, Zenon
<1> QED BY <1>3, PrintableIs, Zenon

(* What the V2 probe makes of an endpoint's CFG-2.                         *)
LEMMA ConfigurationOfV2 ==
  ASSUME NEW e, e.recipe.time_base \in Fraction \ {0}, e.recipe.time_base % 50 = 0,
         e.pmu_id \in Word \ {0, 65535}, e.pmu_name \in Seq(Printable), Len(e.pmu_name) <= 16,
         \A c \in 1..6 : IsPhunit(e.phunits[c]), e.recipe.data_rate_hz = 50
  PROVE  LET text == V2!encode_configuration(e)
         IN  /\ V2!decode_configuration(text, 50) /\ Len(text) = 158
             /\ V2!ConfigurationSummary(text)
                  = [time_base |-> e.recipe.time_base, pmu_id |-> e.pmu_id]
<1> DEFINE text == V2!encode_configuration(e)
           base == e.recipe.time_base
           name == V2!Padded(e.pmu_name)
           channels == V2!ForEachPhasor([c \in 1 .. 6 |-> V2!Padded(V2!ChannelNames[c])])
           units == V2!ForEachPhasor([c \in 1 .. 6 |-> V2!U32(e.phunits[c])])
           nominal == IF e.recipe.nominal_frequency_hz = 50 THEN 1 ELSE 0
<1>1. /\ base \in Fraction /\ e.pmu_id \in Word /\ e.pmu_name \in Seq(Byte)
      /\ \A c \in 1..6 : Halves32(e.phunits[c])
  BY PrintableBytes, PhunitsAreLong
<1>2. /\ Spans(text, 158) /\ At(text, 0, V2!U32(base)) /\ At(text, 4, V2!U16(1))
      /\ At(text, 6, name) /\ At(text, 22, V2!U16(e.pmu_id)) /\ At(text, 24, V2!U16(1))
      /\ At(text, 26, V2!U16(6)) /\ At(text, 28, V2!U16(0)) /\ At(text, 30, V2!U16(0))
      /\ At(text, 32, channels) /\ At(text, 128, units) /\ At(text, 152, V2!U16(nominal))
      /\ At(text, 156, V2!I16(e.recipe.data_rate_hz))
  <2>1. e.recipe.data_rate_hz \in Int
    BY SMT
  <2>2. e.pmu_name \in Seq(Byte) /\ Len(e.pmu_name) <= 16
    BY <1>1
  <2> QED BY ONLY <1>1, <2>1, <2>2, LayoutOfV2, ZenonT(60)
<1>3. text \in Seq(Int) /\ Len(text) = 158
  BY <1>2 DEF Spans
<1>4. name \in Seq(Printable) /\ Len(name) = 16 /\ channels \in Seq(Printable) /\ Len(channels) = 96
  BY PaddedIsPrintable, ChannelNamesSpan DEF Sized, Spans
<1>5. /\ Spans(units, 24) /\ \A c \in 1..6 : At(units, 4 * (c - 1), V2!U32(e.phunits[c]))
  BY <1>1, PhunitsSpan
<1>6. V2!I16(e.recipe.data_rate_hz) = V2!U16(50) /\ nominal \in {0, 1}
      /\ 0 \in Word /\ 1 \in Word /\ 6 \in Word /\ 50 \in Word /\ Halves32(base) /\ Byte \subseteq Int
  <2>1. 50 % 65536 = 50
    OBVIOUS
  <2>2. V2!I16(e.recipe.data_rate_hz) = V2!U16(50)
    BY <2>1 DEF V2!I16
  <2> QED BY <1>1, <2>2, FractionsAreLong, SMT DEF Word, Byte
<1> HIDE DEF text, base, name, channels, units, nominal
<1>7. /\ V2!LongAt(text, 0 + 1) = base /\ V2!WordAt(text, 4 + 1) = 1
      /\ V2!WordAt(text, 22 + 1) = e.pmu_id /\ V2!WordAt(text, 24 + 1) = 1
      /\ V2!WordAt(text, 26 + 1) = 6 /\ V2!WordAt(text, 28 + 1) = 0
      /\ V2!WordAt(text, 30 + 1) = 0 /\ V2!WordAt(text, 152 + 1) = nominal
      /\ V2!WordAt(text, 156 + 1) = 50
  <2>1. V2!LongAt(text, 0 + 1) = base
    BY ONLY <1>2, <1>3, <1>6, ReadLong, Zenon
  <2>2. \A k, n : n \in Word /\ At(text, k, V2!U16(n)) => V2!WordAt(text, k + 1) = n
    BY ONLY <1>3, ReadWord, Zenon
  <2>3. nominal \in Word
    BY ONLY <1>6
  <2>4. At(text, 156, V2!U16(50))
    BY ONLY <1>2, <1>6, SMT
  <2>5. V2!WordAt(text, 22 + 1) = e.pmu_id
    BY ONLY <1>1, <1>2, <2>2
  <2> QED BY ONLY <1>2, <1>6, <2>1, <2>2, <2>3, <2>4, <2>5, SMT
<1>8. V2!IsPrintable(SubSeq(text, 7, 22)) /\ V2!IsPrintable(SubSeq(text, 33, 128))
  <2>1. text \in Seq(Int) /\ At(text, 6, name) /\ At(text, 32, channels)
    BY <1>2, <1>3
  <2>2. 7 = 6 + 1 /\ 22 = 6 + Len(name) /\ 33 = 32 + 1 /\ 128 = 32 + Len(channels)
    BY ONLY <1>4, SMT
  <2>3. V2!IsPrintable(SubSeq(text, 7, 22))
    BY ONLY <1>4, <2>1, <2>2, PrintablePart, ZenonT(60)
  <2>4. V2!IsPrintable(SubSeq(text, 33, 128))
    <3>1. channels \in Seq(Printable) /\ At(text, 32, channels) /\ text \in Seq(Int)
      BY <1>4, <2>1
    <3> DEFINE i == 33
               j == 128
    <3>2. i = 32 + 1 /\ j = 32 + Len(channels)
      BY <2>2
    <3> HIDE DEF i, j
    <3>3. V2!IsPrintable(SubSeq(text, i, j))
      BY ONLY <3>1, <3>2, PrintablePart, Zenon
    <3> QED BY <3>3 DEF i, j
  <2> QED BY <2>3, <2>4
<1>9. ASSUME NEW c \in 1..6
      PROVE  text[125 + 4 * c] <= 1 /\ SubSeq(text, 126 + 4 * c, 128 + 4 * c) # <<0, 0, 0>>
  <2> DEFINE j == 4 * (c - 1)
             k == 128 + j
             u == V2!U32(e.phunits[c])
  <2>1. u \in Seq(Int) /\ units \in Seq(Int) /\ IsPhunit(e.phunits[c]) /\ At(units, j, u)
    BY <1>1, <1>5, LongSpans, SMTT(40) DEF Spans
  <2>2. k + 1 = 125 + 4 * c /\ k + 2 = 126 + 4 * c /\ k + 4 = 128 + 4 * c
    BY SMTT(40)
  <2> HIDE DEF j, u
  <2>3. At(text, k, u)
    <3>1. At(text, 128, units)
      BY <1>2
    <3> QED BY ONLY <1>3, <2>1, <3>1, PartOfPart, SMT
  <2> HIDE DEF k
  <2>4. text[k + 1] <= 1 /\ SubSeq(text, k + 2, k + 4) # <<0, 0, 0>>
    <3>1. At(text, k, V2!U32(e.phunits[c]))
      BY <2>3 DEF u
    <3> QED BY ONLY <1>3, <2>1, <3>1, ReadPhunit, ZenonT(60)
  <2> QED BY ONLY <2>2, <2>4, SMT
<1>10. /\ V2!LongAt(text, 1) = base /\ V2!WordAt(text, 5) = 1 /\ V2!WordAt(text, 23) = e.pmu_id
       /\ V2!WordAt(text, 25) = 1 /\ V2!WordAt(text, 27) = 6 /\ V2!WordAt(text, 29) = 0
       /\ V2!WordAt(text, 31) = 0 /\ V2!WordAt(text, 153) = nominal /\ V2!WordAt(text, 157) = 50
  BY ONLY <1>7, SMT
<1>11. /\ base # 0 /\ base \div 16777216 = 0 /\ base % 50 = 0
       /\ e.pmu_id \notin {0, 65535} /\ nominal <= 1
  <2>1. base \in Fraction \ {0} /\ base % 50 = 0
    BY DEF base
  <2>2. base # 0 /\ base \div 16777216 = 0
    BY ONLY <2>1, SMT DEF Fraction
  <2> QED BY <1>6, <2>1, <2>2
<1>12. V2!decode_configuration(text, 50)
  BY ONLY <1>3, <1>8, <1>9, <1>10, <1>11, SMTT(40) DEF V2!decode_configuration
<1>13. V2!ConfigurationSummary(text) = [time_base |-> base, pmu_id |-> e.pmu_id]
  BY ONLY <1>10, Zenon DEF V2!ConfigurationSummary
<1> QED BY <1>3, <1>12, <1>13 DEF text, base

(* The fields of the V3 configurations.                                    *)
LEMMA WordSpans3 ==
  /\ \A n \in Word : Spans(V3!U16(n), 2)
  /\ \A n \in Int : Spans(V3!I16(n), 2)
<1>1. /\ \A n \in Word : Spans(V2!U16(n), 2)
      /\ \A n \in Int : Spans(V2!I16(n), 2)
  BY SizedWord, SizedSpans, Zenon
<1> QED BY <1>1, SameWords

LEMMA FloatSpans ==
  ASSUME NEW v \in Int
  PROVE  Spans(V3!F32(v), 4)
<1> DEFINE h == v \div 65536
           l == v % 65536
           a == <<h \div 256, h % 256>>
           b == <<l \div 256, l % 256>>
<1>1. V3!F32(v) = a \o b
  BY SMT DEF V3!F32, V3!U32, V3!U16
<1>2. h \in Int /\ l \in Int
  BY SMT
<1> HIDE DEF h, l
<1>3. h \div 256 \in Int /\ h % 256 \in Int /\ l \div 256 \in Int /\ l % 256 \in Int
  BY ONLY <1>2, SMT
<1>4. \A x, y \in Int : Spans(<<x, y>>, 2)
  BY SMT DEF Spans
<1>5. Spans(a, 2) /\ Spans(b, 2)
  BY <1>3, <1>4
<1> HIDE DEF a, b
<1>6. Spans(a \o b, 2 + 2)
  BY <1>5, SpansJoin
<1> QED BY <1>1, <1>6

LEMMA CountedSpans ==
  ASSUME NEW name \in Seq(Byte)
  PROVE  Spans(V3!Counted(name), 1 + Len(name)) /\ V3!Counted(name)[1] = Len(name)
<1> DEFINE n == Len(name)
<1>1. n \in Int /\ name \in Seq(Int)
  BY ByteSeqs
<1> HIDE DEF n
<1>2. Spans(<<n>>, 1) /\ <<n>>[1] = n
  BY <1>1, SMT DEF Spans
<1>3. Spans(name, n)
  BY <1>1 DEF Spans, n
<1>4. V3!Counted(name) = <<n>> \o name
  BY DEF V3!Counted, n
<1> DEFINE one == <<n>>
<1> HIDE DEF one
<1>5. Spans(one, 1) /\ one[1] = n
  BY <1>2 DEF one
<1>6. Spans(one \o name, 1 + n)
  BY ONLY <1>3, <1>5, SpansJoin, Zenon
<1>7. (one \o name)[1] = n
  <2>1. At(one \o name, 0, one)
    <3>1. one \in Seq(Int) /\ name \in Seq(Int)
      BY <1>1, <1>5 DEF Spans
    <3> QED BY ONLY <3>1, Joined, Zenon
  <2>2. 1 \in 1..Len(one) /\ 0 + 1 = 1
    BY <1>5 DEF Spans
  <2> QED BY <1>5, <2>1, <2>2 DEF At
<1> QED BY <1>4, <1>6, <1>7 DEF one, n

LEMMA LastNames ==
  /\ V3!ChannelNames[7] = <<70, 82, 69, 81>>
  /\ V3!ChannelNames[8] = <<82, 79, 67, 79, 70>>
<1> DEFINE f == [d \in 1 .. 6 |-> <<IF d <= 3 THEN 86 ELSE 73, 76, 49 + ((d - 1) % 3)>>]
           g == << <<70, 82, 69, 81>>, <<82, 79, 67, 79, 70>> >>
<1>1. V3!ChannelNames = f \o g
  BY SMT DEF V3!ChannelNames
<1>2. f \in Seq(Seq(Int)) /\ Len(f) = 6 /\ g \in Seq(Seq(Int)) /\ Len(g) = 2
      /\ g[1] = <<70, 82, 69, 81>> /\ g[2] = <<82, 79, 67, 79, 70>>
  BY SMT
<1> HIDE DEF f, g
<1>3. At(f \o g, 6, g)
  <2>1. At(f \o g, Len(f), g)
    BY ONLY <1>2, Joined, Zenon
  <2> QED BY ONLY <1>2, <2>1, SMT
<1>4. (f \o g)[6 + 1] = g[1] /\ (f \o g)[6 + 2] = g[2]
  <2>1. 1 \in 1..Len(g) /\ 2 \in 1..Len(g)
    BY <1>2
  <2> QED BY ONLY <1>3, <2>1, SMT DEF At
<1> DEFINE names == f \o g
<1> HIDE DEF names
<1>5. names[6 + 1] = g[1] /\ names[6 + 2] = g[2]
  BY <1>4 DEF names
<1>6. names[7] = g[1] /\ names[8] = g[2]
  BY ONLY <1>5, SMT
<1>7. V3!ChannelNames = names
  BY <1>1 DEF names
<1> QED BY ONLY <1>2, <1>6, <1>7, SMT

(* The eight names: the byte that counts each one.                         *)
LEMMA NamesAre ==
  ASSUME NEW e
  PROVE  /\ Spans(V3!Names(e), 35)
         /\ \A c \in 1..6 : V3!Names(e)[4 * (c - 1) + 1] = 3
         /\ V3!Names(e)[25] = 4 /\ V3!Names(e)[30] = 5
<1> DEFINE F == [c \in 1 .. 6 |-> V3!Counted(V3!ChannelNames[c])]
           six == V2!ForEachPhasor(F)
           seven == V3!Counted(V3!ChannelNames[7])
           eight == V3!Counted(V3!ChannelNames[8])
           most == six \o seven
           all == most \o eight
<1>1. ASSUME NEW c \in 1..6 PROVE Spans(F[c], 4) /\ F[c][1] = 3
  <2> DEFINE name == V3!ChannelNames[c]
  <2>1. name \in Seq(Byte) /\ Len(name) = 3
    BY ChannelNamesAre, PrintableBytes
  <2>2. F[c] = V3!Counted(name)
    OBVIOUS
  <2> HIDE DEF name, F
  <2>3. Spans(V3!Counted(name), 1 + Len(name)) /\ V3!Counted(name)[1] = Len(name)
    BY ONLY <2>1, CountedSpans, Zenon
  <2> QED BY ONLY <2>1, <2>2, <2>3, SMT
<1>2. Spans(seven, 5) /\ seven[1] = 4
  <2> DEFINE name == V3!ChannelNames[7]
  <2>1. name \in Seq(Byte) /\ Len(name) = 4
    <3>1. <<70, 82, 69, 81>> \in Seq(0..255) /\ Len(<<70, 82, 69, 81>>) = 4
      BY SMT
    <3> QED BY <3>1, LastNames, SMT DEF Byte
  <2> HIDE DEF name
  <2>2. Spans(V3!Counted(name), 1 + Len(name)) /\ V3!Counted(name)[1] = Len(name)
    BY ONLY <2>1, CountedSpans, Zenon
  <2>3. Spans(V3!Counted(name), 5) /\ V3!Counted(name)[1] = 4
    BY ONLY <2>1, <2>2, SMT
  <2> QED BY <2>3 DEF name
<1>3. Spans(eight, 6) /\ eight[1] = 5
  <2> DEFINE name == V3!ChannelNames[8]
  <2>1. name \in Seq(Byte) /\ Len(name) = 5
    <3>1. <<82, 79, 67, 79, 70>> \in Seq(0..255) /\ Len(<<82, 79, 67, 79, 70>>) = 5
      BY SMT
    <3> QED BY <3>1, LastNames, SMT DEF Byte
  <2> HIDE DEF name
  <2>2. Spans(V3!Counted(name), 1 + Len(name)) /\ V3!Counted(name)[1] = Len(name)
    BY ONLY <2>1, CountedSpans, Zenon
  <2>3. Spans(V3!Counted(name), 6) /\ V3!Counted(name)[1] = 5
    BY ONLY <2>1, <2>2, SMT
  <2> QED BY <2>3 DEF name
<1>4. V3!Names(e) = V3!ForEachPhasor(F) \o seven \o eight
  BY Zenon DEF V3!Names
<1> HIDE DEF F, six, seven, eight, most, all
<1>5. /\ Spans(six, 24) /\ V3!ForEachPhasor(F) = six
      /\ \A c \in 1..6 : At(six, 4 * (c - 1), F[c])
  <2>1. /\ Spans(V2!ForEachPhasor(F), 6 * 4) /\ V3!ForEachPhasor(F) = V2!ForEachPhasor(F)
        /\ \A c \in 1..6 : At(V2!ForEachPhasor(F), 4 * (c - 1), F[c])
    BY <1>1, SpansPhasors
  <2> QED BY <2>1 DEF six
<1>6. Spans(most, 29)
  <2>1. Spans(most, 24 + 5)
    BY <1>2, <1>5, SpansJoin, Zenon DEF most
  <2> QED BY ONLY <2>1, SMT
<1>7. Spans(all, 35)
  <2>1. Spans(all, 29 + 6)
    BY <1>3, <1>6, SpansJoin, Zenon DEF all
  <2> QED BY ONLY <2>1, SMT
<1>8. all \in Seq(Int) /\ At(all, 0, all)
  BY <1>7, WholeAt DEF Spans
<1>9. At(all, 0, most) /\ At(all, 29, eight)
  BY <1>3, <1>6, <1>8, Peel, Zenon DEF all
<1>10. At(all, 0, six) /\ At(all, 24, seven)
  BY <1>2, <1>5, <1>8, <1>9, Peel, Zenon DEF most
<1>11. all[24 + 1] = seven[1] /\ all[29 + 1] = eight[1]
  <2>1. 1 \in 1..Len(seven) /\ 1 \in 1..Len(eight)
    BY <1>2, <1>3 DEF Spans
  <2> QED BY ONLY <1>9, <1>10, <2>1 DEF At
<1>12. ASSUME NEW c \in 1..6 PROVE all[4 * (c - 1) + 1] = 3
  <2> DEFINE k == 4 * (c - 1)
  <2>1. At(six, k, F[c]) /\ Spans(F[c], 4) /\ F[c][1] = 3 /\ k \in Nat
    BY <1>1, <1>5
  <2> HIDE DEF k
  <2>2. At(all, 0 + k, F[c])
    <3>1. six \in Seq(Int) /\ F[c] \in Seq(Int)
      BY <1>5, <2>1 DEF Spans
    <3> QED BY ONLY <1>8, <1>10, <2>1, <3>1, PartOfPart, Zenon
  <2>3. 0 + k = k /\ 1 \in 1..Len(F[c])
    BY <2>1 DEF Spans
  <2>4. At(all, k, F[c])
    BY ONLY <2>2, <2>3, Zenon
  <2>5. all[k + 1] = F[c][1]
    BY ONLY <2>3, <2>4 DEF At
  <2> QED BY ONLY <2>1, <2>5 DEF k
<1>13. all[25] = 4 /\ all[30] = 5
  BY ONLY <1>2, <1>3, <1>11, SMT
<1>14. V3!Names(e) = all
  BY ONLY <1>4, <1>5, Zenon DEF all, most
<1> QED BY ONLY <1>7, <1>12, <1>13, <1>14, SMT

ScaleFields(e) ==
  V3!ForEachPhasor([c \in 1 .. 6 |->
     <<0, 0, V3!phase_type(c), 0>>
       \o V3!F32(IF c <= 3 THEN e.recipe.voltage_scale ELSE e.recipe.current_scale)
       \o V3!F32(0) \o V3!F32(e.recipe.voltage_class)])

LEMMA ScalesSpan ==
  ASSUME NEW e, e.recipe.voltage_scale \in Int, e.recipe.current_scale \in Int,
         e.recipe.voltage_class \in Int
  PROVE  Spans(ScaleFields(e), 96)
<1> DEFINE scale(c) == IF c <= 3 THEN e.recipe.voltage_scale ELSE e.recipe.current_scale
           kind(c) == <<0, 0, V3!phase_type(c), 0>>
           F == [c \in 1 .. 6 |->
                   kind(c) \o V3!F32(scale(c)) \o V3!F32(0) \o V3!F32(e.recipe.voltage_class)]
<1>1. ASSUME NEW c \in 1..6 PROVE Spans(F[c], 16)
  <2>1. Spans(kind(c), 4)
    <3>1. V3!phase_type(c) \in Int
      <4>1. (c - 1) % 3 \in {0, 1, 2}
        BY SMT
      <4> QED BY <4>1, SMT DEF V3!phase_type
    <3> DEFINE x == V3!phase_type(c)
    <3> HIDE DEF x
    <3>2. x \in Int
      BY <3>1 DEF x
    <3>3. Spans(<<0, 0, x, 0>>, 4)
      BY ONLY <3>2, SMT DEF Spans
    <3> QED BY <3>3 DEF x
  <2>2. Spans(V3!F32(scale(c)), 4) /\ Spans(V3!F32(0), 4) /\ Spans(V3!F32(e.recipe.voltage_class), 4)
    <3>1. scale(c) \in Int /\ 0 \in Int
      BY SMTT(40)
    <3> QED BY <3>1, FloatSpans
  <2>3. F[c] = kind(c) \o V3!F32(scale(c)) \o V3!F32(0) \o V3!F32(e.recipe.voltage_class)
    OBVIOUS
  <2> HIDE DEF kind, scale, F
  <2>4. Spans(kind(c) \o V3!F32(scale(c)), 4 + 4)
    BY ONLY <2>1, <2>2, SpansJoin, Zenon
  <2>5. Spans(kind(c) \o V3!F32(scale(c)) \o V3!F32(0), 4 + 4 + 4)
    BY ONLY <2>2, <2>4, SpansJoin, Zenon
  <2>6. Spans(F[c], 4 + 4 + 4 + 4)
    BY ONLY <2>2, <2>3, <2>5, SpansJoin, Zenon
  <2> QED BY ONLY <2>6, SMT
<1>2. ScaleFields(e) = V3!ForEachPhasor(F)
  BY Zenon DEF ScaleFields
<1> HIDE DEF F
<1>3. Spans(V2!ForEachPhasor(F), 6 * 16) /\ V3!ForEachPhasor(F) = V2!ForEachPhasor(F)
  BY <1>1, SpansPhasors
<1>4. Spans(ScaleFields(e), 6 * 16)
  BY ONLY <1>2, <1>3, Zenon
<1> QED BY ONLY <1>4, SMT

LEMMA ConstantsSpan == Spans(V3!INFINITY, 4) /\ Spans(V3!MinusOne, 4)
<1>1. \A a, b, c, d \in Int : Spans(<<a, b, c, d>>, 4)
  BY SMT DEF Spans
<1>2. 127 \in Int /\ 128 \in Int /\ 255 \in Int /\ 0 \in Int
  BY SMT
<1> QED BY <1>1, <1>2, SMT DEF V3!INFINITY, V3!MinusOne

(* Where the fields are, for names of n and m bytes.                       *)
LEMMA LayoutOfV3 ==
  ASSUME NEW e, e.recipe.time_base \in Fraction, e.pmu_id \in Word, e.version \in Word,
         e.pdc_name \in Seq(Byte), e.pmu_name \in Seq(Byte), Sized(e.global_pmu_id, 16),
         e.recipe.voltage_scale \in Int, e.recipe.current_scale \in Int,
         e.recipe.voltage_class \in Int, e.recipe.data_rate_hz \in Int
  PROVE  LET text == V3!encode_configuration(e)
             n == Len(e.pdc_name)
             m == Len(e.pmu_name)
         IN  /\ Spans(text, 219 + n + m)
             /\ At(text, 0, V3!U16(0))
             /\ At(text, 2, V3!U32(e.recipe.time_base))
             /\ At(text, 6, V3!Counted(e.pdc_name))
             /\ At(text, 7 + n, V3!U16(1))
             /\ At(text, 9 + n, V3!Counted(e.pmu_name))
             /\ At(text, 10 + n + m, V3!U16(e.pmu_id))
             /\ At(text, 12 + n + m, V3!U16(e.version))
             /\ At(text, 30 + n + m, V3!U16(1))
             /\ At(text, 32 + n + m, V3!U16(6))
             /\ At(text, 34 + n + m, V3!U16(0))
             /\ At(text, 36 + n + m, V3!U16(1))
             /\ At(text, 38 + n + m, V3!U16(1))
             /\ At(text, 40 + n + m, V3!U16(0))
             /\ At(text, 42 + n + m, V3!Names(e))
             /\ At(text, 201 + n + m, V3!U16(V3!pmu_flag(e.recipe.nominal_frequency_hz)))
             /\ At(text, 211 + n + m, V3!I16(e.recipe.data_rate_hz))
             /\ At(text, 215 + n + m, V3!I16(e.recipe.data_rate_hz))
<1> DEFINE n == Len(e.pdc_name)
           m == Len(e.pmu_name)
           a1 == V3!U16(0)
           a2 == V3!U32(e.recipe.time_base)
           a3 == V3!Counted(e.pdc_name)
           a4 == V3!U16(1)
           a5 == V3!Counted(e.pmu_name)
           a6 == V3!U16(e.pmu_id)
           a7 == V3!U16(e.version)
           a8 == e.global_pmu_id
           a9 == V3!U16(1)
           a10 == V3!U16(6)
           a11 == V3!U16(0)
           a12 == V3!U16(1)
           a13 == V3!U16(1)
           a14 == V3!U16(0)
           a15 == V3!Names(e)
           a16 == ScaleFields(e)
           a17 == V3!F32(1000)
           a18 == V3!F32(0)
           a19 == V3!F32(10000)
           a20 == V3!F32(0)
           a21 == V3!INFINITY
           a22 == V3!INFINITY
           a23 == V3!INFINITY
           a24 == V3!U16(V3!pmu_flag(e.recipe.nominal_frequency_hz))
           a25 == V3!MinusOne
           a26 == V3!MinusOne
           a27 == V3!I16(e.recipe.data_rate_hz)
           a28 == V3!U16(0)
           a29 == V3!I16(e.recipe.data_rate_hz)
           a30 == V3!U16(0)
           x2 == a1 \o a2
           x3 == x2 \o a3
           x4 == x3 \o a4
           x5 == x4 \o a5
           x6 == x5 \o a6
           x7 == x6 \o a7
           x8 == x7 \o a8
           x9 == x8 \o a9
           x10 == x9 \o a10
           x11 == x10 \o a11
           x12 == x11 \o a12
           x13 == x12 \o a13
           x14 == x13 \o a14
           x15 == x14 \o a15
           x16 == x15 \o a16
           x17 == x16 \o a17
           x18 == x17 \o a18
           x19 == x18 \o a19
           x20 == x19 \o a20
           x21 == x20 \o a21
           x22 == x21 \o a22
           x23 == x22 \o a23
           x24 == x23 \o a24
           x25 == x24 \o a25
           x26 == x25 \o a26
           x27 == x26 \o a27
           x28 == x27 \o a28
           x29 == x28 \o a29
           x30 == x29 \o a30
<1>0. n \in Nat /\ m \in Nat
  OBVIOUS
<1>1. V3!encode_configuration(e) = x30
  BY Zenon DEF V3!encode_configuration, ScaleFields
<1>2. /\ Spans(a1, 2)
      /\ Spans(a2, 4)
      /\ Spans(a3, 1 + n)
      /\ Spans(a4, 2)
      /\ Spans(a5, 1 + m)
      /\ Spans(a6, 2)
      /\ Spans(a7, 2)
      /\ Spans(a8, 16)
      /\ Spans(a9, 2)
      /\ Spans(a10, 2)
      /\ Spans(a11, 2)
      /\ Spans(a12, 2)
      /\ Spans(a13, 2)
      /\ Spans(a14, 2)
      /\ Spans(a15, 35)
      /\ Spans(a16, 96)
      /\ Spans(a17, 4)
      /\ Spans(a18, 4)
      /\ Spans(a19, 4)
      /\ Spans(a20, 4)
      /\ Spans(a21, 4)
      /\ Spans(a22, 4)
      /\ Spans(a23, 4)
      /\ Spans(a24, 2)
      /\ Spans(a25, 4)
      /\ Spans(a26, 4)
      /\ Spans(a27, 2)
      /\ Spans(a28, 2)
      /\ Spans(a29, 2)
      /\ Spans(a30, 2)
  <2>1. /\ 0 \in Word /\ 1 \in Word /\ 6 \in Word /\ Halves32(e.recipe.time_base)
        /\ V3!pmu_flag(e.recipe.nominal_frequency_hz) \in Word
    BY FractionsAreLong, SMT DEF Word, V3!pmu_flag
  <2>2. /\ Spans(a1, 2) /\ Spans(a4, 2) /\ Spans(a6, 2) /\ Spans(a7, 2) /\ Spans(a9, 2)
        /\ Spans(a10, 2) /\ Spans(a11, 2) /\ Spans(a12, 2) /\ Spans(a13, 2) /\ Spans(a14, 2)
        /\ Spans(a24, 2) /\ Spans(a28, 2) /\ Spans(a30, 2)
    BY ONLY <2>1, e.pmu_id \in Word, e.version \in Word, WordSpans3, Zenon
  <2>3. Spans(a2, 4)
    BY <2>1, LongSpans, SameWords
  <2>4. Spans(a3, 1 + n) /\ Spans(a5, 1 + m)
    BY ONLY e.pdc_name \in Seq(Byte), e.pmu_name \in Seq(Byte), CountedSpans, Zenon
  <2>5. Spans(a8, 16)
    BY SizedSpans
  <2>6. Spans(a15, 35) /\ Spans(a16, 96)
    BY NamesAre, ScalesSpan, Zenon
  <2>7. Spans(a17, 4) /\ Spans(a18, 4) /\ Spans(a19, 4) /\ Spans(a20, 4)
    <3>1. 1000 \in Int /\ 10000 \in Int /\ 0 \in Int
      BY SMT
    <3> QED BY <3>1, FloatSpans
  <2>8. Spans(a21, 4) /\ Spans(a22, 4) /\ Spans(a23, 4) /\ Spans(a25, 4) /\ Spans(a26, 4)
    BY ConstantsSpan
  <2>9. Spans(a27, 2) /\ Spans(a29, 2)
    BY WordSpans3
  <2> HIDE DEF n, m, a1, a2, a3, a4, a5, a6, a7, a8, a9, a10, a11, a12, a13, a14, a15, a16, a17, a18, a19, a20, a21, a22, a23, a24, a25, a26, a27, a28, a29, a30
  <2> QED BY ONLY <2>2, <2>3, <2>4, <2>5, <2>6, <2>7, <2>8, <2>9
<1> HIDE DEF n, m, a1, a2, a3, a4, a5, a6, a7, a8, a9, a10, a11, a12, a13, a14, a15, a16,
         a17, a18, a19, a20, a21, a22, a23, a24, a25, a26, a27, a28, a29, a30, x2, x3,
         x4, x5, x6, x7, x8, x9, x10, x11, x12, x13, x14, x15, x16, x17, x18, x19,
         x20, x21, x22, x23, x24, x25, x26, x27, x28, x29, x30
<1>3. Spans(x2, 6)
  <2>1. Spans(x2, 2 + 4)
    BY <1>2, SpansJoin, Zenon DEF x2
  <2> QED BY ONLY <2>1, SMT
<1>4. Spans(x3, 7 + n)
  <2>1. Spans(x3, (6) + (1 + n))
    BY <1>2, <1>3, SpansJoin, Zenon DEF x3
  <2> QED BY ONLY <2>1, <1>0, SMT
<1>5. Spans(x4, 9 + n)
  <2>1. Spans(x4, (7 + n) + (2))
    BY <1>2, <1>4, SpansJoin, Zenon DEF x4
  <2> QED BY ONLY <2>1, <1>0, SMT
<1>6. Spans(x5, 10 + n + m)
  <2>1. Spans(x5, (9 + n) + (1 + m))
    BY <1>2, <1>5, SpansJoin, Zenon DEF x5
  <2> QED BY ONLY <2>1, <1>0, SMT
<1>7. Spans(x6, 12 + n + m)
  <2>1. Spans(x6, (10 + n + m) + (2))
    BY <1>2, <1>6, SpansJoin, Zenon DEF x6
  <2> QED BY ONLY <2>1, <1>0, SMT
<1>8. Spans(x7, 14 + n + m)
  <2>1. Spans(x7, (12 + n + m) + (2))
    BY <1>2, <1>7, SpansJoin, Zenon DEF x7
  <2> QED BY ONLY <2>1, <1>0, SMT
<1>9. Spans(x8, 30 + n + m)
  <2>1. Spans(x8, (14 + n + m) + (16))
    BY <1>2, <1>8, SpansJoin, Zenon DEF x8
  <2> QED BY ONLY <2>1, <1>0, SMT
<1>10. Spans(x9, 32 + n + m)
  <2>1. Spans(x9, (30 + n + m) + (2))
    BY <1>2, <1>9, SpansJoin, Zenon DEF x9
  <2> QED BY ONLY <2>1, <1>0, SMT
<1>11. Spans(x10, 34 + n + m)
  <2>1. Spans(x10, (32 + n + m) + (2))
    BY <1>2, <1>10, SpansJoin, Zenon DEF x10
  <2> QED BY ONLY <2>1, <1>0, SMT
<1>12. Spans(x11, 36 + n + m)
  <2>1. Spans(x11, (34 + n + m) + (2))
    BY <1>2, <1>11, SpansJoin, Zenon DEF x11
  <2> QED BY ONLY <2>1, <1>0, SMT
<1>13. Spans(x12, 38 + n + m)
  <2>1. Spans(x12, (36 + n + m) + (2))
    BY <1>2, <1>12, SpansJoin, Zenon DEF x12
  <2> QED BY ONLY <2>1, <1>0, SMT
<1>14. Spans(x13, 40 + n + m)
  <2>1. Spans(x13, (38 + n + m) + (2))
    BY <1>2, <1>13, SpansJoin, Zenon DEF x13
  <2> QED BY ONLY <2>1, <1>0, SMT
<1>15. Spans(x14, 42 + n + m)
  <2>1. Spans(x14, (40 + n + m) + (2))
    BY <1>2, <1>14, SpansJoin, Zenon DEF x14
  <2> QED BY ONLY <2>1, <1>0, SMT
<1>16. Spans(x15, 77 + n + m)
  <2>1. Spans(x15, (42 + n + m) + (35))
    BY <1>2, <1>15, SpansJoin, Zenon DEF x15
  <2> QED BY ONLY <2>1, <1>0, SMT
<1>17. Spans(x16, 173 + n + m)
  <2>1. Spans(x16, (77 + n + m) + (96))
    BY <1>2, <1>16, SpansJoin, Zenon DEF x16
  <2> QED BY ONLY <2>1, <1>0, SMT
<1>18. Spans(x17, 177 + n + m)
  <2>1. Spans(x17, (173 + n + m) + (4))
    BY <1>2, <1>17, SpansJoin, Zenon DEF x17
  <2> QED BY ONLY <2>1, <1>0, SMT
<1>19. Spans(x18, 181 + n + m)
  <2>1. Spans(x18, (177 + n + m) + (4))
    BY <1>2, <1>18, SpansJoin, Zenon DEF x18
  <2> QED BY ONLY <2>1, <1>0, SMT
<1>20. Spans(x19, 185 + n + m)
  <2>1. Spans(x19, (181 + n + m) + (4))
    BY <1>2, <1>19, SpansJoin, Zenon DEF x19
  <2> QED BY ONLY <2>1, <1>0, SMT
<1>21. Spans(x20, 189 + n + m)
  <2>1. Spans(x20, (185 + n + m) + (4))
    BY <1>2, <1>20, SpansJoin, Zenon DEF x20
  <2> QED BY ONLY <2>1, <1>0, SMT
<1>22. Spans(x21, 193 + n + m)
  <2>1. Spans(x21, (189 + n + m) + (4))
    BY <1>2, <1>21, SpansJoin, ZenonT(60) DEF x21
  <2> QED BY ONLY <2>1, <1>0, SMT
<1>23. Spans(x22, 197 + n + m)
  <2>1. Spans(x22, (193 + n + m) + (4))
    BY <1>2, <1>22, SpansJoin, ZenonT(60) DEF x22
  <2> QED BY ONLY <2>1, <1>0, SMT
<1>24. Spans(x23, 201 + n + m)
  <2>1. Spans(x23, (197 + n + m) + (4))
    BY <1>2, <1>23, SpansJoin, ZenonT(60) DEF x23
  <2> QED BY ONLY <2>1, <1>0, SMT
<1>25. Spans(x24, 203 + n + m)
  <2>1. Spans(x24, (201 + n + m) + (2))
    BY <1>2, <1>24, SpansJoin, ZenonT(60) DEF x24
  <2> QED BY ONLY <2>1, <1>0, SMT
<1>26. Spans(x25, 207 + n + m)
  <2>1. Spans(x25, (203 + n + m) + (4))
    BY <1>2, <1>25, SpansJoin, ZenonT(60) DEF x25
  <2> QED BY ONLY <2>1, <1>0, SMT
<1>27. Spans(x26, 211 + n + m)
  <2>1. Spans(x26, (207 + n + m) + (4))
    BY <1>2, <1>26, SpansJoin, ZenonT(60) DEF x26
  <2> QED BY ONLY <2>1, <1>0, SMT
<1>28. Spans(x27, 213 + n + m)
  <2>1. Spans(x27, (211 + n + m) + (2))
    BY <1>2, <1>27, SpansJoin, ZenonT(60) DEF x27
  <2> QED BY ONLY <2>1, <1>0, SMT
<1>29. Spans(x28, 215 + n + m)
  <2>1. Spans(x28, (213 + n + m) + (2))
    BY <1>2, <1>28, SpansJoin, ZenonT(60) DEF x28
  <2> QED BY ONLY <2>1, <1>0, SMT
<1>30. Spans(x29, 217 + n + m)
  <2>1. Spans(x29, (215 + n + m) + (2))
    BY <1>2, <1>29, SpansJoin, ZenonT(60) DEF x29
  <2> QED BY ONLY <2>1, <1>0, SMT
<1>31. Spans(x30, 219 + n + m)
  <2>1. Spans(x30, (217 + n + m) + (2))
    BY <1>2, <1>30, SpansJoin, ZenonT(60) DEF x30
  <2> QED BY ONLY <2>1, <1>0, SMT
<1>32. x30 \in Seq(Int) /\ At(x30, 0, x30)
  BY <1>31, WholeAt DEF Spans
<1>33. At(x30, 0, x29) /\ At(x30, 217 + n + m, a30)
  BY <1>2, <1>30, <1>32, Peel, Zenon DEF x30
<1>34. At(x30, 0, x28) /\ At(x30, 215 + n + m, a29)
  BY <1>2, <1>29, <1>32, <1>33, Peel, Zenon DEF x29
<1>35. At(x30, 0, x27) /\ At(x30, 213 + n + m, a28)
  BY <1>2, <1>28, <1>32, <1>34, Peel, Zenon DEF x28
<1>36. At(x30, 0, x26) /\ At(x30, 211 + n + m, a27)
  BY <1>2, <1>27, <1>32, <1>35, Peel, Zenon DEF x27
<1>37. At(x30, 0, x25) /\ At(x30, 207 + n + m, a26)
  BY <1>2, <1>26, <1>32, <1>36, Peel, Zenon DEF x26
<1>38. At(x30, 0, x24) /\ At(x30, 203 + n + m, a25)
  BY <1>2, <1>25, <1>32, <1>37, Peel, Zenon DEF x25
<1>39. At(x30, 0, x23) /\ At(x30, 201 + n + m, a24)
  BY <1>2, <1>24, <1>32, <1>38, Peel, Zenon DEF x24
<1>40. At(x30, 0, x22) /\ At(x30, 197 + n + m, a23)
  BY <1>2, <1>23, <1>32, <1>39, Peel, Zenon DEF x23
<1>41. At(x30, 0, x21) /\ At(x30, 193 + n + m, a22)
  BY <1>2, <1>22, <1>32, <1>40, Peel, Zenon DEF x22
<1>42. At(x30, 0, x20) /\ At(x30, 189 + n + m, a21)
  BY <1>2, <1>21, <1>32, <1>41, Peel, Zenon DEF x21
<1>43. At(x30, 0, x19) /\ At(x30, 185 + n + m, a20)
  BY <1>2, <1>20, <1>32, <1>42, Peel, Zenon DEF x20
<1>44. At(x30, 0, x18) /\ At(x30, 181 + n + m, a19)
  BY <1>2, <1>19, <1>32, <1>43, Peel, Zenon DEF x19
<1>45. At(x30, 0, x17) /\ At(x30, 177 + n + m, a18)
  BY <1>2, <1>18, <1>32, <1>44, Peel, Zenon DEF x18
<1>46. At(x30, 0, x16) /\ At(x30, 173 + n + m, a17)
  BY <1>2, <1>17, <1>32, <1>45, Peel, Zenon DEF x17
<1>47. At(x30, 0, x15) /\ At(x30, 77 + n + m, a16)
  BY <1>2, <1>16, <1>32, <1>46, Peel, Zenon DEF x16
<1>48. At(x30, 0, x14) /\ At(x30, 42 + n + m, a15)
  BY <1>2, <1>15, <1>32, <1>47, Peel, Zenon DEF x15
<1>49. At(x30, 0, x13) /\ At(x30, 40 + n + m, a14)
  BY <1>2, <1>14, <1>32, <1>48, Peel, Zenon DEF x14
<1>50. At(x30, 0, x12) /\ At(x30, 38 + n + m, a13)
  BY <1>2, <1>13, <1>32, <1>49, Peel, Zenon DEF x13
<1>51. At(x30, 0, x11) /\ At(x30, 36 + n + m, a12)
  BY <1>2, <1>12, <1>32, <1>50, Peel, Zenon DEF x12
<1>52. At(x30, 0, x10) /\ At(x30, 34 + n + m, a11)
  BY <1>2, <1>11, <1>32, <1>51, Peel, Zenon DEF x11
<1>53. At(x30, 0, x9) /\ At(x30, 32 + n + m, a10)
  BY <1>2, <1>10, <1>32, <1>52, Peel, Zenon DEF x10
<1>54. At(x30, 0, x8) /\ At(x30, 30 + n + m, a9)
  BY <1>2, <1>9, <1>32, <1>53, Peel, Zenon DEF x9
<1>55. At(x30, 0, x7) /\ At(x30, 14 + n + m, a8)
  BY <1>2, <1>8, <1>32, <1>54, Peel, Zenon DEF x8
<1>56. At(x30, 0, x6) /\ At(x30, 12 + n + m, a7)
  BY <1>2, <1>7, <1>32, <1>55, Peel, Zenon DEF x7
<1>57. At(x30, 0, x5) /\ At(x30, 10 + n + m, a6)
  BY <1>2, <1>6, <1>32, <1>56, Peel, Zenon DEF x6
<1>58. At(x30, 0, x4) /\ At(x30, 9 + n, a5)
  BY <1>2, <1>5, <1>32, <1>57, Peel, Zenon DEF x5
<1>59. At(x30, 0, x3) /\ At(x30, 7 + n, a4)
  BY <1>2, <1>4, <1>32, <1>58, Peel, Zenon DEF x4
<1>60. At(x30, 0, x2) /\ At(x30, 6, a3)
  BY <1>2, <1>3, <1>32, <1>59, Peel, Zenon DEF x3
<1>61. At(x30, 0, a1) /\ At(x30, 2, a2)
  BY <1>2, <1>32, <1>60, Peel, Zenon DEF x2
<1> QED BY ONLY <1>1, <1>31, <1>61, <1>60, <1>59, <1>58, <1>57, <1>56, <1>54, <1>53, <1>52, <1>51, <1>50, <1>49, <1>48, <1>39, <1>36, <1>34, ZenonT(60)
  DEF n, m, a1, a2, a3, a4, a5, a6, a7, a9, a10, a11, a12, a13, a14, a15, a24, a27, a29

(* The V3 probe walks over the fields.                                     *)
LEMMA ReadWord3 ==
  ASSUME NEW S, NEW s \in Seq(S), NEW k, NEW n \in Word, At(s, k, V3!U16(n))
  PROVE  V3!WordAt(s, k + 1) = n
<1>1. At(s, k, V2!U16(n))
  BY SameWords
<1> QED BY <1>1, ReadWord, SameWordAt

LEMMA ReadLong3 ==
  ASSUME NEW s \in Seq(Int), NEW k, NEW n, Halves32(n), At(s, k, V3!U32(n))
  PROVE  V3!LongAt(s, k + 1) = n
<1>1. At(s, k, V2!U32(n)) /\ Byte \subseteq Int
  BY SameWords DEF Byte
<1>2. V2!LongAt(s, k + 1) = n
  BY <1>1, ReadLong
<1>3. V3!LongAt(s, k + 1) = V2!LongAt(s, k + 1)
  BY SameWordAt, SMT DEF V3!LongAt, V2!LongAt
<1> QED BY <1>2, <1>3

LEMMA Take ==
  ASSUME NEW text \in Seq(Int), NEW place \in Nat, NEW n \in Nat, place # 0,
         place + n <= Len(text) + 1
  PROVE  V3!take_bytes(text, place, n) = place + n
  BY DEF V3!take_bytes

LEMMA TakeName ==
  ASSUME NEW text \in Seq(Int), NEW place \in Nat, NEW n \in Nat, place # 0, text[place] = n,
         place + 1 + n <= Len(text) + 1
  PROVE  V3!take_name(text, place) = place + 1 + n
<1>1. V3!take_bytes(text, place, 1) = place + 1 /\ place + 1 # 0
  BY Take
<1>2. V3!take_bytes(text, place + 1, n) = place + 1 + n
  BY Take
<1> QED BY ONLY <1>1, <1>2, text[place] = n, SMT DEF V3!take_name

LEMMA NamesAreTaken ==
  ASSUME NEW text \in Seq(Int), NEW p \in Nat, p # 0, p + 35 <= Len(text) + 1,
         \A c \in 1..6 : text[p + 4 * (c - 1)] = 3, text[p + 24] = 4, text[p + 29] = 5
  PROVE  V3!AfterNames(text, p, 8) = p + 35
<1> DEFINE step(q) == V3!take_name(text, q)
           IsAfter(f) == f = [i \in 0 .. 8 |-> IF i = 0 THEN p ELSE step(f[i - 1])]
           g == [i \in 0 .. 8 |-> IF i <= 6 THEN p + 4 * i ELSE IF i = 7 THEN p + 29 ELSE p + 35]
           after == CHOOSE f : IsAfter(f)
<1>1. ASSUME NEW i \in 0..5 PROVE step(p + 4 * i) = p + 4 * (i + 1)
  <2> DEFINE q == p + 4 * i
  <2>1. q \in Nat /\ q # 0 /\ q + 1 + 3 <= Len(text) + 1 /\ q + 1 + 3 = p + 4 * (i + 1)
        /\ i + 1 \in 1..6 /\ (i + 1) - 1 = i
    <3>1. i \in 0..5 /\ p \in Nat /\ p # 0 /\ p + 35 <= Len(text) + 1 /\ Len(text) \in Nat
      BY <1>1
    <3> QED BY ONLY <3>1, SMT
  <2>2. text[q] = 3
    <3>1. text[p + 4 * ((i + 1) - 1)] = 3
      BY <2>1
    <3> QED BY <2>1, <3>1
  <2> HIDE DEF q
  <2>3. V3!take_name(text, q) = q + 1 + 3
    BY <2>1, <2>2, TakeName
  <2> QED BY <2>1, <2>3 DEF q
<1>2. step(p + 24) = p + 29
  <2> DEFINE q == p + 24
  <2>1. q \in Nat /\ q # 0 /\ q + 1 + 4 <= Len(text) + 1 /\ q + 1 + 4 = p + 29 /\ text[q] = 4
    BY SMTT(40)
  <2> HIDE DEF q
  <2>2. V3!take_name(text, q) = q + 1 + 4
    BY <2>1, TakeName
  <2> QED BY <2>1, <2>2 DEF q
<1>3. step(p + 29) = p + 35
  <2> DEFINE q == p + 29
  <2>1. q \in Nat /\ q # 0 /\ q + 1 + 5 <= Len(text) + 1 /\ q + 1 + 5 = p + 35 /\ text[q] = 5
    OBVIOUS
  <2> HIDE DEF q
  <2>2. V3!take_name(text, q) = q + 1 + 5
    BY <2>1, TakeName
  <2> QED BY <2>1, <2>2 DEF q
<1>4. V3!AfterNames(text, p, 8) = after[8]
  BY DEF V3!AfterNames
<1> HIDE DEF step
<1>5. /\ step(p) = p + 4 /\ step(p + 4) = p + 8 /\ step(p + 8) = p + 12
      /\ step(p + 12) = p + 16 /\ step(p + 16) = p + 20 /\ step(p + 20) = p + 24
  <2>1. /\ step(p + 4 * 0) = p + 4 * (0 + 1) /\ step(p + 4 * 1) = p + 4 * (1 + 1)
        /\ step(p + 4 * 2) = p + 4 * (2 + 1) /\ step(p + 4 * 3) = p + 4 * (3 + 1)
        /\ step(p + 4 * 4) = p + 4 * (4 + 1) /\ step(p + 4 * 5) = p + 4 * (5 + 1)
    BY <1>1
  <2> QED BY ONLY <2>1, p \in Nat, SMT
<1>6. IsAfter(g)
  <2>1. /\ g[0] = p /\ g[1] = p + 4 /\ g[2] = p + 8 /\ g[3] = p + 12 /\ g[4] = p + 16
        /\ g[5] = p + 20 /\ g[6] = p + 24 /\ g[7] = p + 29 /\ g[8] = p + 35
    OBVIOUS
  <2>2. g = [i \in 0 .. 8 |-> g[i]]
    OBVIOUS
  <2> HIDE DEF g
  <2>3. ASSUME NEW i \in 0..8 PROVE g[i] = IF i = 0 THEN p ELSE step(g[i - 1])
    <3>1. i = 0 \/ i = 1 \/ i = 2 \/ i = 3 \/ i = 4 \/ i = 5 \/ i = 6 \/ i = 7 \/ i = 8
      BY <2>3
    <3>2. /\ g[1] = step(g[0]) /\ g[2] = step(g[1]) /\ g[3] = step(g[2]) /\ g[4] = step(g[3])
          /\ g[5] = step(g[4]) /\ g[6] = step(g[5]) /\ g[7] = step(g[6]) /\ g[8] = step(g[7])
      BY ONLY <1>2, <1>3, <1>5, <2>1, Zenon
    <3>3. /\ 1 - 1 = 0 /\ 2 - 1 = 1 /\ 3 - 1 = 2 /\ 4 - 1 = 3 /\ 5 - 1 = 4 /\ 6 - 1 = 5
          /\ 7 - 1 = 6 /\ 8 - 1 = 7
      OBVIOUS
    <3>4. ASSUME i # 0 PROVE g[i] = step(g[i - 1])
      <4>1. CASE i = 1 BY ONLY <3>2, <3>3, <4>1, Zenon
      <4>2. CASE i = 2 BY ONLY <3>2, <3>3, <4>2, Zenon
      <4>3. CASE i = 3 BY ONLY <3>2, <3>3, <4>3, Zenon
      <4>4. CASE i = 4 BY ONLY <3>2, <3>3, <4>4, Zenon
      <4>5. CASE i = 5 BY ONLY <3>2, <3>3, <4>5, Zenon
      <4>6. CASE i = 6 BY ONLY <3>2, <3>3, <4>6, Zenon
      <4>7. CASE i = 7 BY ONLY <3>2, <3>3, <4>7, Zenon
      <4>8. CASE i = 8 BY ONLY <3>2, <3>3, <4>8, Zenon
      <4> QED BY ONLY <3>1, <3>4, <4>1, <4>2, <4>3, <4>4, <4>5, <4>6, <4>7, <4>8, Zenon
    <3> QED BY ONLY <2>1, <3>4, Zenon
  <2> QED BY ONLY <2>2, <2>3, Zenon
<1>7. IsAfter(after)
  BY ONLY <1>6, Zenon
<1> HIDE DEF after
<1>8. \A i \in 0..8 : after[i] = IF i = 0 THEN p ELSE step(after[i - 1])
  BY ONLY <1>7, Zenon
<1>9. /\ after[0] = p /\ after[1] = step(after[0]) /\ after[2] = step(after[1])
      /\ after[3] = step(after[2]) /\ after[4] = step(after[3]) /\ after[5] = step(after[4])
      /\ after[6] = step(after[5]) /\ after[7] = step(after[6]) /\ after[8] = step(after[7])
  <2>1. /\ after[1] = step(after[1 - 1]) /\ after[2] = step(after[2 - 1])
        /\ after[3] = step(after[3 - 1]) /\ after[4] = step(after[4 - 1])
        /\ after[5] = step(after[5 - 1]) /\ after[6] = step(after[6 - 1])
        /\ after[7] = step(after[7 - 1]) /\ after[8] = step(after[8 - 1]) /\ after[0] = p
    BY ONLY <1>8, SMT
  <2>2. /\ 1 - 1 = 0 /\ 2 - 1 = 1 /\ 3 - 1 = 2 /\ 4 - 1 = 3 /\ 5 - 1 = 4 /\ 6 - 1 = 5
        /\ 7 - 1 = 6 /\ 8 - 1 = 7
    OBVIOUS
  <2> QED BY ONLY <2>1, <2>2, Zenon
<1>10. after[8] = p + 35
  <2>1. after[1] = p + 4
    BY ONLY <1>5, <1>9, Zenon
  <2>2. after[2] = p + 8
    BY ONLY <1>5, <1>9, <2>1, Zenon
  <2>3. after[3] = p + 12
    BY ONLY <1>5, <1>9, <2>2, Zenon
  <2>4. after[4] = p + 16
    BY ONLY <1>5, <1>9, <2>3, Zenon
  <2>5. after[5] = p + 20
    BY ONLY <1>5, <1>9, <2>4, Zenon
  <2>6. after[6] = p + 24
    BY ONLY <1>5, <1>9, <2>5, Zenon
  <2>7. after[7] = p + 29
    BY ONLY <1>2, <1>9, <2>6, Zenon
  <2> QED BY ONLY <1>3, <1>9, <2>7, Zenon
<1> QED BY <1>4, <1>10

LEMMA FiveWords ==
  ASSUME NEW f, f = [i \in 1 .. 5 |-> f[i]],
         f[1] = 6, f[2] = 0, f[3] = 1, f[4] = 1, f[5] = 0
  PROVE  f = <<6, 0, 1, 1, 0>>
<1> DEFINE t == <<6, 0, 1, 1, 0>>
<1>1. t = [i \in 1 .. 5 |-> t[i]]
  BY SMT
<1>2. t[1] = 6 /\ t[2] = 0 /\ t[3] = 1 /\ t[4] = 1 /\ t[5] = 0
  BY SMT
<1> HIDE DEF t
<1>3. \A i \in 1 .. 5 : f[i] = t[i]
  <2>1. \A i \in 1 .. 5 : i = 1 \/ i = 2 \/ i = 3 \/ i = 4 \/ i = 5
    OBVIOUS
  <2>2. f[1] = t[1] /\ f[2] = t[2] /\ f[3] = t[3] /\ f[4] = t[4] /\ f[5] = t[5]
    BY <1>2
  <2> QED BY ONLY <2>1, <2>2, Zenon
<1>4. f = t
  BY ONLY f = [i \in 1 .. 5 |-> f[i]], <1>1, <1>3, Zenon
<1> QED BY <1>4 DEF t

(* What is asked of the fields, once their places are known.               *)
FieldsAreRead(text, pmus, id, flag, rates, rate) ==
  /\ Len(text) >= 6
  /\ rates # 0
  /\ V3!take_bytes(text, rates, 8) = Len(text) + 1
  /\ V3!WordAt(text, 1) = 0
  /\ V3!LongAt(text, 3) # 0 /\ V3!LongAt(text, 3) \div 16777216 = 0
  /\ V3!LongAt(text, 3) % rate = 0
  /\ V3!WordAt(text, pmus) = 1
  /\ V3!WordAt(text, id) \notin {0, 65535}
  /\ V3!WordAt(text, id + 2) = V3!VERSION
  /\ V3!WordAt(text, id + 20) = 1
  /\ [i \in 1 .. 5 |-> V3!WordAt(text, id + 20 + 2 * i)] = <<6, 0, 1, 1, 0>>
  /\ (V3!WordAt(text, flag) \div 4096) % 2 = 0
  /\ V3!WordAt(text, rates) = rate
  /\ V3!WordAt(text, rates + 4) = rate

(* What the reader of a V3 configuration needs of the endpoint.            *)
AnnouncesV3(e) ==
  /\ e.recipe.time_base \in Fraction \ {0} /\ e.recipe.time_base % 50 = 0
  /\ e.pmu_id \in Word \ {0, 65535} /\ e.version = 3
  /\ e.pdc_name \in Seq(Byte) /\ e.pmu_name \in Seq(Byte) /\ Sized(e.global_pmu_id, 16)
  /\ e.recipe.voltage_scale \in Int /\ e.recipe.current_scale \in Int
  /\ e.recipe.voltage_class \in Int /\ e.recipe.data_rate_hz = 50

ReadsV3(e) ==
  LET text == V3!encode_configuration(e)
  IN  /\ V3!decode_configuration(text, 50)
      /\ Len(text) = 219 + Len(e.pdc_name) + Len(e.pmu_name)
      /\ V3!ConfigurationSummary(text)
           = [time_base |-> e.recipe.time_base, pmu_id |-> e.pmu_id]

(* What the V3 probe makes of an endpoint's configuration.                 *)
LEMMA ConfigurationOfV3 ==
  ASSUME NEW e, AnnouncesV3(e)
  PROVE  ReadsV3(e)
<1>0. /\ e.recipe.time_base \in Fraction \ {0} /\ e.recipe.time_base % 50 = 0
      /\ e.pmu_id \in Word \ {0, 65535} /\ e.version = 3
      /\ e.pdc_name \in Seq(Byte) /\ e.pmu_name \in Seq(Byte) /\ Sized(e.global_pmu_id, 16)
      /\ e.recipe.voltage_scale \in Int /\ e.recipe.current_scale \in Int
      /\ e.recipe.voltage_class \in Int /\ e.recipe.data_rate_hz = 50
  BY DEF AnnouncesV3
<1> USE <1>0
<1> DEFINE text == V3!encode_configuration(e)
           n == Len(e.pdc_name)
           m == Len(e.pmu_name)
           base == e.recipe.time_base
           pdc == V3!Counted(e.pdc_name)
           pmu == V3!Counted(e.pmu_name)
           channels == V3!Names(e)
           bits == V3!pmu_flag(e.recipe.nominal_frequency_hz)
<1>1. base \in Fraction /\ e.pmu_id \in Word /\ e.version \in Word /\ n \in Nat /\ m \in Nat
  BY SMT DEF Word
<1>2. /\ Spans(text, 219 + n + m)
      /\ At(text, 0, V3!U16(0)) /\ At(text, 2, V3!U32(base)) /\ At(text, 6, pdc)
      /\ At(text, 7 + n, V3!U16(1)) /\ At(text, 9 + n, pmu)
      /\ At(text, 10 + n + m, V3!U16(e.pmu_id)) /\ At(text, 12 + n + m, V3!U16(e.version))
      /\ At(text, 30 + n + m, V3!U16(1)) /\ At(text, 32 + n + m, V3!U16(6))
      /\ At(text, 34 + n + m, V3!U16(0)) /\ At(text, 36 + n + m, V3!U16(1))
      /\ At(text, 38 + n + m, V3!U16(1)) /\ At(text, 40 + n + m, V3!U16(0))
      /\ At(text, 42 + n + m, channels) /\ At(text, 201 + n + m, V3!U16(bits))
      /\ At(text, 211 + n + m, V3!I16(e.recipe.data_rate_hz))
      /\ At(text, 215 + n + m, V3!I16(e.recipe.data_rate_hz))
  <2>1. e.recipe.data_rate_hz \in Int
    BY SMT
  <2>2. /\ e.pdc_name \in Seq(Byte) /\ e.pmu_name \in Seq(Byte) /\ Sized(e.global_pmu_id, 16)
        /\ e.recipe.voltage_scale \in Int /\ e.recipe.current_scale \in Int
        /\ e.recipe.voltage_class \in Int
    OBVIOUS
  <2> QED BY ONLY <1>1, <2>1, <2>2, LayoutOfV3, ZenonT(90)
<1>3. text \in Seq(Int) /\ Len(text) = 219 + n + m
  BY <1>2 DEF Spans
<1>4. /\ Spans(pdc, 1 + n) /\ pdc[1] = n /\ Spans(pmu, 1 + m) /\ pmu[1] = m
  <2>1. e.pdc_name \in Seq(Byte) /\ e.pmu_name \in Seq(Byte)
    OBVIOUS
  <2> QED BY ONLY <2>1, CountedSpans, Zenon
<1>5. /\ Spans(channels, 35) /\ \A c \in 1..6 : channels[4 * (c - 1) + 1] = 3
      /\ channels[25] = 4 /\ channels[30] = 5
  BY NamesAre
<1>6. /\ V3!I16(e.recipe.data_rate_hz) = V3!U16(50)
      /\ 0 \in Word /\ 1 \in Word /\ 6 \in Word /\ 50 \in Word /\ Halves32(base)
      /\ bits \in Word /\ (bits \div 4096) % 2 = 0
  <2>1. 50 % 65536 = 50
    OBVIOUS
  <2>2. V3!I16(e.recipe.data_rate_hz) = V3!U16(50)
    BY <2>1 DEF V3!I16
  <2>3. Halves32(base)
    BY <1>1, FractionsAreLong
  <2>4. bits \in {32768, 40960}
    BY SMT DEF V3!pmu_flag
  <2>5. bits \in Word /\ (bits \div 4096) % 2 = 0
    BY ONLY <2>4, SMT DEF Word
  <2>6. 0 \in Word /\ 1 \in Word /\ 6 \in Word /\ 50 \in Word
    BY SMT DEF Word
  <2> QED BY <2>2, <2>3, <2>5, <2>6
<1>7. e.version = 3 /\ 3 \in Word
  BY SMT DEF Word
<1> HIDE DEF text, n, m, base, pdc, pmu, channels, bits
<1>8. \A k, w : w \in Word /\ At(text, k, V3!U16(w)) => V3!WordAt(text, k + 1) = w
  <2>1. text \in Seq(Int)
    BY <1>3
  <2> QED BY ONLY <2>1, ReadWord3, Zenon
<1>9. /\ V3!WordAt(text, 1) = 0 /\ V3!WordAt(text, 8 + n) = 1
      /\ V3!WordAt(text, 11 + n + m) = e.pmu_id /\ V3!WordAt(text, 13 + n + m) = 3
      /\ V3!WordAt(text, 31 + n + m) = 1 /\ V3!WordAt(text, 33 + n + m) = 6
      /\ V3!WordAt(text, 35 + n + m) = 0 /\ V3!WordAt(text, 37 + n + m) = 1
      /\ V3!WordAt(text, 39 + n + m) = 1 /\ V3!WordAt(text, 41 + n + m) = 0
      /\ V3!WordAt(text, 202 + n + m) = bits /\ V3!WordAt(text, 212 + n + m) = 50
      /\ V3!WordAt(text, 216 + n + m) = 50
  <2>0. /\ V3!U16(e.version) = V3!U16(3)
        /\ 0 \in Word /\ 1 \in Word /\ 3 \in Word /\ 6 \in Word /\ 50 \in Word
        /\ e.pmu_id \in Word /\ bits \in Word
    BY <1>1, <1>6, <1>7
  <2>1. V3!WordAt(text, 0 + 1) = 0
    <3>1. At(text, 0, V3!U16(0))
      BY <1>2, <1>6, <2>0
    <3> QED BY ONLY <1>8, <2>0, <3>1
  <2>2. V3!WordAt(text, 7 + n + 1) = 1
    <3>1. At(text, 7 + n, V3!U16(1))
      BY <1>2, <1>6, <2>0
    <3> QED BY ONLY <1>8, <2>0, <3>1
  <2>3. V3!WordAt(text, 10 + n + m + 1) = e.pmu_id
    <3>1. At(text, 10 + n + m, V3!U16(e.pmu_id))
      BY <1>2, <1>6, <2>0
    <3> QED BY ONLY <1>8, <2>0, <3>1
  <2>4. V3!WordAt(text, 12 + n + m + 1) = 3
    <3>1. At(text, 12 + n + m, V3!U16(3))
      BY <1>2, <1>6, <2>0
    <3> QED BY ONLY <1>8, <2>0, <3>1
  <2>5. V3!WordAt(text, 30 + n + m + 1) = 1
    <3>1. At(text, 30 + n + m, V3!U16(1))
      BY <1>2, <1>6, <2>0
    <3> QED BY ONLY <1>8, <2>0, <3>1
  <2>6. V3!WordAt(text, 32 + n + m + 1) = 6
    <3>1. At(text, 32 + n + m, V3!U16(6))
      BY <1>2, <1>6, <2>0
    <3> QED BY ONLY <1>8, <2>0, <3>1
  <2>7. V3!WordAt(text, 34 + n + m + 1) = 0
    <3>1. At(text, 34 + n + m, V3!U16(0))
      BY <1>2, <1>6, <2>0
    <3> QED BY ONLY <1>8, <2>0, <3>1
  <2>8. V3!WordAt(text, 36 + n + m + 1) = 1
    <3>1. At(text, 36 + n + m, V3!U16(1))
      BY <1>2, <1>6, <2>0
    <3> QED BY ONLY <1>8, <2>0, <3>1
  <2>9. V3!WordAt(text, 38 + n + m + 1) = 1
    <3>1. At(text, 38 + n + m, V3!U16(1))
      BY <1>2, <1>6, <2>0
    <3> QED BY ONLY <1>8, <2>0, <3>1
  <2>10. V3!WordAt(text, 40 + n + m + 1) = 0
    <3>1. At(text, 40 + n + m, V3!U16(0))
      BY <1>2, <1>6, <2>0
    <3> QED BY ONLY <1>8, <2>0, <3>1
  <2>11. V3!WordAt(text, 201 + n + m + 1) = bits
    <3>1. At(text, 201 + n + m, V3!U16(bits))
      BY <1>2, <1>6, <2>0
    <3> QED BY ONLY <1>8, <2>0, <3>1
  <2>12. V3!WordAt(text, 211 + n + m + 1) = 50
    <3>1. At(text, 211 + n + m, V3!U16(50))
      BY <1>2, <1>6, <2>0
    <3> QED BY ONLY <1>8, <2>0, <3>1
  <2>13. V3!WordAt(text, 215 + n + m + 1) = 50
    <3>1. At(text, 215 + n + m, V3!U16(50))
      BY <1>2, <1>6, <2>0
    <3> QED BY ONLY <1>8, <2>0, <3>1
  <2> QED BY ONLY <1>1, <2>1, <2>2, <2>3, <2>4, <2>5, <2>6, <2>7, <2>8, <2>9, <2>10, <2>11, <2>12, <2>13, SMT
<1>10. V3!LongAt(text, 3) = base
  <2>1. text \in Seq(Int) /\ Halves32(base) /\ At(text, 2, V3!U32(base))
    BY <1>2, <1>3, <1>6
  <2>2. V3!LongAt(text, 2 + 1) = base
    BY ONLY <2>1, ReadLong3, Zenon
  <2> QED BY ONLY <2>2, SMT
<1>11. text[7] = n /\ text[10 + n] = m
  <2>1. 1 \in 1..Len(pdc) /\ 1 \in 1..Len(pmu)
    BY ONLY <1>1, <1>4, SMT DEF Spans
  <2>2. At(text, 6, pdc) /\ At(text, 9 + n, pmu)
    BY <1>2
  <2>3. text[6 + 1] = pdc[1] /\ text[9 + n + 1] = pmu[1]
    BY ONLY <2>1, <2>2, Zenon DEF At
  <2> QED BY ONLY <1>1, <1>4, <2>3, SMT
<1> DEFINE p == 43 + n + m
<1>12. /\ \A c \in 1..6 : text[p + 4 * (c - 1)] = 3
       /\ text[p + 24] = 4 /\ text[p + 29] = 5
  <2> DEFINE k == 42 + n + m
  <2>1. At(text, k, channels) /\ Len(channels) = 35 /\ k \in Nat
    BY <1>1, <1>2, <1>5 DEF Spans
  <2>2. \A i \in 1..35 : text[k + i] = channels[i]
    <3> HIDE DEF k
    <3>1. \A i \in 1..Len(channels) : text[k + i] = channels[i]
      BY ONLY <2>1, Zenon DEF At
    <3> QED BY ONLY <2>1, <3>1, Zenon
  <2>3. \A c \in 1..6 : 4 * (c - 1) + 1 \in 1..35 /\ k + (4 * (c - 1) + 1) = p + 4 * (c - 1)
    BY ONLY <1>1, SMT
  <2>4. k + 25 = p + 24 /\ k + 30 = p + 29 /\ 25 \in 1..35 /\ 30 \in 1..35
    BY ONLY <1>1, SMT
  <2> HIDE DEF k, p
  <2> QED BY ONLY <1>5, <2>2, <2>3, <2>4, ZenonT(60)
<1> DEFINE pmus == V3!take_name(text, 7)
           name == V3!take_bytes(text, pmus, 2)
           id == V3!take_name(text, name)
           names == V3!take_bytes(text, id, 32)
           after == V3!AfterNames(text, names, 8)
           flag == V3!take_bytes(text, after, 16 * 6 + 8 * 2 + 12)
           rates == V3!take_bytes(text, flag, 10)
<1>13. /\ pmus = 8 + n /\ name = 10 + n /\ id = 11 + n + m /\ names = p /\ after = 78 + n + m
       /\ flag = 202 + n + m /\ rates = 212 + n + m
       /\ V3!take_bytes(text, rates, 8) = Len(text) + 1
  <2>0. text \in Seq(Int)
    BY <1>3
  <2>1. pmus = 8 + n
    <3>1. 7 \in Nat /\ 7 # 0 /\ 7 + 1 + n <= Len(text) + 1 /\ 7 + 1 + n = 8 + n
      BY ONLY <1>1, <1>3, SMTT(40)
    <3> HIDE DEF pmus
    <3>2. V3!take_name(text, 7) = 7 + 1 + n
      BY ONLY <1>1, <1>11, <2>0, <3>1, TakeName, Zenon
    <3> QED BY ONLY <3>1, <3>2, Zenon DEF pmus
  <2> HIDE DEF pmus
  <2>2. name = 10 + n
    <3>1. 8 + n \in Nat /\ 8 + n # 0 /\ 2 \in Nat /\ 8 + n + 2 <= Len(text) + 1 /\ 8 + n + 2 = 10 + n
      BY ONLY <1>1, <1>3, SMT
    <3>2. V3!take_bytes(text, 8 + n, 2) = 8 + n + 2
      BY ONLY <2>0, <3>1, Take, Zenon
    <3> QED BY ONLY <2>1, <3>1, <3>2, Zenon
  <2> HIDE DEF name
  <2>3. id = 11 + n + m
    <3>1. /\ 10 + n \in Nat /\ 10 + n # 0 /\ 10 + n + 1 + m <= Len(text) + 1
          /\ 10 + n + 1 + m = 11 + n + m
      BY ONLY <1>1, <1>3, SMT
    <3>2. V3!take_name(text, 10 + n) = 10 + n + 1 + m
      BY ONLY <1>1, <1>11, <2>0, <3>1, TakeName, Zenon
    <3> QED BY ONLY <2>2, <3>1, <3>2, Zenon
  <2> HIDE DEF id
  <2>4. names = p
    <3>1. /\ 11 + n + m \in Nat /\ 11 + n + m # 0 /\ 32 \in Nat
          /\ 11 + n + m + 32 <= Len(text) + 1 /\ 11 + n + m + 32 = p
      BY ONLY <1>1, <1>3, SMT
    <3>2. V3!take_bytes(text, 11 + n + m, 32) = 11 + n + m + 32
      BY ONLY <2>0, <3>1, Take, Zenon
    <3> QED BY ONLY <2>3, <3>1, <3>2, Zenon
  <2> HIDE DEF names
  <2>5. after = 78 + n + m
    <3>1. p \in Nat /\ p # 0 /\ p + 35 <= Len(text) + 1 /\ p + 35 = 78 + n + m
      BY ONLY <1>1, <1>3, SMT
    <3> HIDE DEF p
    <3>2. V3!AfterNames(text, p, 8) = p + 35
      BY ONLY <1>12, <2>0, <3>1, NamesAreTaken, Zenon
    <3> QED BY ONLY <2>4, <3>1, <3>2, Zenon
  <2> HIDE DEF after
  <2>6. flag = 202 + n + m
    <3> DEFINE q == 78 + n + m
               j == 16 * 6 + 8 * 2 + 12
    <3>1. q \in Nat /\ q # 0 /\ j \in Nat /\ q + j <= Len(text) + 1 /\ q + j = 202 + n + m
      BY ONLY <1>1, <1>3, SMT
    <3>2. flag = V3!take_bytes(text, q, j)
      BY ONLY <2>5, Zenon
    <3> HIDE DEF q, j, flag
    <3>3. V3!take_bytes(text, q, j) = q + j
      BY ONLY <2>0, <3>1, Take, ZenonT(60)
    <3> QED BY ONLY <3>1, <3>2, <3>3, Zenon
  <2> HIDE DEF flag
  <2>7. rates = 212 + n + m
    <3> DEFINE q == 202 + n + m
    <3>1. q \in Nat /\ q # 0 /\ 10 \in Nat /\ q + 10 <= Len(text) + 1 /\ q + 10 = 212 + n + m
      BY ONLY <1>1, <1>3, SMT
    <3>2. rates = V3!take_bytes(text, q, 10)
      BY ONLY <2>6, Zenon
    <3> HIDE DEF q, rates
    <3>3. V3!take_bytes(text, q, 10) = q + 10
      BY ONLY <2>0, <3>1, Take, ZenonT(60)
    <3> QED BY ONLY <3>1, <3>2, <3>3, Zenon
  <2> HIDE DEF rates
  <2>8. V3!take_bytes(text, rates, 8) = Len(text) + 1
    <3>1. rates \in Nat /\ rates # 0 /\ 8 \in Nat /\ rates + 8 <= Len(text) + 1
          /\ rates + 8 = Len(text) + 1
      <4>1. Len(text) = 219 + n + m
        BY <1>3
      <4> QED BY ONLY <1>1, <2>7, <4>1, SMT
    <3>2. V3!take_bytes(text, rates, 8) = rates + 8
      BY ONLY <2>0, <3>1, Take, Zenon
    <3> QED BY ONLY <3>1, <3>2, Zenon
  <2> QED BY ONLY <2>1, <2>2, <2>3, <2>4, <2>5, <2>6, <2>7, <2>8
<1> HIDE DEF p
<1>14. /\ base # 0 /\ base \div 16777216 = 0 /\ base % 50 = 0
       /\ e.pmu_id \notin {0, 65535}
  <2>1. base \in Fraction \ {0} /\ base % 50 = 0
    BY DEF base
  <2>2. base # 0 /\ base \div 16777216 = 0
    BY ONLY <2>1, SMT DEF Fraction
  <2> QED BY <2>1, <2>2
<1> HIDE DEF pmus, name, id, names, after, flag, rates
<1>15. /\ V3!WordAt(text, pmus) = 1 /\ V3!WordAt(text, id) = e.pmu_id
       /\ V3!WordAt(text, id + 2) = 3 /\ V3!WordAt(text, id + 20) = 1
       /\ V3!WordAt(text, flag) = bits /\ V3!WordAt(text, rates) = 50
       /\ V3!WordAt(text, rates + 4) = 50
       /\ rates # 0 /\ Len(text) >= 6
  BY ONLY <1>1, <1>3, <1>9, <1>13, SMT
<1>16. [i \in 1 .. 5 |-> V3!WordAt(text, id + 20 + 2 * i)] = <<6, 0, 1, 1, 0>>
  <2> DEFINE f == [i \in 1 .. 5 |-> V3!WordAt(text, id + 20 + 2 * i)]
  <2>1. /\ id + 20 + 2 * 1 = 33 + n + m /\ id + 20 + 2 * 2 = 35 + n + m
        /\ id + 20 + 2 * 3 = 37 + n + m /\ id + 20 + 2 * 4 = 39 + n + m
        /\ id + 20 + 2 * 5 = 41 + n + m
    BY ONLY <1>1, <1>13, SMT
  <2>2. /\ f[1] = V3!WordAt(text, id + 20 + 2 * 1) /\ f[2] = V3!WordAt(text, id + 20 + 2 * 2)
        /\ f[3] = V3!WordAt(text, id + 20 + 2 * 3) /\ f[4] = V3!WordAt(text, id + 20 + 2 * 4)
        /\ f[5] = V3!WordAt(text, id + 20 + 2 * 5) /\ f = [i \in 1 .. 5 |-> f[i]]
    OBVIOUS
  <2> HIDE DEF f
  <2>3. f[1] = 6 /\ f[2] = 0 /\ f[3] = 1 /\ f[4] = 1 /\ f[5] = 0
    BY ONLY <1>9, <2>1, <2>2, SMT
  <2>4. f = <<6, 0, 1, 1, 0>>
    BY ONLY <2>2, <2>3, FiveWords, Zenon
  <2> QED BY <2>4 DEF f
<1>17. V3!decode_configuration(text, 50)
  <2>1. V3!VERSION = 3
    BY DEF V3!VERSION
  <2>2. V3!decode_configuration(text, 50) <=> FieldsAreRead(text, pmus, id, flag, rates, 50)
    BY ONLY SMT
       DEF V3!decode_configuration, FieldsAreRead, pmus, name, id, names, after, flag, rates
  <2>3. /\ V3!LongAt(text, 3) # 0 /\ V3!LongAt(text, 3) \div 16777216 = 0
        /\ V3!LongAt(text, 3) % 50 = 0
    BY ONLY <1>10, <1>14, SMT
  <2>4. (V3!WordAt(text, flag) \div 4096) % 2 = 0 /\ V3!WordAt(text, id) \notin {0, 65535}
    BY ONLY <1>6, <1>14, <1>15, SMT
  <2>5. FieldsAreRead(text, pmus, id, flag, rates, 50)
    BY ONLY <1>9, <1>13, <1>15, <1>16, <2>1, <2>3, <2>4, SMT DEF FieldsAreRead
  <2> QED BY ONLY <2>2, <2>5, Zenon
<1>18. V3!ConfigurationSummary(text) = [time_base |-> base, pmu_id |-> e.pmu_id]
  BY ONLY <1>10, <1>15, Zenon DEF V3!ConfigurationSummary, id, name, pmus
<1> QED BY ONLY <1>3, <1>17, <1>18, Zenon DEF ReadsV3, text, base, n, m

-----------------------------------------------------------------------------
(* What an endpoint of an accepted profile announces.                      *)
LEMMA FractionsAreThree ==
  /\ \A n \in 1 .. TIME_BASE_MAX : n \in Fraction \ {0}
  /\ \A n \in 1 .. PHUNIT_MAX : n \in Fraction \ {0}
  /\ PHUNIT_MAX + 1 = 16777216
<1>1. TIME_BASE_MAX \in Nat /\ PHUNIT_MAX \in Nat
  BY SMT DEF TIME_BASE_MAX, PHUNIT_MAX
<1>2. /\ \A n \in 1 .. TIME_BASE_MAX : n \in Nat /\ n # 0 /\ n <= TIME_BASE_MAX
      /\ \A n \in 1 .. PHUNIT_MAX : n \in Nat /\ n # 0 /\ n <= PHUNIT_MAX
  BY ONLY <1>1
<1>3. /\ \A n \in Nat : n # 0 /\ n <= TIME_BASE_MAX => n \in Fraction \ {0}
      /\ \A n \in Nat : n # 0 /\ n <= PHUNIT_MAX => n \in Fraction \ {0}
      /\ PHUNIT_MAX + 1 = 16777216
  BY SMT DEF Fraction, TIME_BASE_MAX, PHUNIT_MAX
<1> QED BY ONLY <1>2, <1>3

LEMMA SixteenBytes ==
  ASSUME NEW f \in [1 .. 16 -> Byte], NEW a \in Byte, NEW b \in Byte
  PROVE  Sized([f EXCEPT ![7] = a, ![9] = b], 16)
<1> DEFINE g == [f EXCEPT ![7] = a, ![9] = b]
<1>1. g \in [1 .. 16 -> Byte]
  OBVIOUS
<1> HIDE DEF g
<1>2. g \in Seq(Byte) /\ DOMAIN g = 1 .. 16
  <2>1. \A n \in Nat : [1 .. n -> Byte] \subseteq Seq(Byte)
    BY SeqDef, Zenon
  <2> DEFINE n == 16
  <2>2. n \in Nat /\ g \in [1 .. n -> Byte]
    BY <1>1
  <2> HIDE DEF n
  <2>3. g \in Seq(Byte) /\ DOMAIN g = 1 .. n
    BY ONLY <2>1, <2>2, Zenon
  <2> QED BY <2>3 DEF n
<1>3. Len(g) = 16
  BY ONLY <1>2, SMT
<1> QED BY <1>2, <1>3 DEF Sized, g

LEMMA UuidIsSized == Sized(deterministic_uuid(0), 16)
<1>1. 0 \in 0 .. MAX_LOGICAL_PMUS - 1
  BY DEF MAX_LOGICAL_PMUS
<1>2. Mixed[0] \in [1 .. 16 -> Byte]
  BY <1>1, MixedAssumption DEF Byte
<1> DEFINE f == Mixed[0]
           a == 64 + (f[7] % 16)
           b == 128 + (f[9] % 64)
<1>3. f[7] \in Byte /\ f[9] \in Byte
  BY <1>2, SMTT(40)
<1>4. a \in Byte /\ b \in Byte
  BY <1>3, SMTT(40) DEF Byte
<1>5. deterministic_uuid(0) = [f EXCEPT ![7] = a, ![9] = b]
  BY <1>2 DEF deterministic_uuid
<1> HIDE DEF f, a, b
<1>6. f \in [1 .. 16 -> Byte]
  BY <1>2 DEF f
<1>7. Sized([f EXCEPT ![7] = a, ![9] = b], 16)
  BY ONLY <1>4, <1>6, SixteenBytes, Zenon
<1> QED BY <1>5, <1>7

(* The station name of the first endpoint: the prefix and 001.             *)
LEMMA FirstName ==
  ASSUME NEW prefix \in Seq(Byte)
  PROVE  PmuName(prefix, 1) \in Seq(Byte)
<1> DEFINE digits == <<48, 48, 49>>
<1>1. <<48 + (1 \div 100), 48 + ((1 \div 10) % 10), 48 + (1 % 10)>> = digits
  BY SMT
<1>2. digits \in Seq(Byte)
  <2>1. 48 \in Byte /\ 49 \in Byte
    BY SMT DEF Byte
  <2> QED BY <2>1
<1>3. PmuName(prefix, 1) = prefix \o digits
  BY <1>1 DEF PmuName
<1> HIDE DEF digits
<1>4. prefix \o digits \in Seq(Byte)
  BY <1>2
<1> QED BY <1>3, <1>4

LEMMA CountOfBytes ==
  ASSUME NEW name \in Seq(Byte), encoded_name(name)
  PROVE  Len(name) <= 255
<1> DEFINE n == Len(name)
<1>1. n \in 1 .. 255
  BY DEF encoded_name
<1> HIDE DEF n
<1>2. n <= 255
  BY ONLY <1>1
<1> QED BY SMTT(40), <1>2 DEF n

LEMMA PrintableName ==
  ASSUME NEW name \in Seq(Byte), v2_fixed_ascii(name)
  PROVE  name \in Seq(Printable) /\ Len(name) <= 16 /\ Len(name) >= 1
<1> DEFINE n == Len(name)
<1>1. n \in 1 .. 16 /\ \A i \in DOMAIN name : name[i] \in Printable
  BY SMT DEF v2_fixed_ascii, V2_NAME_FIELD_BYTES, IsPrintable, Printable
<1>2. name \in [1 .. n -> Byte] /\ n \in Nat /\ DOMAIN name = 1 .. n
  BY SMT
<1>3. name \in [1 .. n -> Printable]
  BY <1>1, <1>2
<1>4. name \in Seq(Printable)
  BY <1>2, <1>3, SeqDef, ZenonT(60)
<1> HIDE DEF n
<1>5. n <= 16 /\ n >= 1
  BY ONLY <1>1
<1> QED BY <1>4, <1>5 DEF n

(* Its descriptor.                                                         *)
LEMMA EndpointIsFirst ==
  ASSUME CompilerInv, outcome = "compiled"
  PROVE  /\ profile \in RawProfile /\ Accepted(profile)
         /\ endpoint = Descriptor(profile, 0)
         /\ 1 \in 1 .. profile.count
<1>1. profile \in RawProfile /\ Accepted(profile) /\ endpoints = CompiledFleet
  BY DEF CompilerInv
<1>2. profile.count \in Nat \ {0}
  BY <1>1, IdentifiersAreInRange
<1>3. 1 \in 1 .. profile.count /\ 1 - 1 = 0
  BY <1>2
<1> QED BY <1>1, <1>3 DEF CompiledFleet, endpoint

LEMMA AnnouncedOfBoth ==
  ASSUME CompilerInv, outcome = "compiled"
  PROVE  /\ endpoint.recipe.time_base \in Fraction \ {0} /\ endpoint.recipe.time_base % 50 = 0
         /\ endpoint.recipe.data_rate_hz = 50 /\ endpoint.pmu_id \in Word \ {0, 65535}
         /\ endpoint.version \in {2, 3}
<1> DEFINE p == profile
<1>1. p \in RawProfile /\ Accepted(p) /\ endpoint = Descriptor(p, 0) /\ 1 \in 1 .. p.count
  BY EndpointIsFirst
<1>2. /\ endpoint.recipe = p /\ endpoint.pmu_id = p.first_pmu_id + 0
      /\ endpoint.version = p.protocol_version
  BY <1>1 DEF Descriptor
<1>3. /\ p.time_base \in 1 .. TIME_BASE_MAX /\ p.data_rate_hz = 50
      /\ p.time_base % p.data_rate_hz = 0
  BY <1>1, SMT DEF Accepted, validate_fleet
<1>4. /\ p.first_pmu_id \in Nat \ {0} /\ p.count \in Nat \ {0}
      /\ p.first_pmu_id + p.count - 1 <= U16_MAX - 1
  BY <1>1, IdentifiersAreInRange
<1>5. p.first_pmu_id + 0 \in Word \ {0, 65535}
  <2>1. p.first_pmu_id + 0 = p.first_pmu_id /\ p.first_pmu_id < U16_MAX
    BY <1>4, Limits
  <2> QED BY ONLY <1>4, <2>1, SMT DEF Word, U16_MAX
<1>6. p.protocol_version \in {2, 3}
  BY <1>1, AcceptedIsInRange DEF WireVersions
<1> QED BY <1>2, <1>3, <1>5, <1>6, FractionsAreThree

LEMMA AnnouncedOfV2 ==
  ASSUME CompilerInv, outcome = "compiled", endpoint.version = 2
  PROVE  /\ endpoint.pmu_name \in Seq(Printable)
         /\ Len(endpoint.pmu_name) <= 16 /\ Len(endpoint.pmu_name) >= 1
         /\ \A c \in 1..6 : IsPhunit(endpoint.phunits[c])
<1> DEFINE p == profile
<1>1. p \in RawProfile /\ Accepted(p) /\ endpoint = Descriptor(p, 0) /\ 1 \in 1 .. p.count
  BY EndpointIsFirst
<1>2. /\ endpoint.pmu_name = PmuName(p.pmu_name_prefix, 0 + 1)
      /\ endpoint.version = p.protocol_version /\ endpoint.phunits = v2_phunits(p)
  BY <1>1 DEF Descriptor
<1>3. p.pmu_name_prefix \in Seq(Byte)
  BY <1>1, SMT DEF RawProfile, Byte
<1>4. p.protocol_version = 2
  BY <1>2
<1>5. v2_fixed_ascii(PmuName(p.pmu_name_prefix, 1))
  BY <1>1, <1>4 DEF Accepted
<1>6. endpoint.pmu_name = PmuName(p.pmu_name_prefix, 1)
  <2>1. 0 + 1 = 1
    OBVIOUS
  <2> QED BY <1>2, <2>1, Zenon
<1>7. Phunit(p.voltage_scale) \in 1 .. PHUNIT_MAX /\ Phunit(p.current_scale) \in 1 .. PHUNIT_MAX
  BY <1>1, <1>4, AcceptedIsInRange
<1> DEFINE v == Phunit(p.voltage_scale)
           w == Phunit(p.current_scale)
<1>8. v \in Fraction \ {0} /\ w \in Fraction \ {0}
  BY <1>7, FractionsAreThree
<1>9. ASSUME NEW c \in 1..6 PROVE IsPhunit(endpoint.phunits[c])
  <2>1. endpoint.phunits[c] = IF c <= 3 THEN v ELSE (PHUNIT_MAX + 1) + w
    <3>1. c \in 1 .. PHASOR_COUNT
      BY DEF PHASOR_COUNT
    <3> QED BY <1>2, <3>1 DEF v2_phunits
  <2> HIDE DEF v, w
  <2>2. v = 16777216 * 0 + v /\ (PHUNIT_MAX + 1) + w = 16777216 * 1 + w
    BY <1>8, FractionsAreThree, SMT DEF Fraction
  <2>3. IsPhunit(v) /\ IsPhunit((PHUNIT_MAX + 1) + w)
    BY ONLY <1>8, <2>2, SMT DEF IsPhunit
  <2> QED BY <2>1, <2>3
<1>10. PmuName(p.pmu_name_prefix, 1) \in Seq(Byte)
  BY <1>3, FirstName
<1> QED BY <1>5, <1>6, <1>9, <1>10, PrintableName

LEMMA AnnouncedOfV3 ==
  ASSUME CompilerInv, outcome = "compiled", endpoint.version = 3
  PROVE  /\ endpoint.pdc_name \in Seq(Byte) /\ Len(endpoint.pdc_name) <= 255
         /\ endpoint.pmu_name \in Seq(Byte) /\ Len(endpoint.pmu_name) <= 255
         /\ Sized(endpoint.global_pmu_id, 16)
         /\ endpoint.recipe.voltage_scale \in Int /\ endpoint.recipe.current_scale \in Int
         /\ endpoint.recipe.voltage_class \in Int
<1> DEFINE p == profile
<1>1. p \in RawProfile /\ Accepted(p) /\ endpoint = Descriptor(p, 0) /\ 1 \in 1 .. p.count
  BY EndpointIsFirst
<1>2. /\ endpoint.pmu_name = PmuName(p.pmu_name_prefix, 0 + 1) /\ endpoint.recipe = p
      /\ endpoint.version = p.protocol_version /\ endpoint.pdc_name = p.pdc_name
      /\ endpoint.global_pmu_id = deterministic_uuid(0)
  BY <1>1 DEF Descriptor
<1>3. p.pmu_name_prefix \in Seq(Byte) /\ p.pdc_name \in Seq(Byte)
  BY <1>1, SMT DEF RawProfile, Byte
<1>4. p.protocol_version = 3
  BY <1>2
<1>5. encoded_name(PmuName(p.pmu_name_prefix, 1))
  BY <1>1, <1>4 DEF Accepted
<1>6. endpoint.pmu_name = PmuName(p.pmu_name_prefix, 1)
  <2>1. 0 + 1 = 1
    OBVIOUS
  <2> QED BY <1>2, <2>1, Zenon
<1>7. encoded_name(p.pdc_name) /\ validate_non_negative(p.voltage_class)
  BY <1>1, SMT DEF Accepted, validate_fleet
<1>8. p.voltage_scale \in Int /\ p.current_scale \in Int
  BY <1>1, AcceptedIsInRange DEF PhasorInRange
<1>9. p.voltage_class \in Int
  BY <1>1, <1>7 DEF RawProfile, F32, validate_non_negative, validate_finite
<1>10. PmuName(p.pmu_name_prefix, 1) \in Seq(Byte)
  BY <1>3, FirstName
<1> QED BY <1>2, <1>3, <1>5, <1>6, <1>7, <1>8, <1>9, <1>10, CountOfBytes, UuidIsSized

LEMMA ConfigurationIsRead ==
  ASSUME CompilerInv, outcome = "compiled"
  PROVE  ConfigurationIsUnderstood
<1> DEFINE e == endpoint
           summary == [time_base |-> e.recipe.time_base, pmu_id |-> e.pmu_id]
<1>1. /\ e.recipe.time_base \in Fraction \ {0} /\ e.recipe.time_base % 50 = 0
      /\ e.recipe.data_rate_hz = 50 /\ e.pmu_id \in Word \ {0, 65535} /\ e.version \in {2, 3}
  BY AnnouncedOfBoth
<1>2. Rate = 50 /\ Limit = 4096 /\ V2!MIN_FRAME_BYTES = 16
  BY SMT DEF Rate, Limit, MAX_COMMAND_FRAME_BYTES, V2!MIN_FRAME_BYTES
<1>3. CASE e.version = 2
  <2> DEFINE text == V2!encode_configuration(e)
  <2>1. /\ e.pmu_name \in Seq(Printable) /\ Len(e.pmu_name) <= 16
        /\ \A c \in 1..6 : IsPhunit(e.phunits[c])
    BY <1>3, AnnouncedOfV2
  <2> HIDE DEF e
  <2>2. /\ V2!decode_configuration(text, 50) /\ Len(text) = 158
        /\ V2!ConfigurationSummary(text) = summary
    BY <1>1, <2>1, ConfigurationOfV2
  <2>3. V2!MIN_FRAME_BYTES + Len(text) < Limit
    BY ONLY <1>2, <2>2, SMTT(40)
  <2>4. Configuration = summary
    BY ONLY <1>3, <2>2, SMT DEF Configuration, e
  <2>5. V2!decode_configuration(text, Rate)
    BY ONLY <1>2, <2>2, SMT
  <2> HIDE DEF summary
  <2> QED BY ONLY <1>3, <2>3, <2>4, <2>5, SMT DEF ConfigurationIsUnderstood, e, summary
<1>4. CASE e.version = 3
  <2> DEFINE text == V3!encode_configuration(e)
             n == Len(e.pdc_name)
             m == Len(e.pmu_name)
  <2>1. /\ e.pdc_name \in Seq(Byte) /\ n <= 255 /\ e.pmu_name \in Seq(Byte) /\ m <= 255
        /\ Sized(e.global_pmu_id, 16)
        /\ e.recipe.voltage_scale \in Int /\ e.recipe.current_scale \in Int
        /\ e.recipe.voltage_class \in Int
    BY <1>4, AnnouncedOfV3
  <2>2. n \in Nat /\ m \in Nat
    BY <2>1
  <2> HIDE DEF e
  <2>3. /\ V3!decode_configuration(text, 50) /\ Len(text) = 219 + n + m
        /\ V3!ConfigurationSummary(text) = summary
    <3>1. AnnouncesV3(e)
      BY ONLY <1>1, <1>4, <2>1, SMT DEF AnnouncesV3
    <3>2. ReadsV3(e)
      BY ONLY <3>1, ConfigurationOfV3
    <3> QED BY ONLY <3>2, Zenon DEF ReadsV3
  <2> HIDE DEF n, m
  <2>4. V2!MIN_FRAME_BYTES + Len(text) < Limit
    BY ONLY <1>2, <2>1, <2>2, <2>3, SMT
  <2>5. Configuration = summary
    BY ONLY <1>4, <2>3, SMT DEF Configuration, e
  <2>6. V3!decode_configuration(text, Rate)
    BY ONLY <1>2, <2>3, SMT
  <2> HIDE DEF summary
  <2> QED BY ONLY <1>4, <2>4, <2>5, <2>6, SMT DEF ConfigurationIsUnderstood, e, summary
<1> QED BY <1>1, <1>3, <1>4

-----------------------------------------------------------------------------
(* What each kind of frame is read as.                                     *)
ReadAs(w, v, type, n, id, ts) ==
  /\ w \in Seq(Byte) /\ Len(w) = n /\ V2!WordAt(w, 3) = n /\ w[2] = 16 * type + v
  /\ V2!WordAt(w, 5) = id /\ V2!timestamp(w) = ts /\ V3!timestamp(w) = ts /\ Decoded(v, w)

LEMMA ZeroIsRecord == IsRecord(Zero)
  BY DEF IsRecord, Zero

LEMMA StampsAreRecords == \A ts \in Stamps : IsRecord(ts)
<1>1. TAKE ts \in Stamps
<1>2. ts = [soc |-> ts.soc, fracsec |-> ts.fracsec]
  BY StampsAssumption
<1> QED BY ONLY <1>2, SMT DEF IsRecord

LEMMA BodiesAreBytes == Bodies \subseteq Seq(Byte)
  BY Zenon DEF Bodies

LEMMA HeadOfFrame ==
  ASSUME NEW w, NEW v, NEW quality, NEW type, NEW id, NEW ts, NEW body,
         IsFrame(w, v, quality, type, id, ts, body)
  PROVE  /\ w \in Seq(Byte) /\ Len(w) = 16 + Len(body)
         /\ V2!WordAt(w, 3) = Len(w) /\ w[2] = 16 * type + v
  BY Zenon DEF IsFrame, HasHead

LEMMA FrameOfV2IsRead ==
  ASSUME NEW type \in 0..7, NEW id \in Word, NEW ts, IsStamp(ts), IsRecord(ts), NEW body \in Bodies
  PROVE  LET w == V2!encode_frame(type, id, ts, body)
         IN  /\ ReadAs(w, 2, type, 16 + Len(body), id, ts) /\ V2!body(w) = body /\ w[11] = 15
             /\ IsFrame(w, 2, 15, type, id, ts, body)
<1> DEFINE w == V2!encode_frame(type, id, ts, body)
           v == 2
           q == 15
<1>1. type \in 0..15 /\ type < 8 /\ v \in {2, 3} /\ body \in Seq(Byte)
  BY BodiesAreBytes
<1>2. IsFrame(w, v, q, type, id, ts, body)
  BY <1>1, IsFrameOfV2
<1> HIDE DEF w, v, q
<1>3. /\ V2!WordAt(w, 5) = id /\ V2!timestamp(w) = ts /\ V3!timestamp(w) = ts
      /\ V2!body(w) = body /\ w[11] = q /\ Decoded(v, w)
  <2>1. IsRecord(ts)
    OBVIOUS
  <2> QED BY ONLY <1>1, <1>2, <2>1, FrameIsRead, Zenon
<1>4. w \in Seq(Byte) /\ Len(w) = 16 + Len(body) /\ V2!WordAt(w, 3) = Len(w) /\ w[2] = 16 * type + v
  BY <1>2, HeadOfFrame
<1> QED BY ONLY <1>2, <1>3, <1>4, Zenon DEF ReadAs, v, q, w

LEMMA FrameOfV3IsRead ==
  ASSUME NEW type \in 0..15, NEW id \in Word, NEW ts, IsStamp(ts), IsRecord(ts), NEW body \in Bodies
  PROVE  LET w == V3!encode_frame(type, id, ts, body)
         IN  /\ ReadAs(w, 3, type, 16 + Len(body), id, ts) /\ V3!body(w) = body
             /\ IsFrame(w, 3, 0, type, id, ts, body)
<1> DEFINE w == V3!encode_frame(type, id, ts, body)
           v == 3
           q == 0
<1>1. type \in 0..15 /\ (v = 2 => type < 8) /\ v \in {2, 3} /\ body \in Seq(Byte)
  BY BodiesAreBytes
<1>2. IsFrame(w, v, q, type, id, ts, body)
  BY <1>1, IsFrameOfV3
<1> HIDE DEF w, v, q
<1>3. /\ V2!WordAt(w, 5) = id /\ V2!timestamp(w) = ts /\ V3!timestamp(w) = ts
      /\ V3!body(w) = body /\ Decoded(v, w)
  <2>1. IsRecord(ts)
    OBVIOUS
  <2> QED BY ONLY <1>1, <1>2, <2>1, FrameIsRead, Zenon
<1>4. w \in Seq(Byte) /\ Len(w) = 16 + Len(body) /\ V2!WordAt(w, 3) = Len(w) /\ w[2] = 16 * type + v
  BY <1>2, HeadOfFrame
<1> QED BY ONLY <1>2, <1>3, <1>4, Zenon DEF ReadAs, v, q, w

LEMMA CommandOfV2IsRead ==
  ASSUME NEW id \in Word, NEW c \in DOMAIN V2!COMMAND
  PROVE  LET w == V2!encode_command(id, c, Zero)
         IN  ReadAs(w, 2, 4, 18, id, Zero) /\ Parsed(2, w) = c
<1> DEFINE w == V2!encode_command(id, c, Zero)
           code == V2!COMMAND[c]
           text == V2!U16(code)
           type == 4
           v == 2
           q == 15
<1>1. code \in Word /\ text \in Bodies /\ 16 + Len(text) = 18
  <2>1. code \in Word
    BY CommandsAreWords
  <2>2. Sized(text, 2)
    BY <2>1, SizedWord
  <2>3. 16 + Len(text) = 18
    BY <2>2 DEF Sized
  <2> QED BY <2>1, <2>2, <2>3, ShortBody
<1>2. w = V2!encode_frame(type, id, Zero, text)
  BY TypesAre DEF V2!encode_command
<1>3. type \in 0..7
  OBVIOUS
<1> HIDE DEF type
<1>4. ReadAs(w, v, type, 18, id, Zero) /\ IsFrame(w, v, q, type, id, Zero, text)
  <2>1. text \in Bodies /\ 16 + Len(text) = 18
    BY <1>1
  <2> HIDE DEF text, w
  <2> QED BY <1>2, <1>3, <2>1, ZeroIsStamp, ZeroIsRecord, FrameOfV2IsRead
<1>5. v \in {2, 3} /\ type = IF v = 2 THEN 4 ELSE 12
  BY DEF type
<1>6. v = 2
  OBVIOUS
<1> HIDE DEF v, q, w, code
<1>7. \A d \in DOMAIN V2!COMMAND : V2!COMMAND[d] = code => Parsed(v, w) = d
  BY ONLY <1>1, <1>4, <1>5, <1>6, CommandIsServed
<1>8. Parsed(v, w) = c
  BY <1>7 DEF code
<1> QED BY ONLY <1>4, <1>8, Zenon DEF v, w, type

LEMMA CommandOfV3IsRead ==
  ASSUME NEW id \in Word, NEW c \in DOMAIN V3!COMMAND
  PROVE  LET w == V3!encode_command(id, c, Zero)
         IN  ReadAs(w, 3, 12, 18, id, Zero) /\ Parsed(3, w) = c
<1> DEFINE w == V3!encode_command(id, c, Zero)
           code == V3!COMMAND[c]
           text == V2!U16(code)
           type == 12
           v == 3
           q == 0
<1>1. code \in Word /\ text \in Bodies /\ 16 + Len(text) = 18
  <2>1. code \in Word
    BY CommandsAreWords
  <2>2. Sized(text, 2)
    BY <2>1, SizedWord
  <2>3. 16 + Len(text) = 18
    BY <2>2 DEF Sized
  <2> QED BY <2>1, <2>2, <2>3, ShortBody
<1>2. w = V3!encode_frame(type, id, Zero, text)
  BY TypesAre, SameWords DEF V3!encode_command
<1>3. type \in 0..15
  OBVIOUS
<1> HIDE DEF type
<1>4. ReadAs(w, v, type, 18, id, Zero) /\ IsFrame(w, v, q, type, id, Zero, text)
  <2>1. text \in Bodies /\ 16 + Len(text) = 18
    BY <1>1
  <2> HIDE DEF text, w
  <2> QED BY <1>2, <1>3, <2>1, ZeroIsStamp, ZeroIsRecord, FrameOfV3IsRead
<1>5. v \in {2, 3} /\ type = IF v = 2 THEN 4 ELSE 12
  BY DEF type
<1>6. v = 3
  OBVIOUS
<1> HIDE DEF v, q, w, code
<1>7. \A d \in DOMAIN V3!COMMAND : V3!COMMAND[d] = code => Parsed(v, w) = d
  BY ONLY <1>1, <1>4, <1>5, <1>6, CommandIsServed
<1>8. Parsed(v, w) = c
  BY <1>7 DEF code
<1> QED BY ONLY <1>4, <1>8, Zenon DEF v, w, type

LEMMA ErrorIsRead ==
  ASSUME NEW id \in Word, NEW ts, IsStamp(ts), IsRecord(ts), NEW code \in DOMAIN V3!ErrorResponseCode
  PROVE  LET w == V3!encode_error_response(id, code, ts)
         IN  ReadAs(w, 3, 15, 20, id, ts) /\ V3!decode_error_response(V3!body(w))
<1> DEFINE a == V3!U16(V3!ErrorResponseCode[code])
           b == V3!U16(0)
           type == 15
           text == a \o b
           w == V3!encode_error_response(id, code, ts)
<1>1. Sized(a, 2) /\ Sized(b, 2)
  <2>1. 0 \in Word
    BY SMT DEF Word
  <2> QED BY <2>1, SizedWord, SameWords, CommandsAreWords
<1>2. w = V3!encode_frame(type, id, ts, text)
  BY TypesAre DEF V3!encode_error_response
<1>3. type \in 0..15
  OBVIOUS
<1> HIDE DEF a, b, type
<1>4. Sized(text, 4)
  <2>1. Sized(text, 2 + 2)
    BY <1>1, SizedJoin
  <2> QED BY <2>1
<1> HIDE DEF text, w
<1>5. text \in Bodies /\ 16 + Len(text) = 20
  BY <1>4, ShortBody DEF Sized
<1>6. ReadAs(w, 3, type, 20, id, ts) /\ V3!body(w) = text
  BY <1>2, <1>3, <1>5, FrameOfV3IsRead
<1>7. V3!decode_error_response(text)
  BY <1>4 DEF Sized, V3!decode_error_response
<1> QED BY ONLY <1>6, <1>7, Zenon DEF w, type

LEMMA HeaderIsRead ==
  ASSUME NEW e, e.stream_id \in Word, e.pmu_name \in Seq(Printable), Len(e.pmu_name) <= 16,
         NEW ts, IsStamp(ts), IsRecord(ts)
  PROVE  LET w == V2!encode_header(e, ts)
         IN  ReadAs(w, 2, 1, 32, e.stream_id, ts) /\ V2!decode_header(V2!body(w))
<1> DEFINE text == V2!Padded(e.pmu_name)
           w == V2!encode_header(e, ts)
           type == 1
<1>1. text \in Seq(Printable) /\ Sized(text, 16)
  BY PaddedIsPrintable
<1>2. w = V2!encode_frame(type, e.stream_id, ts, text)
  BY TypesAre DEF V2!encode_header
<1>3. type \in 0..7
  OBVIOUS
<1> HIDE DEF text, w, type
<1>4. text \in Bodies /\ 16 + Len(text) = 32
  BY <1>1, ShortBody DEF Sized
<1>5. ReadAs(w, 2, type, 32, e.stream_id, ts) /\ V2!body(w) = text
  BY <1>2, <1>3, <1>4, FrameOfV2IsRead
<1>6. V2!decode_header(text)
  <2>1. V2!IsPrintable(text)
    BY <1>1, PrintableIs
  <2>2. text # << >>
    <3>1. Len(text) = 16
      BY <1>1 DEF Sized
    <3>2. Len(<< >>) = 0
      OBVIOUS
    <3> QED BY ONLY <3>1, <3>2, SMT
  <2> QED BY <2>1, <2>2 DEF V2!decode_header
<1> QED BY ONLY <1>5, <1>6, Zenon DEF w, type

(* A sample's frame, of the reader's grid.                                 *)
LEMMA DataOfV2IsRead ==
  ASSUME NEW e, e.stream_id \in Word, NEW counts, IsCounts(counts), NEW degraded \in BOOLEAN,
         NEW ts, IsStamp(ts), IsRecord(ts), NEW summary,
         ts.fracsec < summary.time_base, ts.fracsec % (summary.time_base \div Rate) = 0
  PROVE  LET w == V2!encode_periodic_data(e, counts, degraded, ts)
         IN  /\ ReadAs(w, 2, 0, 46, e.stream_id, ts) /\ V2!decode_periodic_data(w, summary, Rate)
             /\ (V2!WordAt(V2!body(w), 1) = 0) <=> (e.good_stat /\ ~degraded)
<1> DEFINE w == V2!encode_periodic_data(e, counts, degraded, ts)
           type == 0
           stat == V2!Stat(e, degraded)
<1>1. PICK text : /\ Sized(text, 30) /\ V2!WordAt(text, 1) = stat
                  /\ w = V2!encode_frame(type, e.stream_id, ts, text)
  BY DataBodies
<1>2. type \in 0..7
  OBVIOUS
<1> HIDE DEF w, type
<1>3. text \in Bodies /\ Len(text) = 30 /\ 16 + Len(text) = 46
  BY <1>1, ShortBody DEF Sized
<1>4. ReadAs(w, 2, type, 46, e.stream_id, ts) /\ V2!body(w) = text /\ w[11] = 15
  <2>1. /\ ReadAs(w, 2, type, 16 + Len(text), e.stream_id, ts)
        /\ V2!body(w) = text /\ w[11] = 15
    <3>1. text \in Bodies /\ e.stream_id \in Word /\ IsStamp(ts) /\ IsRecord(ts)
      BY <1>3
    <3>2. w = V2!encode_frame(type, e.stream_id, ts, text)
      BY <1>1
    <3> QED BY ONLY <1>2, <3>1, <3>2, FrameOfV2IsRead
  <2> QED BY ONLY <1>3, <2>1, Zenon
<1>5. stat \in {0, 8640} /\ (stat = 0 <=> (e.good_stat /\ ~degraded))
  BY SMT DEF V2!Stat, V2!CONSERVATIVE_STAT
<1> HIDE DEF stat
<1>6. V2!timestamp(w) = ts
  BY <1>4 DEF ReadAs
<1>7. V2!decode_periodic_data(w, summary, Rate)
  <2>1. ts.fracsec < summary.time_base /\ ts.fracsec % (summary.time_base \div Rate) = 0
    OBVIOUS
  <2> QED BY ONLY <1>1, <1>3, <1>4, <1>5, <1>6, <2>1, SMT
       DEF V2!decode_periodic_data, V2!MESSAGE_TIME_QUALITY_UNKNOWN, V2!CONSERVATIVE_STAT
<1> QED BY ONLY <1>1, <1>4, <1>5, <1>7, SMT DEF w, type

LEMMA DataOfV3IsRead ==
  ASSUME NEW e, e.stream_id \in Word, NEW counts, IsCounts(counts), NEW degraded \in BOOLEAN,
         NEW ts, IsStamp(ts), IsRecord(ts), NEW summary,
         ts.fracsec < summary.time_base, ts.fracsec % (summary.time_base \div Rate) = 0
  PROVE  LET w == V3!encode_periodic_data(e, counts, degraded, ts)
         IN  ReadAs(w, 3, 8, 48, e.stream_id, ts) /\ V3!decode_periodic_data(w, summary, Rate)
<1> DEFINE w == V3!encode_periodic_data(e, counts, degraded, ts)
           type == 8
<1>1. PICK text : Sized(text, 32) /\ w = V3!encode_frame(type, e.stream_id, ts, text)
  BY DataBodies
<1>2. type \in 0..15
  OBVIOUS
<1> HIDE DEF w, type
<1>3. text \in Bodies /\ Len(text) = 32 /\ 16 + Len(text) = 48
  BY <1>1, ShortBody DEF Sized
<1>4. ReadAs(w, 3, type, 48, e.stream_id, ts) /\ V3!body(w) = text
  <2>1. ReadAs(w, 3, type, 16 + Len(text), e.stream_id, ts) /\ V3!body(w) = text
    <3>1. text \in Bodies /\ e.stream_id \in Word /\ IsStamp(ts) /\ IsRecord(ts)
      BY <1>3
    <3>2. w = V3!encode_frame(type, e.stream_id, ts, text)
      BY <1>1
    <3> QED BY ONLY <1>2, <3>1, <3>2, FrameOfV3IsRead
  <2> QED BY ONLY <1>3, <2>1, Zenon
<1>5. V3!timestamp(w) = ts
  BY <1>4 DEF ReadAs
<1>6. V3!decode_periodic_data(w, summary, Rate)
  <2>1. ts.fracsec < summary.time_base /\ ts.fracsec % (summary.time_base \div Rate) = 0
    OBVIOUS
  <2> QED BY ONLY <1>3, <1>4, <1>5, <2>1, SMT DEF V3!decode_periodic_data
<1> QED BY ONLY <1>4, <1>6, Zenon DEF w, type

-----------------------------------------------------------------------------
(* The type and the length of a frame of a kind.                           *)
Shaped(kind, v, type, n) ==
  \/ kind = "command" /\ v = 2 /\ type = 4 /\ n = 18
  \/ kind = "command" /\ v = 3 /\ type = 12 /\ n = 18
  \/ kind = "header" /\ v = 2 /\ type = 1 /\ n = 32
  \/ kind = "error" /\ v = 3 /\ type = 15 /\ n = 20
  \/ kind = "data" /\ v = 2 /\ type = 0 /\ n = 46
  \/ kind = "data" /\ v = 3 /\ type = 8 /\ n = 48

LEMMA ShapeIs ==
  ASSUME NEW kind, NEW v, NEW type, NEW n, Shaped(kind, v, type, n)
  PROVE  /\ v \in {2, 3} /\ type \in Nat /\ n \in Nat /\ 18 <= n /\ n <= 48
         /\ (16 * type + v) % 16 = v /\ (16 * type + v) \div 16 = type
         /\ kind = "command" => n = 18
         /\ kind # "command" => type # CommandCode(v)
  BY SMT DEF Shaped, CommandCode

(* The bytes o are a frame of the message, as its reader takes them.       *)
Reads(o, type, n) ==
  /\ ReadAs(o, endpoint.version, type, n, endpoint.stream_id, meant.ts)
  /\ Shaped(meant.kind, endpoint.version, type, n)
  /\ IF meant.kind = "command" THEN Parsed(endpoint.version, o) = meant.name
                               ELSE IsHandled(endpoint.version, o)
  /\ meant.kind = "data" /\ endpoint.version = 2 =>
       ((V2!WordAt(V2!body(o), 1) = 0) <=> (endpoint.good_stat /\ ~meant.degraded))

LEMMA TypeOf ==
  ASSUME NEW w, NEW v, NEW type, NEW n, NEW id, NEW ts, NEW kind,
         ReadAs(w, v, type, n, id, ts), Shaped(kind, v, type, n)
  PROVE  w[2] \div 16 = type /\ w[2] % 16 = v
<1>1. w[2] = 16 * type + v
  BY Zenon DEF ReadAs
<1>2. (16 * type + v) % 16 = v /\ (16 * type + v) \div 16 = type
  BY ShapeIs
<1> QED BY ONLY <1>1, <1>2, Zenon

(* A whole frame is read as it was meant, whatever its kind.               *)
LEMMA WholeIsRead ==
  ASSUME CompilerInv, outcome = "compiled", NEW o, Encoded(meant, o)
  PROVE  \E type, n : Reads(o, type, n)
<1> DEFINE e == endpoint
<1>2. /\ e.version \in {2, 3} /\ e.stream_id \in Word
      /\ \A wave \in waveform : IsCounts(Counts(wave))
  BY EndpointFacts
<1>3. \A ts \in Stamps : IsStamp(ts) /\ IsRecord(ts)
  BY StampsAreStamps, StampsAreRecords
<1>4. Configuration = [time_base |-> e.recipe.time_base, pmu_id |-> e.pmu_id]
      /\ e.recipe.data_rate_hz = Rate
  <2>1. ConfigurationIsUnderstood /\ endpoint.recipe.data_rate_hz = 50
    BY ConfigurationIsRead, AnnouncedOfBoth
  <2>2. Rate = 50
    BY DEF Rate
  <2> QED BY <2>1, <2>2 DEF ConfigurationIsUnderstood
<1>5. ASSUME e.version = 2, NEW c \in DOMAIN V2!COMMAND,
             meant = [kind |-> "command", name |-> c, ts |-> Zero],
             o = V2!encode_command(e.stream_id, c, Zero)
      PROVE  Reads(o, 4, 18)
  <2>1. ReadAs(o, 2, 4, 18, e.stream_id, Zero) /\ Parsed(2, o) = c
    BY <1>2, <1>5, CommandOfV2IsRead
  <2>2. meant.kind = "command" /\ meant.name = c /\ meant.ts = Zero
    BY <1>5
  <2> QED BY ONLY <1>5, <2>1, <2>2, SMT DEF Reads, Shaped
<1>6. ASSUME e.version = 3, NEW c \in DOMAIN V3!COMMAND,
             meant = [kind |-> "command", name |-> c, ts |-> Zero],
             o = V3!encode_command(e.stream_id, c, Zero)
      PROVE  Reads(o, 12, 18)
  <2>1. ReadAs(o, 3, 12, 18, e.stream_id, Zero) /\ Parsed(3, o) = c
    BY <1>2, <1>6, CommandOfV3IsRead
  <2>2. meant.kind = "command" /\ meant.name = c /\ meant.ts = Zero
    BY <1>6
  <2> QED BY ONLY <1>6, <2>1, <2>2, SMT DEF Reads, Shaped
<1>7. ASSUME e.version = 2, NEW ts \in Stamps, meant = [kind |-> "header", ts |-> ts],
             o = V2!encode_header(e, ts)
      PROVE  Reads(o, 1, 32)
  <2>1. e.pmu_name \in Seq(Printable) /\ Len(e.pmu_name) <= 16
    BY <1>7, AnnouncedOfV2
  <2>2. ReadAs(o, 2, 1, 32, e.stream_id, ts) /\ V2!decode_header(V2!body(o))
    <3> HIDE DEF e
    <3> QED BY <1>2, <1>3, <1>7, <2>1, HeaderIsRead
  <2>3. meant.kind = "header" /\ meant.ts = ts
    BY <1>7
  <2>4. Shaped("header", 2, 1, 32)
    BY DEF Shaped
  <2>5. IsHandled(2, o)
    BY <2>2, <2>4, TypeOf, HandledIs
  <2> QED BY ONLY <1>7, <2>2, <2>3, <2>4, <2>5, SMT DEF Reads
<1>8. ASSUME e.version = 3, NEW ts \in Stamps, NEW code \in DOMAIN V3!ErrorResponseCode,
             meant = [kind |-> "error", ts |-> ts],
             o = V3!encode_error_response(e.stream_id, code, ts)
      PROVE  Reads(o, 15, 20)
  <2>1. ReadAs(o, 3, 15, 20, e.stream_id, ts) /\ V3!decode_error_response(V3!body(o))
    BY <1>2, <1>3, <1>8, ErrorIsRead
  <2>2. meant.kind = "error" /\ meant.ts = ts
    BY <1>8
  <2>3. Shaped("error", 3, 15, 20)
    BY DEF Shaped
  <2>4. IsHandled(3, o)
    BY <2>1, <2>3, TypeOf, HandledIs
  <2> QED BY ONLY <1>8, <2>1, <2>2, <2>3, <2>4, SMT DEF Reads
<1>9. ASSUME NEW ts \in Stamps, NEW wave \in waveform, NEW degraded \in BOOLEAN, OnGrid(ts),
             meant = [kind |-> "data", ts |-> ts, degraded |-> degraded],
             o = IF e.version = 2
                 THEN V2!encode_periodic_data(e, Counts(wave), degraded, ts)
                 ELSE V3!encode_periodic_data(e, Counts(wave), degraded, ts)
      PROVE  Reads(o, 0, 46) \/ Reads(o, 8, 48)
  <2> DEFINE counts == Counts(wave)
             summary == Configuration
  <2>1. ts.fracsec < summary.time_base /\ ts.fracsec % (summary.time_base \div Rate) = 0
    <3>1. /\ ts.fracsec < e.recipe.time_base
          /\ ts.fracsec % (e.recipe.time_base \div e.recipe.data_rate_hz) = 0
      BY <1>9 DEF OnGrid
    <3>2. summary.time_base = e.recipe.time_base /\ e.recipe.data_rate_hz = Rate
      BY <1>4
    <3> HIDE DEF e, summary
    <3> QED BY ONLY <3>1, <3>2, SMT
  <2>2. IsCounts(counts) /\ IsStamp(ts) /\ IsRecord(ts) /\ e.stream_id \in Word
    BY <1>2, <1>3
  <2>3. meant.kind = "data" /\ meant.ts = ts /\ meant.degraded = degraded
    BY <1>9
  <2>4. ASSUME e.version = 2 PROVE Reads(o, 0, 46)
    <3>1. o = V2!encode_periodic_data(e, counts, degraded, ts)
      BY <1>9, <2>4
    <3> HIDE DEF e, counts, summary
    <3>2. /\ ReadAs(o, 2, 0, 46, e.stream_id, ts) /\ V2!decode_periodic_data(o, summary, Rate)
          /\ (V2!WordAt(V2!body(o), 1) = 0) <=> (e.good_stat /\ ~degraded)
      BY ONLY degraded \in BOOLEAN, <2>1, <2>2, <3>1, DataOfV2IsRead
    <3>3. Shaped("data", 2, 0, 46)
      BY DEF Shaped
    <3>4. IsHandled(2, o)
      BY <3>2, <3>3, TypeOf, HandledIs DEF summary
    <3> QED BY ONLY <2>3, <2>4, <3>2, <3>3, <3>4, SMT DEF Reads, e
  <2>5. ASSUME e.version = 3 PROVE Reads(o, 8, 48)
    <3>1. o = V3!encode_periodic_data(e, counts, degraded, ts)
      BY <1>9, <2>5
    <3> HIDE DEF e, counts, summary
    <3>2. ReadAs(o, 3, 8, 48, e.stream_id, ts) /\ V3!decode_periodic_data(o, summary, Rate)
      BY ONLY degraded \in BOOLEAN, <2>1, <2>2, <3>1, DataOfV3IsRead
    <3>3. Shaped("data", 3, 8, 48)
      BY DEF Shaped
    <3>4. IsHandled(3, o)
      BY <3>2, <3>3, TypeOf, HandledIs DEF summary
    <3> QED BY ONLY <2>3, <2>5, <3>2, <3>3, <3>4, SMT DEF Reads, e
  <2> QED BY <1>2, <2>4, <2>5
<1>10. Encoded(meant, o)
  OBVIOUS
<1> QED BY ONLY <1>5, <1>6, <1>7, <1>8, <1>9, <1>10, Zenon DEF Encoded, e

-----------------------------------------------------------------------------
(* What a reader cuts out of its buffer.                                   *)
LEMMA FirstOfWhole ==
  ASSUME NEW o \in Seq(Byte), V2!WordAt(o, 3) = Len(o), Len(o) >= 18,
         NEW w, w = o \/ w = Append(o, V2!SYNC_BYTE)
  PROVE  Declared(w) = Len(o) /\ FirstFrame(w) = o /\ Len(w) \in Nat /\ Len(w) >= Len(o)
<1> DEFINE n == Len(o)
           b == V2!SYNC_BYTE
<1>1. n \in Nat /\ b \in Byte
  BY DEF V2!SYNC_BYTE, Byte
<1> HIDE DEF b
<1>2. w \in Seq(Byte) /\ Len(w) \in {n, n + 1} /\ \A j \in 1..n : w[j] = o[j]
  BY <1>1, SMTT(40) DEF b
<1>3. 3 \in 1..n /\ 3 + 1 \in 1..n
  BY <1>1
<1>4. Declared(w) = n
  <2>1. w[3] = o[3] /\ w[3 + 1] = o[3 + 1]
    BY <1>2, <1>3
  <2> QED BY <2>1 DEF Declared, V2!WordAt
<1>5. SubSeq(w, 1, n) = o
  <2> DEFINE f == SubSeq(w, 1, n)
  <2>1. f \in Seq(Byte) /\ Len(f) = n /\ \A j \in 1..n : f[j] = w[j]
    BY <1>1, <1>2
  <2> HIDE DEF f
  <2>2. f = o
    BY SMTT(40), <1>1, <1>2, <2>1
  <2> QED BY <2>2 DEF f
<1> QED BY <1>1, <1>2, <1>4, <1>5 DEF FirstFrame

(* The command limit of an accepted profile lets a command pass.           *)
LEMMA CommandsFit ==
  ASSUME CompilerInv, outcome = "compiled"
  PROVE  ~(18 > profile.max_command_frame_bytes)
<1>1. Accepted(profile)
  BY DEF CompilerInv
<1>2. profile.max_command_frame_bytes \in 18 .. MAX_COMMAND_FRAME_BYTES
  BY <1>1, SMT DEF Accepted, validate_fleet, validate_limits
<1>3. MAX_COMMAND_FRAME_BYTES \in Int
  BY DEF MAX_COMMAND_FRAME_BYTES
<1> QED BY <1>2, <1>3

LEMMA WholeIsUnderstood ==
  ASSUME CompilerInv, outcome = "compiled", NEW o, NEW type, NEW n, Reads(o, type, n),
         wire = IF fault = "joined" THEN Append(o, V2!SYNC_BYTE) ELSE o
  PROVE  Understood
<1> DEFINE v == endpoint.version
           id == endpoint.stream_id
           kind == meant.kind
<1>1. /\ ReadAs(o, v, type, n, id, meant.ts) /\ Shaped(kind, v, type, n)
      /\ kind = "command" => Parsed(v, o) = meant.name
      /\ kind # "command" => IsHandled(v, o)
      /\ kind = "data" /\ v = 2 =>
           ((V2!WordAt(V2!body(o), 1) = 0) <=> (endpoint.good_stat /\ ~meant.degraded))
  BY Zenon DEF Reads
<1>2. /\ o \in Seq(Byte) /\ Len(o) = n /\ V2!WordAt(o, 3) = n /\ Decoded(v, o)
      /\ V2!idcode(o) = id /\ V2!timestamp(o) = meant.ts
  BY <1>1, Zenon DEF ReadAs, V2!idcode
<1>3. v \in {2, 3} /\ n \in Nat /\ 18 <= n /\ n <= 48 /\ (kind = "command" => n = 18)
  BY <1>1, ShapeIs, SMTT(40)
<1>4. Declared(wire) = n /\ FirstFrame(wire) = o /\ Len(wire) \in Nat /\ Len(wire) >= n
  <2>1. wire = o \/ wire = Append(o, V2!SYNC_BYTE)
    OBVIOUS
  <2>2. V2!WordAt(o, 3) = Len(o) /\ Len(o) >= 18
    BY <1>2, <1>3
  <2> QED BY <1>2, <2>1, <2>2, FirstOfWhole
<1>5. wire = IF fault = "joined" THEN Append(o, V2!SYNC_BYTE) ELSE o
  OBVIOUS
<1>6. ASSUME kind = "command" PROVE Served(v, wire) = meant.name
  <2>1. ~(18 > profile.max_command_frame_bytes)
    BY CommandsFit
  <2>2. Served(v, wire) = Parsed(v, FirstFrame(wire))
    BY ONLY <1>3, <1>4, <1>6, <2>1, SMT DEF Served
  <2> QED BY ONLY <1>1, <1>4, <1>6, <2>2, Zenon
<1>7. ASSUME kind # "command" PROVE Probed(v, wire) = "taken"
  <2>1. IsTaken(v, FirstFrame(wire))
    BY <1>1, <1>2, <1>4, <1>7, Zenon DEF IsTaken
  <2>2. Limit = 4096 /\ V2!MIN_FRAME_BYTES = 16
    BY SMT DEF Limit, MAX_COMMAND_FRAME_BYTES, V2!MIN_FRAME_BYTES
  <2>3. ~(Len(wire) < 4) /\ ~(n > Limit) /\ ~(n < V2!MIN_FRAME_BYTES) /\ ~(Len(wire) < n)
    BY ONLY <1>3, <1>4, <2>2, SMT
  <2> HIDE DEF v
  <2> QED BY ONLY <1>4, <2>1, <2>3, Zenon DEF Probed
<1> HIDE DEF v, id, kind
<1>8. /\ V2!idcode(FirstFrame(wire)) = id /\ V2!timestamp(FirstFrame(wire)) = meant.ts
      /\ wire = IF fault = "joined" THEN Append(FirstFrame(wire), V2!SYNC_BYTE)
                                    ELSE FirstFrame(wire)
  BY ONLY <1>2, <1>4, <1>5, Zenon
<1>9. kind = "data" /\ v = 2 =>
        ((V2!WordAt(V2!body(FirstFrame(wire)), 1) = 0)
           <=> (endpoint.good_stat /\ ~meant.degraded))
  BY ONLY <1>1, <1>4, Zenon
<1> QED BY ONLY <1>6, <1>7, <1>8, <1>9, Zenon DEF Understood, v, id, kind

LEMMA OthersRefuse ==
  ASSUME NEW v \in {2, 3}, v # endpoint.version, NEW o, NEW type, NEW n, Reads(o, type, n),
         NEW w, w = o \/ w = Append(o, V2!SYNC_BYTE)
  PROVE  Served(v, w) \notin Commands(v) /\ Probed(v, w) # "taken"
<1>1. /\ ReadAs(o, endpoint.version, type, n, endpoint.stream_id, meant.ts)
      /\ Shaped(meant.kind, endpoint.version, type, n)
  BY Zenon DEF Reads
<1>2. o \in Seq(Byte) /\ Len(o) = n /\ V2!WordAt(o, 3) = n
  BY <1>1, Zenon DEF ReadAs
<1>3. n \in Nat /\ 18 <= n
  BY <1>1, ShapeIs
<1>4. FirstFrame(w) = o
  <2>1. V2!WordAt(o, 3) = Len(o) /\ Len(o) >= 18
    BY <1>2, <1>3
  <2> QED BY <1>2, <2>1, FirstOfWhole
<1>5. o[2] % 16 = endpoint.version
  BY <1>1, TypeOf
<1>6. Spurned(v, FirstFrame(w))
  BY <1>4, <1>5, OtherVersionIsSpurned
<1> QED BY <1>6, ActsOnAFrame

(* The beginning of a frame.                                               *)
LEMMA CutWaits ==
  ASSUME NEW o \in Seq(Byte), V2!WordAt(o, 3) = Len(o), NEW k \in 0 .. Len(o) - 1,
         NEW w, w = SubSeq(o, 1, k)
  PROVE  /\ Len(w) < 4 \/ (Declared(w) = Len(o) /\ Len(w) < Declared(w))
         /\ Len(w) \in Nat
<1>1. Len(o) \in Nat /\ k \in Nat /\ k < Len(o)
  OBVIOUS
<1>2. Len(w) = k /\ \A j \in 1..k : w[j] = o[j]
  BY <1>1
<1>3. ASSUME k >= 4 PROVE Declared(w) = Len(o)
  <2>1. w[3] = o[3] /\ w[3 + 1] = o[3 + 1]
    BY <1>1, <1>2, <1>3
  <2> QED BY <2>1 DEF Declared, V2!WordAt
<1> QED BY <1>1, <1>2, <1>3

LEMMA CutIsAwaited ==
  ASSUME CompilerInv, outcome = "compiled", NEW o, NEW type, NEW n, Reads(o, type, n),
         NEW k \in 0 .. Len(o) - 1, wire = SubSeq(o, 1, k)
  PROVE  /\ \A v \in {2, 3} : Served(v, wire) \notin Commands(v) /\ Probed(v, wire) # "taken"
         /\ IsAwaited
<1>1. /\ ReadAs(o, endpoint.version, type, n, endpoint.stream_id, meant.ts)
      /\ Shaped(meant.kind, endpoint.version, type, n)
  BY Zenon DEF Reads
<1>2. o \in Seq(Byte) /\ Len(o) = n /\ V2!WordAt(o, 3) = n
  BY <1>1, Zenon DEF ReadAs
<1>3. n \in Nat /\ 18 <= n /\ n <= 48 /\ (meant.kind = "command" => n = 18)
  BY <1>1, ShapeIs
<1>4. /\ Len(wire) < 4 \/ (Declared(wire) = n /\ Len(wire) < Declared(wire))
      /\ Len(wire) \in Nat
  BY <1>2, CutWaits
<1>5. \A v \in {2, 3} : Served(v, wire) \notin Commands(v) /\ Probed(v, wire) # "taken"
  BY <1>4, ActsOnAFrame
<1>6. ASSUME meant.kind = "command" PROVE Served(endpoint.version, wire) = "waits"
  <2>1. ~(18 > profile.max_command_frame_bytes)
    BY CommandsFit
  <2>2. Declared(wire) = n => ~(Declared(wire) > profile.max_command_frame_bytes)
    BY <1>3, <1>6, <2>1
  <2> QED BY ONLY <1>4, <2>2, Zenon DEF Served
<1>7. ASSUME meant.kind # "command" PROVE Probed(endpoint.version, wire) = "waits"
  <2>1. Limit = 4096 /\ V2!MIN_FRAME_BYTES = 16
    BY SMT DEF Limit, MAX_COMMAND_FRAME_BYTES, V2!MIN_FRAME_BYTES
  <2>2. ~(n > Limit) /\ ~(n < V2!MIN_FRAME_BYTES)
    BY ONLY <1>3, <2>1, SMT
  <2>3. Declared(wire) = n =>
          ~(Declared(wire) > Limit) /\ ~(Declared(wire) < V2!MIN_FRAME_BYTES)
    BY ONLY <2>2, Zenon
  <2> QED BY ONLY <1>4, <2>3, Zenon DEF Probed
<1> QED BY <1>5, <1>6, <1>7 DEF IsAwaited

(* A size byte that shrank is the damaged one: the type, the version and   *)
(* the identifier before and after it are as they were.                    *)
LEMMA ShrunkSize ==
  ASSUME NEW o \in Seq(Byte), NEW n, Len(o) = n, V2!WordAt(o, 3) = n, 18 <= n, n <= 48,
         NEW w, Damages(o, w)
  PROVE  /\ Declared(w) \in Nat
         /\ Declared(w) < n => w[2] = o[2]
<1>1. n \in Nat
  OBVIOUS
<1>2. w \in Seq(Byte) /\ Len(w) = n
  BY DEF Damages
<1>3. PICK i \in 1..n : \A j \in 1..n : j # i /\ j # i + 1 => w[j] = o[j]
  <2>1. \E i \in 1..Len(o) : \A j \in 1..Len(o) : j # i /\ j # i + 1 => w[j] = o[j]
    BY Zenon DEF Damages
  <2>2. Len(o) = n
    OBVIOUS
  <2> QED BY ONLY <2>1, <2>2, Zenon
<1>4. 2 \in 1..n /\ 3 \in 1..n /\ 3 + 1 \in 1..n /\ 3 + 1 = 4
  BY <1>1
<1>5. o[3] \in Nat /\ o[3 + 1] \in Nat /\ w[3] \in Nat /\ w[3 + 1] \in Nat
  <2>1. o[3] \in Byte /\ o[3 + 1] \in Byte /\ w[3] \in Byte /\ w[3 + 1] \in Byte
    BY <1>2, <1>4
  <2> QED BY <2>1, ByteIsNatural
<1>6. 256 * o[3] + o[3 + 1] = n /\ Declared(w) = 256 * w[3] + w[3 + 1]
  BY DEF Declared, V2!WordAt
<1> DEFINE a == o[3]
           b == o[3 + 1]
           c == w[3]
           d == w[3 + 1]
<1>7. Declared(w) \in Nat
  BY <1>5, <1>6, SMTT(40)
<1>8. ASSUME Declared(w) < n PROVE w[2] = o[2]
  <2>1. c # a \/ d # b
    BY <1>6, <1>8
  <2>2. a = 0 /\ c = 0
    <3>1. 256 * a + b = n /\ 256 * c + d < n
      BY <1>6, <1>8
    <3>2. a \in Nat /\ b \in Nat /\ c \in Nat /\ d \in Nat
      BY <1>5
    <3> HIDE DEF a, b, c, d
    <3> QED BY ONLY <1>1, <3>1, <3>2, n <= 48, SMT
  <2>3. w[3 + 1] # o[3 + 1]
    BY <2>1, <2>2
  <2>4. ~(3 + 1 # i /\ 3 + 1 # i + 1)
    BY <1>3, <1>4, <2>3
  <2>5. 2 # i /\ 2 # i + 1
    BY <1>3, <2>4
  <2> QED BY <1>3, <1>4, <2>5
<1> QED BY <1>7, <1>8

LEMMA BodyLength ==
  ASSUME NEW f \in Seq(Byte), NEW m \in Nat, m = Len(f), 16 <= m
  PROVE  Len(V2!body(f)) = m - 16 /\ Len(V3!body(f)) = m - 16
<1>1. Len(SubSeq(f, 15, m - 2)) = m - 16
  BY SMTT(40)
<1>2. /\ V2!body(f) = SubSeq(f, 14 + 1, m - 2) /\ V3!body(f) = SubSeq(f, 14 + 1, m - 2)
      /\ 14 + 1 = 15
  BY SMT DEF V2!body, V3!body, V2!FRAME_HEADER_BYTES, V3!FRAME_HEADER_BYTES
<1> QED BY ONLY <1>1, <1>2, Zenon

(* What is left to check when a reader cuts a shorter frame out.           *)
LEMMA ShorterIsSpurned ==
  ASSUME NEW kind, NEW e, NEW type, NEW n, Shaped(kind, e, type, n), NEW v \in {2, 3},
         NEW f \in Seq(Byte), Len(f) < n, 16 <= Len(f), f[2] = 16 * type + e
  PROVE  /\ Parsed(v, f) \notin Commands(v)
         /\ IsTaken(v, f) => v = e /\ kind = "header" /\ V2!checksum_matches(f)
<1>1. /\ e \in {2, 3} /\ n \in Nat /\ (kind = "command" => n = 18)
      /\ (kind # "command" => type # CommandCode(e))
      /\ (16 * type + e) % 16 = e /\ (16 * type + e) \div 16 = type
  BY ShapeIs
<1>2. f[2] % 16 = e /\ f[2] \div 16 = type
  <2>1. f[2] = 16 * type + e
    OBVIOUS
  <2> QED BY ONLY <1>1, <2>1, Zenon
<1> DEFINE m == Len(f)
<1>5. m \in Nat /\ 16 <= m /\ m < n
  OBVIOUS
<1> DEFINE k2 == Len(V2!body(f))
           k3 == Len(V3!body(f))
<1>6. k2 = m - 16 /\ k3 = m - 16
  BY <1>5, BodyLength
<1> HIDE DEF m, k2, k3
<1>7. n = 18 => m # 18
  BY ONLY <1>1, <1>5
<1>8. (n = 20 => k3 # 4) /\ (n = 46 => k2 # 30) /\ (n = 48 => k3 # 32)
  BY ONLY <1>5, <1>6, SMT
<1>3. CASE v # e
  <2>1. Spurned(v, f)
    BY <1>2, <1>3, OtherVersionIsSpurned
  <2> QED BY <2>1 DEF Spurned
<1>4. CASE v = e
  <2>1. Parsed(v, f) \notin Commands(v)
    <3>1. f[2] \div 16 # CommandCode(v) \/ Len(f) # 18
      <4>1. CASE kind = "command"
        BY ONLY <1>1, <1>7, <4>1, Zenon DEF m
      <4>2. CASE kind # "command"
        BY ONLY <1>1, <1>2, <1>4, <4>2, Zenon
      <4> QED BY <4>1, <4>2
    <3> QED BY ONLY <3>1, v \in {2, 3}, OthersAreNoCommands
  <2>2. IsTaken(v, f) => Decoded(v, f) /\ IsHandled(v, f)
    BY Zenon DEF IsTaken
  <2>4. CASE kind = "command"
    <3>1. (e = 2 /\ type = 4) \/ (e = 3 /\ type = 12)
      BY <2>4 DEF Shaped
    <3> QED BY ONLY <1>2, <1>4, <2>1, <2>2, <3>1, HandledIs, Zenon
  <2>5. CASE kind = "header"
    <3>1. e = 2
      BY <2>5 DEF Shaped
    <3>2. Decoded(2, f) => V2!checksum_matches(f)
      BY Zenon DEF Decoded, V2!decode_v2_frame
    <3> QED BY ONLY <1>4, <2>1, <2>2, <2>5, <3>1, <3>2, Zenon
  <2>6. CASE kind = "error"
    <3>1. e = 3 /\ type = 15 /\ n = 20
      BY <2>6 DEF Shaped
    <3>2. ~V3!decode_error_response(V3!body(f))
      <4>1. Len(V3!body(f)) # 4
        BY ONLY <1>8, <3>1, Zenon DEF k3
      <4> QED BY ONLY <4>1, Zenon DEF V3!decode_error_response
    <3> QED BY ONLY <1>2, <1>4, <2>1, <2>2, <3>1, <3>2, HandledIs, Zenon
  <2>7. CASE kind = "data"
    <3>1. (e = 2 /\ type = 0 /\ n = 46) \/ (e = 3 /\ type = 8 /\ n = 48)
      BY <2>7 DEF Shaped
    <3>2. n = 46 => ~V2!decode_periodic_data(f, Configuration, Rate)
      <4>1. n = 46 => Len(V2!body(f)) # 30
        BY ONLY <1>8, Zenon DEF k2
      <4> QED BY ONLY <4>1, Zenon DEF V2!decode_periodic_data
    <3>3. n = 48 => ~V3!decode_periodic_data(f, Configuration, Rate)
      <4>1. n = 48 => Len(V3!body(f)) # 32
        BY ONLY <1>8, Zenon DEF k3
      <4> QED BY ONLY <4>1, Zenon DEF V3!decode_periodic_data
    <3> QED BY ONLY <1>2, <1>4, <2>1, <2>2, <3>1, <3>2, <3>3, HandledIs, Zenon
  <2>8. kind \in {"command", "header", "error", "data"}
    BY Zenon DEF Shaped
  <2> QED BY <2>4, <2>5, <2>6, <2>7, <2>8
<1> QED BY <1>3, <1>4

LEMMA DamagedIsRefused ==
  ASSUME NEW v \in {2, 3}, NEW o, NEW type, NEW n, Reads(o, type, n), NEW w, Damages(o, w)
  PROVE  /\ Served(v, w) \notin Commands(v)
         /\ Probed(v, w) = "taken" =>
              /\ v = endpoint.version /\ meant.kind = "header"
              /\ Declared(w) < Len(w) /\ V2!checksum_matches(FirstFrame(w))
<1> DEFINE e == endpoint.version
           d == Declared(w)
           f == FirstFrame(w)
<1>1. /\ ReadAs(o, e, type, n, endpoint.stream_id, meant.ts)
      /\ Shaped(meant.kind, e, type, n)
  BY Zenon DEF Reads
<1>2. o \in Seq(Byte) /\ Len(o) = n /\ V2!WordAt(o, 3) = n /\ o[2] = 16 * type + e
  BY <1>1, Zenon DEF ReadAs
<1>3. n \in Nat /\ 18 <= n /\ n <= 48
  BY <1>1, ShapeIs
<1>4. w \in Seq(Byte) /\ Len(w) = n /\ ~V2!checksum_matches(w)
  BY <1>2 DEF Damages
<1>5. d \in Nat /\ (d < n => w[2] = o[2])
  BY <1>2, <1>3, ShrunkSize
<1>6. f = SubSeq(w, 1, d)
  BY DEF FirstFrame
<1> HIDE DEF d, f, e
<1>7. CASE d > n
  <2>1. Len(w) < Declared(w)
    BY <1>4, <1>7 DEF d
  <2> QED BY <2>1, ActsOnAFrame
<1>8. CASE d = n
  <2>1. f = w
    BY <1>4, <1>6, <1>8
  <2>2. Spurned(v, f)
    BY <1>4, <2>1, UnmatchedIsSpurned
  <2> QED BY <2>2, ActsOnAFrame DEF f
<1>9. CASE d < n
  <2>1. f \in Seq(Byte) /\ Len(f) = d
    BY <1>3, <1>4, <1>5, <1>6, <1>9
  <2>2. CASE d < 16
    <3>1. Spurned(v, f)
      BY <2>1, <2>2, ShortIsSpurned
    <3> QED BY <3>1, ActsOnAFrame DEF f
  <2>3. CASE ~(d < 16)
    <3>1. 16 <= Len(f) /\ Len(f) < n
      BY <1>5, <1>9, <2>1, <2>3
    <3>2. f[2] = 16 * type + e
      <4>1. f[2] = w[2]
        BY <1>4, <1>5, <1>6, <1>9, <2>3
      <4> QED BY <1>2, <1>5, <1>9, <4>1
    <3>3. /\ Parsed(v, f) \notin Commands(v)
          /\ IsTaken(v, f) => v = e /\ meant.kind = "header" /\ V2!checksum_matches(f)
      BY ONLY v \in {2, 3}, <1>1, <2>1, <3>1, <3>2, ShorterIsSpurned
    <3>4. Served(v, w) \notin Commands(v)
      BY <3>3, ActsOnAFrame DEF f, Spurned
    <3>5. Probed(v, w) = "taken" => IsTaken(v, f)
      BY <3>3, ActsOnAFrame DEF f, Spurned
    <3> QED BY ONLY <1>4, <1>9, <3>3, <3>4, <3>5, Zenon DEF e, d, f
  <2> QED BY <2>2, <2>3
<1> QED BY <1>3, <1>5, <1>7, <1>8, <1>9

(* Whatever the profile, the timestamps and the bytes that change, no      *)
(* reader of either version makes a command or a message of a frame one    *)
(* fault has damaged or cut: its CRC-16 tells every change of one or two   *)
(* adjacent bytes, and a frame whose size byte shrank is too short for its *)
(* type, but for a header that two of its characters sum up.  The reader   *)
(* of a cut one waits.  A whole one is left alone by the other version.    *)
THEOREM NothingSpoiltIsRead == ExchangeSpec => []SpoiltFramesAreRefused
<1>1. ExchangeInv => SpoiltFramesAreRefused
  <2>1. SUFFICES ASSUME ExchangeInv, meant # Nothing PROVE SpoiltFramesAreRefused
    BY DEF SpoiltFramesAreRefused
  <2>2. CompilerInv /\ outcome = "compiled"
    BY <2>1 DEF ExchangeInv
  <2>3. PICK o : Encoded(meant, o) /\ Arrived(o, fault, wire)
    BY <2>1 DEF ExchangeInv, OnWire
  <2>4. PICK type, n : Reads(o, type, n)
    BY <2>2, <2>3, WholeIsRead
  <2>5. ASSUME fault = "cut"
        PROVE  IsAwaited /\ \A v \in {2, 3} : IsRefused(v)
    <3>1. PICK k \in 0 .. Len(o) - 1 : wire = SubSeq(o, 1, k)
      BY <2>3, <2>5 DEF Arrived
    <3>2. /\ IsAwaited
          /\ \A v \in {2, 3} : Served(v, wire) \notin Commands(v) /\ Probed(v, wire) # "taken"
      BY <2>2, <2>4, <3>1, CutIsAwaited
    <3> QED BY <3>2, Zenon DEF IsRefused
  <2>6. ASSUME fault = "damaged", NEW v \in {2, 3} PROVE IsRefused(v)
    <3>1. Damages(o, wire)
      BY <2>3, <2>6 DEF Arrived
    <3>2. /\ Served(v, wire) \notin Commands(v)
          /\ Probed(v, wire) = "taken" =>
               /\ v = endpoint.version /\ meant.kind = "header"
               /\ Declared(wire) < Len(wire) /\ V2!checksum_matches(FirstFrame(wire))
      BY <2>4, <3>1, DamagedIsRefused
    <3> QED BY ONLY <2>6, <3>2, Zenon DEF IsRefused, IsShortenedHeader
  <2>7. ASSUME fault \notin {"cut", "damaged"}, NEW v \in {2, 3}, v # endpoint.version
        PROVE  IsRefused(v)
    <3>1. wire = o \/ wire = Append(o, V2!SYNC_BYTE)
      BY <2>3, <2>7, Zenon DEF Arrived
    <3>2. Served(v, wire) \notin Commands(v) /\ Probed(v, wire) # "taken"
      BY <2>4, <2>7, <3>1, OthersRefuse
    <3> QED BY ONLY <3>2, Zenon DEF IsRefused
  <2>8. WireVersions = {2, 3}
    BY DEF WireVersions
  <2> QED BY ONLY <2>5, <2>6, <2>7, <2>8, Zenon DEF SpoiltFramesAreRefused
<1> QED BY <1>1, ExchangeStarts, ExchangeContinues, PTL DEF ExchangeSpec

(* Whatever the profile, the names, the timestamps of the grid and the     *)
(* waveform, a frame that arrives whole is read by the other side as it    *)
(* was meant, with or without more behind it: an error of an offset, of a  *)
(* length or of a byte order in one of the two would show in a field.      *)
THEOREM WholeFramesAreRead == ExchangeSpec => []WholeFramesAreUnderstood
<1>1. ExchangeInv => WholeFramesAreUnderstood
  <2>1. SUFFICES ASSUME ExchangeInv, meant # Nothing, fault \in {"none", "joined"}
                 PROVE  Understood /\ ConfigurationIsUnderstood
    BY DEF WholeFramesAreUnderstood
  <2>2. CompilerInv /\ outcome = "compiled"
    BY <2>1 DEF ExchangeInv
  <2>3. PICK o : Encoded(meant, o) /\ Arrived(o, fault, wire)
    BY <2>1 DEF ExchangeInv, OnWire
  <2>4. PICK type, n : Reads(o, type, n)
    BY <2>2, <2>3, WholeIsRead
  <2>5. wire = IF fault = "joined" THEN Append(o, V2!SYNC_BYTE) ELSE o
    BY <2>1, <2>3 DEF Arrived
  <2> QED BY <2>2, <2>4, <2>5, WholeIsUnderstood, ConfigurationIsRead
<1> QED BY <1>1, ExchangeStarts, ExchangeContinues, PTL DEF ExchangeSpec
=============================================================================
