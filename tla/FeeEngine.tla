----------------------------- MODULE FeeEngine -----------------------------
(***************************************************************************)
(* The fee engine (services/fee-engine.js): what a transaction bids.  An   *)
(* estimate reads the settings from process.env, asks the RPC node for fee *)
(* statistics, and is clamped; it may be kept for a while and be returned  *)
(* to later calls.  Several jobs of a worker estimate at the same time.    *)
(*                                                                         *)
(* Numbers stand for the strings that env holds and the code parses to     *)
(* BigInt.  The multiplier and the percentile are constants here.          *)
(* ConfigPoller adds what changes env.                                     *)
(***************************************************************************)
EXTENDS Integers

CONSTANTS
  Default,             \* the value of a setting that env does not hold
  Environment,         \* the environments a process may start with
  MultiplierNum, MultiplierDen,
  Percentile,          \* STELLAR_FEE_PERCENTILE
  Stats,               \* fee statistics the RPC node may answer
  FeeOverride,         \* overrides a caller may pass
  Call,                \* estimates in progress or done
  NoEstimate

Unset == -2   \* an override that is undefined or null
Blank == -1   \* one that is empty or all blanks
Unused == {Unset, Blank}

\* Any other override is its fee, 0 standing for each that is no positive number.
Key == {"base", "min", "max", "override", "cacheMs"}
Value(k) == IF k = "override" THEN Nat \cup Unused ELSE Nat
Setting == {s \in [Key -> Nat \cup Unused] : \A k \in Key : s[k] \in Value(k)}

ASSUME FeeAssumption ==
  /\ Default \in Setting
  /\ \A e \in Environment : DOMAIN e \subseteq Key /\ \A k \in DOMAIN e : e[k] \in Value(k)
  /\ MultiplierNum \in Nat \ {0} /\ MultiplierDen \in Nat \ {0}
  /\ \A s \in Stats : {Percentile, "p70", "p80"} \subseteq DOMAIN s
                      /\ \A p \in DOMAIN s : s[p] \in Nat
  /\ FeeOverride \subseteq Nat \cup Unused

VARIABLES
  env,          \* the settings that process.env holds
  cached,       \* cachedEstimate
  call,         \* idle (not begun, or it threw), asking or returned
  config,       \* the settings that it read, Default of one that is idle
  result        \* the fee that it returned, 0 of one that has not

feeVars == <<cached, call, config, result>>

FeeInit == /\ env \in Environment
           /\ cached = NoEstimate
           /\ call = [c \in Call |-> "idle"]
           /\ config = [c \in Call |-> Default]
           /\ result = [c \in Call |-> 0]
-----------------------------------------------------------------------------
\* getFeeEngineConfig: an unset or empty setting has its default, a zero or a
\* minimum above the maximum throws.
Settings == [k \in Key |-> IF k \in DOMAIN env THEN env[k] ELSE Default[k]]

Usable(s) == s.base > 0 /\ s.min > 0 /\ s.max > 0 /\ s.min <= s.max

Clamp(fee, min, max) == IF fee < min THEN min ELSE IF fee > max THEN max ELSE fee

ApplyMultiplier(fee) == (fee * MultiplierNum + MultiplierDen - 1) \div MultiplierDen

\* A percentile that is missing or unusable is 0.  Without a p75 the mean of p70
\* and p80 is taken, rounded up.
PercentileFee(stats) ==
  IF stats[Percentile] > 0 THEN stats[Percentile]
  ELSE IF Percentile = "p75" /\ stats.p70 > 0 /\ stats.p80 > 0
       THEN (stats.p70 + stats.p80 + 1) \div 2
       ELSE 0

\* mutant: the multiplier is applied to the clamped fee
ClampedBeforeMultiplier(s, fee) ==
  ApplyMultiplier(Clamp(IF fee = 0 THEN s.base ELSE fee, s.min, s.max))

\* The fee for statistics that yield "fee"; the base fee where they yield none.
SelectedFee(s, fee) ==
  Clamp(ApplyMultiplier(IF fee = 0 THEN s.base ELSE fee), s.min, s.max)

OverrideFee(s, fee) == Clamp(fee, s.min, s.max)

\* mutant: the key has the price, not its bounds
KeyOfBaseOnly(s) == <<s.base>>

\* getCacheKey; the RPC URL, percentile and multiplier do not change here.
CacheKey(s) == <<s.base, s.min, s.max>>
-----------------------------------------------------------------------------
\* A call begins.  It is an invocation of its own each time.
Begins(c) == call[c] # "asking" /\ UNCHANGED env

\* The override of the caller comes before that of the environment, an empty one
\* included.
Override(o) == IF o # Unset THEN o ELSE Settings.override

\* The settings throw, or an override that is not a positive number does: the
\* call is over and has no fee.
EstimateThrows(c, o) ==
  /\ Begins(c)
  /\ ~Usable(Settings) \/ Override(o) = 0
  /\ call' = [call EXCEPT ![c] = "idle"]
  /\ config' = [config EXCEPT ![c] = Default]
  /\ result' = [result EXCEPT ![c] = 0]
  /\ UNCHANGED cached

Returns(c, fee) == /\ call' = [call EXCEPT ![c] = "returned"]
                   /\ result' = [result EXCEPT ![c] = fee]

ReadsSettings(c) == Usable(Settings) /\ config' = [config EXCEPT ![c] = Settings]

EstimateOverridden(c, o) ==
  /\ Begins(c) /\ ReadsSettings(c) /\ Override(o) > 0
  /\ Returns(c, OverrideFee(Settings, Override(o)))
  /\ UNCHANGED cached

Hit == /\ Settings.cacheMs > 0
       /\ cached # NoEstimate
       /\ cached.key = CacheKey(Settings)

EstimateCached(c, o) ==
  /\ Begins(c) /\ ReadsSettings(c) /\ Override(o) \in Unused /\ Hit
  /\ Returns(c, cached.fee)
  /\ UNCHANGED cached

\* await withTimeout(getCachedGetFeeStats()(client), timeoutMs)
EstimateAsks(c, o) ==
  /\ Begins(c) /\ ReadsSettings(c) /\ Override(o) \in Unused /\ ~Hit
  /\ call' = [call EXCEPT ![c] = "asking"]
  /\ result' = [result EXCEPT ![c] = 0]
  /\ UNCHANGED cached

\* After the await: the settings are those from before it; so is the key under
\* which the estimate is kept, although the cache may have been cleared meanwhile.
Settled(c, fee) ==
  LET selected == SelectedFee(config[c], fee) IN
  /\ Returns(c, selected)
  /\ cached' = IF config[c].cacheMs > 0 THEN [key |-> CacheKey(config[c]), fee |-> selected]
                                        ELSE cached

StatsArrive(c) ==
  /\ call[c] = "asking"
  /\ \E s \in Stats : Settled(c, PercentileFee(s))
  /\ UNCHANGED <<env, config>>

\* The node refuses, is not configured, or does not answer within the timeout.
StatsFail(c) ==
  /\ call[c] = "asking"
  /\ Settled(c, 0)
  /\ UNCHANGED <<env, config>>

\* The estimate reaches its age (expiresAt), or is taken for older than it is.
EstimateExpires ==
  /\ cached # NoEstimate
  /\ cached' = NoEstimate
  /\ UNCHANGED <<env, call, config, result>>

FeeStep ==
  \/ \E c \in Call :
        \/ \E o \in FeeOverride : \/ EstimateThrows(c, o) \/ EstimateOverridden(c, o)
                                 \/ EstimateCached(c, o) \/ EstimateAsks(c, o)
        \/ StatsArrive(c) \/ StatsFail(c)
  \/ EstimateExpires
=============================================================================
