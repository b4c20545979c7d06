------------------------ MODULE ConfigPoller_proofs ------------------------
(***************************************************************************)
(* Theorems about ConfigPoller and FeeEngine, for any settings, statistics *)
(* and configurations, any number of overlapping polls and of concurrent   *)
(* estimates, and any faults.                                              *)
(***************************************************************************)
EXTENDS ConfigPoller, TLAPS

-----------------------------------------------------------------------------
\* The arithmetic of the fee engine

\* applyMultiplier divides upwards: the fee times the multiplier, and less than
\* one stroop more (fee-engine.js:156-158).
THEOREM MultiplierRoundsUp ==
  ASSUME NEW fee \in Nat
  PROVE  /\ ApplyMultiplier(fee) \in Nat
         /\ ApplyMultiplier(fee) * MultiplierDen >= fee * MultiplierNum
         /\ ApplyMultiplier(fee) * MultiplierDen < fee * MultiplierNum + MultiplierDen
<1> DEFINE n == fee * MultiplierNum + MultiplierDen - 1
<1>1. MultiplierDen \in Nat \ {0} /\ fee * MultiplierNum \in Nat
  BY FeeAssumption
<1>2. n \in Nat
  BY <1>1
<1>3. ASSUME NEW a \in Nat, NEW d \in Nat \ {0}
      PROVE  /\ a \div d \in Nat /\ a % d \in 0..(d - 1)
             /\ a = d * (a \div d) + (a % d)
  BY <1>3
<1>4. n \div MultiplierDen \in Nat /\ n % MultiplierDen \in 0..(MultiplierDen - 1)
      /\ n = MultiplierDen * (n \div MultiplierDen) + (n % MultiplierDen)
  BY <1>1, <1>2, <1>3
<1>5. ApplyMultiplier(fee) = n \div MultiplierDen
  BY DEF ApplyMultiplier
<1> HIDE DEF n
<1>6. \A q \in Nat : MultiplierDen * q = q * MultiplierDen /\ q * MultiplierDen \in Nat
  BY <1>1
<1>7. n = fee * MultiplierNum + MultiplierDen - 1
  BY DEF n
<1>8. PICK q \in Nat : q = n \div MultiplierDen
  BY <1>4
<1>9. PICK r \in 0..(MultiplierDen - 1) : r = n % MultiplierDen
  BY <1>4
<1>10. PICK x \in Nat : x = fee * MultiplierNum
  BY <1>1
<1>11. PICK y \in Nat : y = q * MultiplierDen
  BY <1>6
<1>12. y + r = x + MultiplierDen - 1
  BY <1>4, <1>6, <1>7, <1>8, <1>9, <1>10, <1>11
<1>13. y >= x /\ y < x + MultiplierDen
  BY <1>1, <1>12
<1> QED
  BY <1>5, <1>8, <1>10, <1>11, <1>13

LEMMA ClampInRange ==
  ASSUME NEW fee \in Nat, NEW min \in Nat, NEW max \in Nat, min <= max
  PROVE  Clamp(fee, min, max) \in min..max
BY DEF Clamp

Quote == {0} \cup {PercentileFee(s) : s \in Stats}

LEMMA QuoteIsNat == Quote \subseteq Nat
<1> SUFFICES ASSUME NEW s \in Stats PROVE PercentileFee(s) \in Nat
  BY DEF Quote
<1>1. s[Percentile] \in Nat /\ s.p70 \in Nat /\ s.p80 \in Nat
  BY FeeAssumption
<1>2. (s.p70 + s.p80 + 1) \div 2 \in Nat
  BY <1>1
<1> QED
  BY <1>1, <1>2 DEF PercentileFee

LEMMA SettingFields ==
  ASSUME NEW s \in Setting
  PROVE  /\ s.base \in Nat /\ s.min \in Nat /\ s.max \in Nat /\ s.cacheMs \in Nat
         /\ s.override \in Nat \cup Unused
BY DEF Setting, Key, Value

LEMMA SelectedInRange ==
  ASSUME NEW s \in Setting, Usable(s), NEW fee \in Nat
  PROVE  /\ SelectedFee(s, fee) \in s.min .. s.max /\ SelectedFee(s, fee) \in Nat
         /\ OverrideFee(s, fee) \in s.min .. s.max /\ OverrideFee(s, fee) \in Nat
<1>1. s.base \in Nat /\ s.min \in Nat /\ s.max \in Nat /\ s.min <= s.max
  BY SettingFields DEF Usable
<1>2. ApplyMultiplier(IF fee = 0 THEN s.base ELSE fee) \in Nat
  BY <1>1, MultiplierRoundsUp
<1>3. SelectedFee(s, fee) \in s.min .. s.max
  BY <1>1, <1>2, ClampInRange DEF SelectedFee
<1>4. OverrideFee(s, fee) \in s.min .. s.max
  BY <1>1, ClampInRange DEF OverrideFee
<1> QED
  BY <1>1, <1>3, <1>4

\* What the cache key leaves out does not change the fee.
LEMMA KeyDeterminesFee ==
  ASSUME NEW s \in Setting, NEW t \in Setting, CacheKey(s) = CacheKey(t), NEW fee
  PROVE  SelectedFee(s, fee) = SelectedFee(t, fee)
BY DEF CacheKey, SelectedFee
-----------------------------------------------------------------------------
\* Estimates

EnvOK == DOMAIN env \subseteq Key /\ \A k \in DOMAIN env : env[k] \in Value(k)

\* A kept estimate is one that usable settings with its key have yielded.
CachedOK == \/ cached = NoEstimate
            \/ \E s \in Setting, q \in Quote :
                  Usable(s) /\ cached = [key |-> CacheKey(s), fee |-> SelectedFee(s, q)]

CallsOK == /\ call \in [Call -> {"idle", "asking", "returned"}]
           /\ config \in [Call -> Setting]
           /\ result \in [Call -> Nat]
           /\ \A c \in Call : call[c] \in {"asking", "returned"} => Usable(config[c])

FeeInv == EnvOK /\ CachedOK /\ CallsOK /\ FeeOfOwnSettings

\* What FeeOfOwnSettings says of one call.
OwnFee(s, fee) == \/ \E o \in FeeOverride \cup {s.override} : o > 0 /\ fee = OverrideFee(s, o)
                  \/ \E q \in Quote : fee = SelectedFee(s, q)

LEMMA OwnFeeDef == FeeOfOwnSettings <=>
                     \A c \in Call : call[c] = "returned" => OwnFee(config[c], result[c])
BY DEF FeeOfOwnSettings, OwnFee, Quote

LEMMA OwnFeeInRange ==
  ASSUME NEW s \in Setting, Usable(s), NEW fee, OwnFee(s, fee)
  PROVE  fee \in s.min .. s.max /\ fee \in Nat
<1>1. \A o \in FeeOverride \cup {s.override} : o > 0 => o \in Nat
  BY FeeAssumption, SettingFields DEF Unused, Unset, Blank
<1> QED
  BY <1>1, SelectedInRange, QuoteIsNat DEF OwnFee

LEMMA SettingsType == ASSUME EnvOK PROVE Settings \in Setting
<1>1. \A k : Value(k) \subseteq Nat \cup Unused
  BY DEF Value
<1>2. \A k \in Key : Settings[k] \in Value(k)
  BY FeeAssumption DEF EnvOK, Settings, Setting
<1> QED
  BY <1>1, <1>2 DEF Settings, Setting

\* A call returns a fee of the settings that it has read.
LEMMA ReturnKeeps ==
  ASSUME CallsOK, FeeOfOwnSettings, NEW c \in Call, NEW s \in Setting, Usable(s),
         NEW fee, OwnFee(s, fee), Returns(c, fee),
         config' = [config EXCEPT ![c] = s]
  PROVE  CallsOK' /\ FeeOfOwnSettings'
<1>1. fee \in Nat
  BY OwnFeeInRange
<1>2. CallsOK'
  BY <1>1 DEF CallsOK, Returns
<1>3. \A d \in Call : call'[d] = "returned" => OwnFee(config'[d], result'[d])
  <2> TAKE d \in Call
  <2>1. CASE d = c
    BY <2>1 DEF Returns, CallsOK
  <2>2. CASE d # c
    BY <2>2, OwnFeeDef DEF Returns, CallsOK
  <2> QED
    BY <2>1, <2>2
<1>4. FeeOfOwnSettings'
  BY <1>3 DEF FeeOfOwnSettings, OwnFee, Quote
<1> QED
  BY <1>2, <1>4

LEMMA SettledKeeps ==
  ASSUME FeeInv, NEW c \in Call, call[c] = "asking", NEW q \in Quote, Settled(c, q),
         UNCHANGED <<env, config>>
  PROVE  FeeInv'
<1>1. config[c] \in Setting /\ Usable(config[c]) /\ config' = [config EXCEPT ![c] = config[c]]
  BY DEF FeeInv, CallsOK
<1>2. OwnFee(config[c], SelectedFee(config[c], q))
  BY DEF OwnFee
<1>3. CallsOK' /\ FeeOfOwnSettings'
  BY <1>1, <1>2, ReturnKeeps DEF FeeInv, Settled
<1>4. CachedOK'
  BY <1>1 DEF FeeInv, CachedOK, Settled
<1>5. EnvOK'
  BY DEF FeeInv, EnvOK
<1> QED
  BY <1>3, <1>4, <1>5 DEF FeeInv

LEMMA FeeStepKeeps == ASSUME FeeInv, FeeStep PROVE FeeInv' /\ env' = env
<1> DEFINE s == Settings
<1>1. s \in Setting
  BY SettingsType DEF FeeInv
<1> HIDE DEF s
<1>2. ASSUME NEW c \in Call, NEW o \in FeeOverride, EstimateThrows(c, o)
      PROVE  FeeInv' /\ env' = env
  <2> USE <1>2 DEF EstimateThrows, Begins
  <2>1. CallsOK'
    BY FeeAssumption DEF FeeInv, CallsOK
  <2>2. \A d \in Call : call'[d] = "returned" => d # c /\ call[d] = "returned"
    BY DEF FeeInv, CallsOK
  <2>3. \A d \in Call : d # c => config'[d] = config[d] /\ result'[d] = result[d]
    BY DEF FeeInv, CallsOK
  <2>4. FeeOfOwnSettings'
    BY <2>2, <2>3 DEF FeeInv, FeeOfOwnSettings
  <2> QED
    BY <2>1, <2>4 DEF FeeInv, EnvOK, CachedOK
<1>3. ASSUME NEW c \in Call, NEW o \in FeeOverride, EstimateOverridden(c, o)
      PROVE  FeeInv' /\ env' = env
  <2>1. Usable(s) /\ config' = [config EXCEPT ![c] = s]
    BY <1>3 DEF EstimateOverridden, ReadsSettings, s
  <2>2. Override(o) > 0 /\ Returns(c, OverrideFee(s, Override(o)))
    BY <1>3 DEF EstimateOverridden, s
  <2>3. OwnFee(s, OverrideFee(s, Override(o)))
    BY <2>2 DEF OwnFee, Override, s
  <2>4. CallsOK' /\ FeeOfOwnSettings'
    BY <1>1, <2>1, <2>2, <2>3, ReturnKeeps DEF FeeInv
  <2> QED
    BY <1>3, <2>4 DEF FeeInv, EnvOK, CachedOK, EstimateOverridden, Begins
<1>4. ASSUME NEW c \in Call, NEW o \in FeeOverride, EstimateCached(c, o)
      PROVE  FeeInv' /\ env' = env
  <2>1. Usable(s) /\ config' = [config EXCEPT ![c] = s] /\ Returns(c, cached.fee)
    BY <1>4 DEF EstimateCached, ReadsSettings, s
  <2>2. cached # NoEstimate /\ cached.key = CacheKey(s)
    BY <1>4 DEF EstimateCached, Hit, s
  <2>3. PICK t \in Setting, q \in Quote :
          cached = [key |-> CacheKey(t), fee |-> SelectedFee(t, q)]
    BY <2>2 DEF FeeInv, CachedOK
  <2>4. cached.fee = SelectedFee(s, q)
    BY <1>1, <2>2, <2>3, KeyDeterminesFee
  <2>5. OwnFee(s, cached.fee)
    BY <2>4 DEF OwnFee
  <2>6. CallsOK' /\ FeeOfOwnSettings'
    BY <1>1, <2>1, <2>5, ReturnKeeps DEF FeeInv
  <2> QED
    BY <1>4, <2>6 DEF FeeInv, EnvOK, CachedOK, EstimateCached, Begins
<1>5. ASSUME NEW c \in Call, NEW o \in FeeOverride, EstimateAsks(c, o)
      PROVE  FeeInv' /\ env' = env
  <2> USE <1>5 DEF EstimateAsks, Begins
  <2>1. Usable(s) /\ config' = [config EXCEPT ![c] = s]
    BY DEF ReadsSettings, s
  <2>2. CallsOK'
    BY <1>1, <2>1 DEF FeeInv, CallsOK
  <2>3. \A d \in Call : call'[d] = "returned" => d # c /\ call[d] = "returned"
    BY DEF FeeInv, CallsOK
  <2>4. \A d \in Call : d # c => config'[d] = config[d] /\ result'[d] = result[d]
    BY <2>1 DEF FeeInv, CallsOK
  <2>5. FeeOfOwnSettings'
    BY <2>3, <2>4 DEF FeeInv, FeeOfOwnSettings
  <2> QED
    BY <2>2, <2>5 DEF FeeInv, EnvOK, CachedOK
<1>6. ASSUME NEW c \in Call, StatsArrive(c) PROVE FeeInv' /\ env' = env
  <2>1. PICK stats \in Stats : Settled(c, PercentileFee(stats))
    BY <1>6 DEF StatsArrive
  <2>2. PercentileFee(stats) \in Quote
    BY DEF Quote
  <2> QED
    BY <1>6, <2>1, <2>2, SettledKeeps DEF StatsArrive
<1>7. ASSUME NEW c \in Call, StatsFail(c) PROVE FeeInv' /\ env' = env
  <2>1. 0 \in Quote
    BY DEF Quote
  <2> QED
    BY <1>7, <2>1, SettledKeeps DEF StatsFail
<1>8. CASE EstimateExpires
  BY <1>8 DEF EstimateExpires, FeeInv, EnvOK, CachedOK, CallsOK, FeeOfOwnSettings
<1> QED
  BY <1>2, <1>3, <1>4, <1>5, <1>6, <1>7, <1>8 DEF FeeStep

LEMMA FeeUnchanged == ASSUME FeeInv, UNCHANGED <<env, feeVars>> PROVE FeeInv'
BY DEF feeVars, FeeInv, EnvOK, CachedOK, CallsOK, FeeOfOwnSettings

LEMMA ApplyKeeps ==
  ASSUME FeeInv, NEW source \in Source, NEW v \in 1..Len(Content[source]),
         ApplyConfig(source, v)
  PROVE  FeeInv'
<1>1. EnvOK'
  BY PollerAssumption DEF FeeInv, EnvOK, ApplyConfig, Merge
<1>2. CachedOK' /\ CallsOK' /\ FeeOfOwnSettings'
  BY DEF ApplyConfig, FeeInv, CachedOK, CallsOK, FeeOfOwnSettings
<1> QED
  BY <1>1, <1>2 DEF FeeInv
-----------------------------------------------------------------------------
\* The connection

Stage == {"idle", "signature", "payload", "hash"}
Command == [poll : Poll, reply : Nat \cup {Unread}]
Field == {"signature", "payload", "unsigned"}
Awaited(st) == IF st = "hash" THEN "unsigned" ELSE st

\* Each command is that of a poll which waits for it and for no other, and what
\* was read for it is not newer than what Redis holds.
WireFor(w, st, r) ==
  /\ w \in Seq(Command)
  /\ \A i \in 1..Len(w) : /\ st[w[i].poll] # "idle"
                          /\ w[i].reply # Unread => w[i].reply \in 0..r[Awaited(st[w[i].poll])]
  /\ \A i, j \in 1..Len(w) : w[i].poll = w[j].poll => i = j

LEMMA CommandFields == \A c \in Command : c.poll \in Poll /\ c.reply \in Nat \cup {Unread}
BY DEF Command

LEMMA WireElements == ASSUME NEW w \in Seq(Command), NEW i \in 1..Len(w) PROVE w[i] \in Command
OBVIOUS

LEMMA EmptyWire == ASSUME NEW st, NEW r PROVE WireFor(<<>>, st, r)
BY DEF WireFor

LEMMA SendKeeps ==
  ASSUME NEW w, NEW st \in [Poll -> Stage], NEW r, WireFor(w, st, r), NEW p \in Poll,
         \A i \in 1..Len(w) : w[i].poll # p, NEW x \in Stage \ {"idle"}
  PROVE  WireFor(Send(p, w), [st EXCEPT ![p] = x], r)
<1> DEFINE c == [poll |-> p, reply |-> Unread]
<1> DEFINE v == Send(p, w)
<1>1. c \in Command /\ w \in Seq(Command)
  BY DEF WireFor, Command
<1>2. v = Append(w, c)
  BY DEF Send
<1> HIDE DEF c, v
<1>3. v \in Seq(Command) /\ Len(v) = Len(w) + 1 /\ v[Len(w) + 1] = c
      /\ \A i \in 1..Len(w) : v[i] = w[i]
  BY <1>1, <1>2
<1>4. c.poll = p /\ c.reply = Unread
  BY DEF c
<1>5. \A i \in 1..Len(w) : w[i].poll \in Poll
  BY <1>1, WireElements, CommandFields
<1>6. ASSUME NEW i \in 1..Len(v)
      PROVE  /\ [st EXCEPT ![p] = x][v[i].poll] # "idle"
             /\ v[i].reply # Unread => v[i].reply \in 0..r[Awaited([st EXCEPT ![p] = x][v[i].poll])]
  <2>1. CASE i = Len(w) + 1
    BY <1>3, <1>4, <2>1
  <2>2. CASE i \in 1..Len(w)
    <3>1. v[i].poll # p /\ v[i] = w[i] /\ [st EXCEPT ![p] = x][v[i].poll] = st[w[i].poll]
      BY <1>3, <1>5, <2>2
    <3> QED
      BY <2>2, <3>1 DEF WireFor
  <2> QED
    BY <1>1, <1>3, <2>1, <2>2
<1>7. ASSUME NEW i \in 1..Len(v), NEW j \in 1..Len(v), v[i].poll = v[j].poll
      PROVE  i = j
  <2>1. \A k \in 1..Len(v) : k = Len(w) + 1 \/ k \in 1..Len(w)
    BY <1>1, <1>3
  <2> QED
    BY <1>3, <1>4, <1>7, <2>1 DEF WireFor
<1> QED
  BY <1>3, <1>6, <1>7 DEF WireFor, v

LEMMA TailKeeps ==
  ASSUME NEW w, NEW st \in [Poll -> Stage], NEW r, WireFor(w, st, r), w # <<>>, NEW x \in Stage
  PROVE  /\ WireFor(Tail(w), [st EXCEPT ![Head(w).poll] = x], r)
         /\ \A i \in 1..Len(Tail(w)) : Tail(w)[i].poll # Head(w).poll
<1> DEFINE v == Tail(w)
<1>1. w \in Seq(Command)
  BY DEF WireFor
<1>2. /\ v \in Seq(Command) /\ Len(v) = Len(w) - 1 /\ Head(w) = w[1] /\ Len(w) \in Nat \ {0}
      /\ \A i \in 1..Len(v) : v[i] = w[i + 1] /\ i + 1 \in 1..Len(w)
  BY <1>1
<1> HIDE DEF v
<1>3. \A i \in 1..Len(v) : v[i].poll # Head(w).poll /\ v[i].poll \in Poll
  <2> TAKE i \in 1..Len(v)
  <2>1. i + 1 # 1 /\ i + 1 \in 1..Len(w) /\ 1 \in 1..Len(w) /\ v[i] = w[i + 1]
    BY <1>2
  <2>2. v[i].poll \in Poll
    BY <1>1, <2>1, WireElements, CommandFields
  <2> QED
    BY <1>2, <2>1, <2>2 DEF WireFor
<1>4. ASSUME NEW i \in 1..Len(v)
      PROVE  /\ [st EXCEPT ![Head(w).poll] = x][v[i].poll] # "idle"
             /\ v[i].reply # Unread =>
                  v[i].reply \in 0..r[Awaited([st EXCEPT ![Head(w).poll] = x][v[i].poll])]
  <2>1. [st EXCEPT ![Head(w).poll] = x][v[i].poll] = st[v[i].poll]
    BY <1>3
  <2>2. v[i] = w[i + 1] /\ i + 1 \in 1..Len(w)
    BY <1>2
  <2> QED
    BY <2>1, <2>2 DEF WireFor
<1>5. ASSUME NEW i \in 1..Len(v), NEW j \in 1..Len(v), v[i].poll = v[j].poll
      PROVE  i = j
  <2>1. i + 1 = j + 1
    BY <1>2, <1>5 DEF WireFor
  <2> QED
    BY <1>2, <2>1
<1> QED
  BY <1>2, <1>3, <1>4, <1>5 DEF WireFor, v
-----------------------------------------------------------------------------
\* The poller

RedisType == redis \in [signature : Version("signed"), payload : Version("signed"),
                        unsigned : Version("unsigned")]

PollType ==
  /\ RedisType
  /\ expired \subseteq Version("signed")
  /\ mode \in Mode
  /\ polling \in {"unstarted", "first", "interval", "off"}
  /\ stopping \in BOOLEAN
  /\ stage \in [Poll -> Stage]
  /\ signature \in [Poll -> Version("signed")]
  /\ applied \in [Source -> Nat]

MessagesOK == /\ messages \in Seq(Source \X Nat)
              /\ \A i \in 1..Len(messages) : messages[i][2] \in 1..Len(Content[messages[i][1]])
              /\ mode = "direct" => messages = <<>>

SignaturesOK == \A p \in Poll : signature[p] <= redis.signature

PollInv == /\ PollType /\ MessagesOK /\ SignaturesOK
           /\ WireFor(wire, stage, redis)
           /\ AppliedWasSigned

Inv == FeeInv /\ PollInv /\ SettingsUsable

LEMMA ContentLength == \A source \in Source : Len(Content[source]) \in Nat
BY PollerAssumption

LEMMA RedisFields ==
  ASSUME RedisType
  PROVE  /\ redis.signature \in Nat /\ redis.signature <= Len(Content.signed)
         /\ redis.payload \in Nat /\ redis.payload <= Len(Content.signed)
         /\ redis.unsigned \in Nat /\ redis.unsigned <= Len(Content.unsigned)
BY ContentLength DEF RedisType, Version, Source

LEMMA InitInv == Init => Inv
<1> SUFFICES ASSUME Init PROVE Inv
  OBVIOUS
<1> USE DEF Init
<1>1. FeeInv
  BY FeeAssumption DEF FeeInit, FeeInv, EnvOK, CachedOK, CallsOK, FeeOfOwnSettings
<1>2. \A source \in Source : 0 \in Version(source)
  BY ContentLength DEF Version
<1>3. PollType
  <2>1. stopping \in BOOLEAN
    BY Zenon
  <2>2. RedisType /\ signature \in [Poll -> Version("signed")]
    BY <1>2 DEF RedisType, Source
  <2>3. applied \in [Source -> Nat] /\ stage \in [Poll -> Stage]
    BY DEF Stage
  <2> QED
    BY <2>1, <2>2, <2>3 DEF PollType
<1>4. MessagesOK /\ SignaturesOK /\ AppliedWasSigned /\ SettingsUsable
  BY DEF MessagesOK, SignaturesOK, AppliedWasSigned, SettingsUsable, Source
<1> QED
  BY <1>1, <1>3, <1>4, EmptyWire DEF Inv, PollInv

\* A complete configuration leaves usable settings, whatever they were before.
LEMMA ApplyUsable ==
  ASSUME NEW source \in Source, NEW v \in 1..Len(Content[source]), ApplyConfig(source, v)
  PROVE  SettingsUsable'
<1> SUFFICES ASSUME Complete PROVE Usable(Settings')
  BY DEF SettingsUsable, Complete, Usable, Settings
<1> DEFINE content == Content[source][v]
<1>1. {"base", "min", "max"} \subseteq DOMAIN content /\ Usable(content)
  BY DEF Complete
<1>2. \A k \in {"base", "min", "max"} : Settings'[k] = content[k]
  BY <1>1 DEF Settings, Key, ApplyConfig, Merge
<1> QED
  BY <1>1, <1>2 DEF Usable

LEMMA FoundKeeps ==
  ASSUME Inv, NEW source \in Source, NEW v \in 1..Len(Content[source]), Found(source, v),
         mode = "direct" /\ source = "signed" => v <= redis.signature /\ v <= redis.payload,
         UNCHANGED <<redis, mode>>
  PROVE  FeeInv' /\ SettingsUsable' /\ MessagesOK' /\ AppliedWasSigned'
         /\ applied' \in [Source -> Nat]
<1>0. v \in Nat
  BY ContentLength
<1>1. CASE mode = "direct"
  <2>1. ApplyConfig(source, v) /\ messages' = messages
    BY <1>1 DEF Found
  <2>2. applied' = [applied EXCEPT ![source] = v] /\ applied \in [Source -> Nat]
    BY <2>1 DEF ApplyConfig, Inv, PollInv, PollType
  <2>3. AppliedWasSigned'
    BY <1>1, <2>2 DEF AppliedWasSigned, Inv, PollInv, Source
  <2>4. MessagesOK'
    BY <2>1 DEF MessagesOK, Inv, PollInv
  <2> QED
    BY <1>0, <2>1, <2>2, <2>3, <2>4, ApplyKeeps, ApplyUsable DEF Inv
<1>2. CASE mode # "direct"
  <2>1. messages' = Append(messages, <<source, v>>) /\ UNCHANGED <<env, feeVars, applied>>
    BY <1>2 DEF Found
  <2>2. messages \in Seq(Source \X Nat) /\ <<source, v>> \in Source \X Nat
    BY <1>0 DEF Inv, PollInv, MessagesOK
  <2>3. /\ messages' \in Seq(Source \X Nat) /\ Len(messages') = Len(messages) + 1
        /\ \A i \in 1..Len(messages) : messages'[i] = messages[i]
        /\ messages'[Len(messages) + 1] = <<source, v>>
    BY <2>1, <2>2
  <2>4. ASSUME NEW i \in 1..Len(messages')
        PROVE  messages'[i][2] \in 1..Len(Content[messages'[i][1]])
    <3>1. i = Len(messages) + 1 \/ i \in 1..Len(messages)
      BY <2>2, <2>3
    <3> QED
      BY <2>3, <3>1 DEF Inv, PollInv, MessagesOK
  <2>5. MessagesOK'
    BY <1>2, <2>3, <2>4 DEF MessagesOK
  <2>6. AppliedWasSigned' /\ SettingsUsable' /\ applied' \in [Source -> Nat]
    BY <1>2, <2>1 DEF AppliedWasSigned, SettingsUsable, Settings, Inv, PollInv, PollType
  <2> QED
    BY <2>1, <2>5, <2>6, FeeUnchanged DEF Inv
<1> QED
  BY <1>1, <1>2

LEMMA NothingFoundKeeps ==
  ASSUME Inv, NothingFound, mode' = mode,
         redis'.signature >= redis.signature, redis'.payload >= redis.payload,
         RedisType, RedisType'
  PROVE  FeeInv' /\ SettingsUsable' /\ MessagesOK' /\ AppliedWasSigned'
         /\ applied' \in [Source -> Nat]
<1> USE DEF NothingFound
<1>1. FeeInv'
  BY FeeUnchanged DEF Inv
<1>2. SettingsUsable' /\ MessagesOK' /\ applied' \in [Source -> Nat]
  BY DEF Inv, PollInv, PollType, SettingsUsable, Settings, MessagesOK
<1>3. applied.signed \in Nat
  BY DEF Inv, PollInv, PollType, Source
<1>4. AppliedWasSigned'
  <2>1. redis.signature \in Nat /\ redis.payload \in Nat
    BY RedisFields
  <2>2. redis'.signature \in Nat /\ redis'.payload \in Nat
    BY ContentLength DEF RedisType, Version, Source
  <2> QED
    BY <1>3, <2>1, <2>2 DEF Inv, PollInv, AppliedWasSigned
<1> QED
  BY <1>1, <1>2, <1>4

\* What was read for the first command, when it is answered.
LEMMA AnsweredCommand ==
  ASSUME Inv, NEW p \in Poll, Answered(p)
  PROVE  /\ wire # <<>> /\ stage[p] # "idle" /\ Head(wire).poll = p
         /\ Head(wire).reply \in 0..redis[Awaited(stage[p])]
<1>1. wire \in Seq(Command) /\ wire # <<>>
  BY DEF Inv, PollInv, WireFor, Answered
<1>2. Head(wire) = wire[1] /\ 1 \in 1..Len(wire)
  BY <1>1
<1>3. wire[1].poll = p /\ wire[1].reply # Unread
  BY <1>2 DEF Answered
<1> QED
  BY <1>1, <1>2, <1>3 DEF Inv, PollInv, WireFor

LEMMA EndsKeeps ==
  ASSUME Inv, NEW p \in Poll, Answered(p), Ends(p)
  PROVE  /\ WireFor(wire', stage', redis') /\ SignaturesOK'
         /\ stage' \in [Poll -> Stage] /\ signature' \in [Poll -> Version("signed")]
         /\ polling' \in {"unstarted", "first", "interval", "off"}
<1> USE DEF Inv, PollInv, PollType
<1>1. "idle" \in Stage /\ 0 \in Version("signed")
  BY ContentLength DEF Stage, Version, Source
<1>2. stage' \in [Poll -> Stage] /\ signature' \in [Poll -> Version("signed")]
  BY <1>1 DEF Ends
<1>3. WireFor(Tail(wire), [stage EXCEPT ![p] = "idle"], redis)
  BY <1>1, AnsweredCommand, TailKeeps
<1>4. WireFor(wire', stage', redis')
  BY <1>3 DEF Ends
<1>5. polling' \in {"unstarted", "first", "interval", "off"}
  BY DEF Ends
<1>6. SignaturesOK'
  BY RedisFields DEF Ends, SignaturesOK
<1> QED
  BY <1>2, <1>4, <1>5, <1>6

LEMMA ContinuesKeeps ==
  ASSUME Inv, NEW p \in Poll, Answered(p), NEW x \in Stage \ {"idle"}, Continues(p, x)
  PROVE  WireFor(wire', stage', redis') /\ stage' \in [Poll -> Stage]
<1> DEFINE st == [stage EXCEPT ![p] = x]
<1>1. st \in [Poll -> Stage] /\ [st EXCEPT ![p] = x] = st
  BY DEF Inv, PollInv, PollType
<1>2. /\ WireFor(Tail(wire), st, redis)
      /\ \A i \in 1..Len(Tail(wire)) : Tail(wire)[i].poll # p
  BY AnsweredCommand, TailKeeps DEF Inv, PollInv, PollType
<1> HIDE DEF st
<1>3. WireFor(Send(p, Tail(wire)), [st EXCEPT ![p] = x], redis)
  BY <1>1, <1>2, SendKeeps, Zenon
<1> QED
  BY <1>1, <1>3 DEF Continues, st

\* What Redis holds only grows.
LEMMA WireGrows ==
  ASSUME NEW w, NEW st \in [Poll -> Stage], NEW r, NEW n, WireFor(w, st, r),
         \A f \in Field : r[f] \in Nat /\ n[f] \in Nat /\ r[f] <= n[f]
  PROVE  WireFor(w, st, n)
<1>1. \A i \in 1..Len(w) : st[w[i].poll] \in Stage \ {"idle"}
  BY WireElements, CommandFields DEF WireFor
<1>2. \A x \in Stage \ {"idle"} : Awaited(x) \in Field
  BY DEF Stage, Awaited, Field
<1>3. ASSUME NEW i \in 1..Len(w), w[i].reply # Unread
      PROVE  w[i].reply \in 0..n[Awaited(st[w[i].poll])]
  <2>1. Awaited(st[w[i].poll]) \in Field
    BY <1>1, <1>2
  <2>2. w[i].reply \in 0..r[Awaited(st[w[i].poll])]
    BY <1>3 DEF WireFor
  <2> QED
    BY <2>1, <2>2
<1> QED
  BY <1>3 DEF WireFor

\* A publication: Redis holds more than before, and nothing else changes.
LEMMA PublicationKeeps ==
  ASSUME Inv, RedisType', UNCHANGED <<env, feeVars, expired, pollVars>>,
         \A f \in Field : redis'[f] >= redis[f]
  PROVE  Inv'
<1> USE DEF pollVars
<1>1. RedisType /\ stage \in [Poll -> Stage] /\ WireFor(wire, stage, redis)
  BY DEF Inv, PollInv, PollType
<1>2. \A f \in Field : redis[f] \in Nat /\ redis'[f] \in Nat /\ redis[f] <= redis'[f]
  BY <1>1, ContentLength DEF RedisType, Version, Source, Field
<1>3. WireFor(wire', stage', redis')
  BY <1>1, <1>2, WireGrows
<1>4. FeeInv' /\ SettingsUsable' /\ MessagesOK' /\ AppliedWasSigned'
  BY <1>1, NothingFoundKeeps DEF NothingFound, Field
<1>5. SignaturesOK'
  <2>1. \A p \in Poll : signature[p] \in Nat /\ signature[p] <= redis.signature
    BY ContentLength DEF Inv, PollInv, PollType, SignaturesOK, Version, Source
  <2>2. redis.signature \in Nat /\ redis'.signature \in Nat /\ redis.signature <= redis'.signature
    BY <1>2 DEF Field
  <2> QED
    BY <2>1, <2>2 DEF SignaturesOK
<1>6. PollType'
  BY DEF Inv, PollInv, PollType
<1> QED
  BY <1>3, <1>4, <1>5, <1>6 DEF Inv, PollInv

\* A step of the connection or of the life of the poller, which finds nothing.
LEMMA ConnectionKeeps ==
  ASSUME Inv, UNCHANGED <<env, feeVars, redis, mode, messages, applied>>,
         expired' \subseteq Version("signed"),
         polling' \in {"unstarted", "first", "interval", "off"}, stopping' \in BOOLEAN,
         stage' \in [Poll -> Stage], signature' \in [Poll -> Version("signed")],
         SignaturesOK', WireFor(wire', stage', redis')
  PROVE  Inv'
<1>1. RedisType /\ RedisType' /\ redis.signature \in Nat /\ redis.payload \in Nat
  BY RedisFields DEF Inv, PollInv, PollType, RedisType
<1>2. FeeInv' /\ SettingsUsable' /\ MessagesOK' /\ AppliedWasSigned' /\ applied' \in [Source -> Nat]
  BY <1>1, NothingFoundKeeps DEF NothingFound
<1>3. PollType'
  BY <1>1, <1>2 DEF Inv, PollInv, PollType
<1> QED
  BY <1>2, <1>3 DEF Inv, PollInv

LEMMA StartPollKeeps ==
  ASSUME Inv, NEW p \in Poll, StartPoll(p),
         polling' \in {"unstarted", "first", "interval", "off"}
  PROVE  Inv'
<1> USE DEF StartPoll
<1>1. stage \in [Poll -> Stage] /\ WireFor(wire, stage, redis) /\ "signature" \in Stage \ {"idle"}
  BY DEF Inv, PollInv, PollType, Stage
<1>2. \A i \in 1..Len(wire) : wire[i].poll # p
  BY <1>1 DEF WireFor
<1>3. WireFor(wire', stage', redis')
  BY <1>1, <1>2, SendKeeps
<1>4. stage' \in [Poll -> Stage]
  BY <1>1
<1>5. /\ expired' \subseteq Version("signed") /\ stopping' \in BOOLEAN
      /\ signature' \in [Poll -> Version("signed")] /\ SignaturesOK'
  BY DEF Inv, PollInv, PollType, SignaturesOK
<1> QED
  BY <1>3, <1>4, <1>5, ConnectionKeeps

LEMMA ServeKeeps == ASSUME Inv, Serve PROVE Inv'
<1> USE DEF Inv, PollInv, PollType
<1>1. PICK i \in Unserved : wire' = [wire EXCEPT ![i].reply = Stored(wire[i].poll)]
  BY DEF Serve
<1>2. UNCHANGED <<env, feeVars, redis, expired, mode, polling, stopping, stage, signature,
                  messages, applied>>
  BY DEF Serve
<1>3. wire \in Seq(Command) /\ i \in 1..Len(wire)
  BY <1>1 DEF WireFor, Unserved
<1>4. wire[i] \in Command /\ wire[i].poll \in Poll
  BY <1>3, WireElements, CommandFields
<1>5. Stored(wire[i].poll) = redis[Awaited(stage[wire[i].poll])]
  BY DEF Stored, Awaited
<1>6. stage[wire[i].poll] \in Stage \ {"idle"}
  BY <1>3, <1>4 DEF WireFor
<1>7. Stored(wire[i].poll) \in Nat
  BY <1>5, <1>6, RedisFields DEF Stage, Awaited
<1>8. \A c \in Command, n \in Nat : [c EXCEPT !.reply = n] \in Command
  BY DEF Command
<1>9. [wire[i] EXCEPT !.reply = Stored(wire[i].poll)] \in Command
  BY <1>4, <1>7, <1>8
<1>10. wire' \in Seq(Command) /\ Len(wire') = Len(wire)
       /\ \A j \in 1..Len(wire) : j # i => wire'[j] = wire[j]
  BY <1>1, <1>3, <1>9
<1>11. wire'[i].poll = wire[i].poll /\ wire'[i].reply = Stored(wire[i].poll)
  BY <1>1, <1>3, <1>4 DEF Command
<1>12. \A j \in 1..Len(wire) : wire'[j].poll = wire[j].poll
  BY <1>10, <1>11
<1>13. \A j \in 1..Len(wire') :
         wire'[j].reply # Unread => wire'[j].reply \in 0..redis[Awaited(stage[wire'[j].poll])]
  <2> TAKE j \in 1..Len(wire')
  <2>1. CASE j = i
    BY <1>5, <1>7, <1>11, <1>12, <1>3, <2>1
  <2>2. CASE j # i
    BY <1>10, <2>2 DEF WireFor
  <2> QED
    BY <2>1, <2>2
<1>14. WireFor(wire', stage, redis)
  BY <1>10, <1>12, <1>13 DEF WireFor
<1>15. SignaturesOK' /\ WireFor(wire', stage', redis')
  BY <1>2, <1>14 DEF SignaturesOK
<1> QED
  BY <1>2, <1>15, ConnectionKeeps

LEMMA ReconnectKeeps == ASSUME Inv, Reconnect PROVE Inv'
<1> USE DEF Inv, PollInv, PollType
<1>1. wire' = [i \in DOMAIN wire |-> [wire[i] EXCEPT !.reply = Unread]]
  BY DEF Reconnect
<1>2. UNCHANGED <<env, feeVars, redis, expired, mode, polling, stopping, stage, signature,
                  messages, applied>>
  BY DEF Reconnect
<1>3. wire \in Seq(Command)
  BY DEF WireFor
<1>4. \A c \in Command : /\ [c EXCEPT !.reply = Unread] \in Command
                         /\ [c EXCEPT !.reply = Unread].poll = c.poll
                         /\ [c EXCEPT !.reply = Unread].reply = Unread
  BY DEF Command
<1>5. wire' \in Seq(Command) /\ Len(wire') = Len(wire)
      /\ \A i \in 1..Len(wire) : wire'[i].poll = wire[i].poll /\ wire'[i].reply = Unread
  <2>1. \A i \in 1..Len(wire) : wire[i] \in Command
    BY <1>3, WireElements
  <2>2. Len(wire) \in Nat /\ DOMAIN wire = 1..Len(wire)
    BY <1>3
  <2>3. DOMAIN wire' = 1..Len(wire)
        /\ \A i \in 1..Len(wire) : wire'[i] = [wire[i] EXCEPT !.reply = Unread]
    BY <1>1, <2>2
  <2>4. \A i \in 1..Len(wire) : /\ wire'[i] \in Command /\ wire'[i].poll = wire[i].poll
                                /\ wire'[i].reply = Unread
    <3> TAKE i \in 1..Len(wire)
    <3>1. wire[i] \in Command
      BY <2>1
    <3>2. /\ [wire[i] EXCEPT !.reply = Unread] \in Command
          /\ [wire[i] EXCEPT !.reply = Unread].poll = wire[i].poll
          /\ [wire[i] EXCEPT !.reply = Unread].reply = Unread
      <4> HIDE DEF Inv, PollInv, PollType
      <4> DEFINE c == wire[i]
      <4>1. c \in Command
        BY <3>1
      <4> HIDE DEF c
      <4>2. /\ [c EXCEPT !.reply = Unread] \in Command
            /\ [c EXCEPT !.reply = Unread].poll = c.poll
            /\ [c EXCEPT !.reply = Unread].reply = Unread
        BY <4>1, <1>4
      <4> QED
        BY <4>2 DEF c
    <3>3. wire'[i] = [wire[i] EXCEPT !.reply = Unread]
      BY <2>3
    <3> QED
      <4> HIDE DEF Inv, PollInv, PollType
      <4> QED
        BY <3>2, <3>3, Zenon
  <2>5. wire' \in [1..Len(wire) -> Command]
    BY <1>1, <2>2, <2>4
  <2>6. wire' \in Seq(Command) /\ Len(wire') = Len(wire)
    BY <2>2, <2>5
  <2> QED
    BY <2>4, <2>6
<1>6. WireFor(wire', stage, redis)
  BY <1>5 DEF WireFor
<1>7. SignaturesOK' /\ WireFor(wire', stage', redis')
  BY <1>2, <1>6 DEF SignaturesOK
<1> QED
  BY <1>2, <1>7, ConnectionKeeps

\* Stop and ThreadDies: nothing is left of the polls in progress.
LEMMA DropKeeps ==
  ASSUME Inv, UNCHANGED <<env, feeVars, redis, expired, mode, messages, applied>>,
         polling' \in {"interval", "off"}, stopping' \in BOOLEAN,
         stage' = [p \in Poll |-> "idle"], signature' = [p \in Poll |-> 0], wire' = <<>>
  PROVE  Inv'
<1>1. 0 \in Version("signed") /\ "idle" \in Stage
  BY ContentLength DEF Version, Source, Stage
<1>2. redis'.signature \in Nat
  BY RedisFields DEF Inv, PollInv, PollType
<1>3. SignaturesOK'
  BY <1>2 DEF SignaturesOK
<1>4. WireFor(wire', stage', redis')
  BY EmptyWire
<1>5. stage' \in [Poll -> Stage] /\ signature' \in [Poll -> Version("signed")]
      /\ expired' \subseteq Version("signed")
  BY <1>1 DEF Inv, PollInv, PollType
<1>6. polling' \in {"unstarted", "first", "interval", "off"}
  OBVIOUS
<1> QED
  BY <1>3, <1>4, <1>5, <1>6, ConnectionKeeps

\* A poll that ends, and what it has found.
LEMMA EndsWith ==
  ASSUME Inv, NEW p \in Poll, Answered(p), Ends(p),
         FeeInv', SettingsUsable', MessagesOK', AppliedWasSigned', applied' \in [Source -> Nat]
  PROVE  Inv'
<1>1. UNCHANGED <<redis, expired, mode, stopping>>
  BY DEF Ends
<1>2. PollType'
  BY <1>1, EndsKeeps DEF Inv, PollInv, PollType, RedisType
<1> QED
  BY <1>2, EndsKeeps DEF Inv, PollInv

LEMMA AnswerKeeps == ASSUME Inv, NEW p \in Poll, Answer(p) PROVE Inv'
<1>1. RedisType /\ stage \in [Poll -> Stage] /\ signature \in [Poll -> Version("signed")]
  BY DEF Inv, PollInv, PollType
<1>2. CASE SignatureRead(p)
  <2>1. Answered(p) /\ stage[p] = "signature" /\ Continues(p, "payload") /\ NothingFound
        /\ signature' = [signature EXCEPT ![p] = Head(wire).reply]
    BY <1>2 DEF SignatureRead
  <2>2. Head(wire).reply \in 0..redis.signature
    BY <2>1, AnsweredCommand DEF Awaited
  <2>3. Head(wire).reply \in Version("signed")
    BY <1>1, <2>2, RedisFields, ContentLength DEF Version, Source
  <2>4. WireFor(wire', stage', redis') /\ stage' \in [Poll -> Stage]
    BY <2>1, ContinuesKeeps DEF Stage
  <2>5. SignaturesOK' /\ signature' \in [Poll -> Version("signed")]
    BY <1>1, <2>1, <2>2, <2>3 DEF SignaturesOK, Continues, Inv, PollInv
  <2>6. UNCHANGED <<redis, expired, mode, polling, stopping>>
    BY <2>1 DEF Continues
  <2>7. UNCHANGED <<env, feeVars, redis, mode, messages, applied>>
    BY <2>1, <2>6 DEF NothingFound
  <2>8. /\ expired' \subseteq Version("signed") /\ stopping' \in BOOLEAN
        /\ polling' \in {"unstarted", "first", "interval", "off"}
    BY <2>6 DEF Inv, PollInv, PollType
  <2> QED
    BY <2>4, <2>5, <2>7, <2>8, ConnectionKeeps
<1>3. CASE PayloadRead(p)
  <2> DEFINE payload == Head(wire).reply
  <2>1. Answered(p) /\ stage[p] = "payload"
    BY <1>3 DEF PayloadRead
  <2>2. payload \in 0..redis.payload
    BY <2>1, AnsweredCommand DEF Awaited
  <2> HIDE DEF payload
  <2>3. CASE Accepted(signature[p], payload) /\ Found("signed", payload) /\ Ends(p)
    <3>1. payload \in 1..Len(Content["signed"]) /\ "signed" \in Source
      BY <1>1, <2>2, <2>3, RedisFields DEF Accepted, Source
    <3>2. mode = "direct" => payload <= redis.signature /\ payload <= redis.payload
      <4>1. signature[p] <= redis.signature
        BY DEF Inv, PollInv, SignaturesOK
      <4> QED
        BY <1>1, <2>2, <2>3, <4>1, RedisFields DEF Accepted, Verified
    <3>3. UNCHANGED <<redis, mode>>
      BY <2>3 DEF Ends
    <3>4. FeeInv' /\ SettingsUsable' /\ MessagesOK' /\ AppliedWasSigned'
          /\ applied' \in [Source -> Nat]
      BY <2>3, <3>1, <3>2, <3>3, FoundKeeps
    <3> QED
      BY <2>1, <2>3, <3>4, EndsWith
  <2>4. CASE Continues(p, "hash") /\ NothingFound /\ UNCHANGED signature
    <3>1. WireFor(wire', stage', redis') /\ stage' \in [Poll -> Stage]
      BY <2>1, <2>4, ContinuesKeeps DEF Stage
    <3>2. UNCHANGED <<redis, expired, mode, polling, stopping>>
      BY <2>4 DEF Continues
    <3>3. UNCHANGED <<env, feeVars, redis, mode, messages, applied>>
      BY <2>4, <3>2 DEF NothingFound
    <3>4. /\ expired' \subseteq Version("signed") /\ stopping' \in BOOLEAN
          /\ polling' \in {"unstarted", "first", "interval", "off"}
          /\ SignaturesOK' /\ signature' \in [Poll -> Version("signed")]
      BY <2>4, <3>2 DEF Inv, PollInv, PollType, SignaturesOK
    <3> QED
      BY <3>1, <3>3, <3>4, ConnectionKeeps
  <2> QED
    BY <1>3, <2>3, <2>4 DEF PayloadRead, payload
<1>4. CASE HashRead(p)
  <2> DEFINE hash == Head(wire).reply
  <2>1. Answered(p) /\ stage[p] = "hash" /\ Ends(p)
    BY <1>4 DEF HashRead
  <2>2. hash \in 0..redis.unsigned
    BY <2>1, AnsweredCommand DEF Awaited
  <2>3. UNCHANGED <<redis, mode>>
    BY <2>1 DEF Ends
  <2> HIDE DEF hash
  <2>4. CASE hash # 0 /\ Found("unsigned", hash)
    <3>1. hash \in 1..Len(Content["unsigned"]) /\ "unsigned" \in Source
      BY <1>1, <2>2, <2>4, RedisFields DEF Source
    <3>2. FeeInv' /\ SettingsUsable' /\ MessagesOK' /\ AppliedWasSigned'
          /\ applied' \in [Source -> Nat]
      BY <2>3, <2>4, <3>1, FoundKeeps
    <3> QED
      BY <2>1, <3>2, EndsWith
  <2>5. CASE NothingFound
    <3>1. RedisType' /\ redis'.signature >= redis.signature /\ redis'.payload >= redis.payload
      BY <1>1, <2>3, RedisFields DEF RedisType
    <3>2. FeeInv' /\ SettingsUsable' /\ MessagesOK' /\ AppliedWasSigned'
          /\ applied' \in [Source -> Nat]
      BY <1>1, <2>3, <2>5, <3>1, NothingFoundKeeps
    <3> QED
      BY <2>1, <3>2, EndsWith
  <2> QED
    BY <1>4, <2>4, <2>5 DEF HashRead, hash
<1>5. CASE CommandFails(p)
  <2>1. Answered(p) /\ Ends(p) /\ NothingFound /\ UNCHANGED <<redis, mode>>
    BY <1>5 DEF CommandFails, Ends
  <2>2. RedisType' /\ redis'.signature >= redis.signature /\ redis'.payload >= redis.payload
    BY <1>1, <2>1, RedisFields DEF RedisType
  <2>3. FeeInv' /\ SettingsUsable' /\ MessagesOK' /\ AppliedWasSigned' /\ applied' \in [Source -> Nat]
    BY <1>1, <2>1, <2>2, NothingFoundKeeps
  <2> QED
    BY <2>1, <2>3, EndsWith
<1> QED
  BY <1>2, <1>3, <1>4, <1>5 DEF Answer

LEMMA MessageKeeps == ASSUME Inv, MessageArrives PROVE Inv'
<1> DEFINE m == Head(messages)
<1> USE DEF MessageArrives
<1>1. messages \in Seq(Source \X Nat) /\ messages # <<>> /\ mode # "direct"
  BY DEF Inv, PollInv, MessagesOK
<1>2. m = messages[1] /\ 1 \in 1..Len(messages)
      /\ Tail(messages) \in Seq(Source \X Nat)
      /\ \A i \in 1..Len(Tail(messages)) : Tail(messages)[i] = messages[i + 1]
                                         /\ i + 1 \in 1..Len(messages)
  BY <1>1
<1>3. m \in Source \X Nat
  BY <1>1, <1>2
<1>4. m[1] \in Source /\ m[2] \in 1..Len(Content[m[1]]) /\ m[2] \in Nat
  BY <1>2, <1>3 DEF Inv, PollInv, MessagesOK
<1>5. ApplyConfig(m[1], m[2])
  OBVIOUS
<1> HIDE DEF m
<1>6. FeeInv' /\ SettingsUsable'
  BY <1>4, <1>5, ApplyKeeps, ApplyUsable DEF Inv
<1>7. MessagesOK'
  BY <1>1, <1>2 DEF Inv, PollInv, MessagesOK
<1>8. applied' \in [Source -> Nat]
  BY <1>4, <1>5 DEF ApplyConfig, Inv, PollInv, PollType
<1>9. AppliedWasSigned'
  BY <1>1 DEF AppliedWasSigned
<1>10. PollType' /\ SignaturesOK' /\ WireFor(wire', stage', redis')
  BY <1>8 DEF Inv, PollInv, PollType, RedisType, SignaturesOK
<1> QED
  BY <1>6, <1>7, <1>9, <1>10 DEF Inv, PollInv

LEMMA NextKeeps == ASSUME Inv, [Next]_vars PROVE Inv'
<1>0. RedisType
  BY DEF Inv, PollInv, PollType
<1>1. CASE PublishPayload \/ PublishSignature \/ PublishUnsigned
  <2>1. UNCHANGED <<env, feeVars, expired, pollVars>>
    BY <1>1 DEF PublishPayload, PublishSignature, PublishUnsigned
  <2>2. RedisType' /\ \A f \in Field : redis'[f] >= redis[f]
    <3>1. \/ redis.payload < Len(Content.signed) /\ redis' = [redis EXCEPT !.payload = @ + 1]
          \/ redis.signature < Len(Content.signed) /\ redis' = [redis EXCEPT !.signature = @ + 1]
          \/ redis.unsigned < Len(Content.unsigned) /\ redis' = [redis EXCEPT !.unsigned = @ + 1]
      BY <1>1 DEF PublishPayload, PublishSignature, PublishUnsigned
    <3> QED
      BY <1>0, <3>1, RedisFields, ContentLength DEF RedisType, Version, Source, Field
  <2> QED
    BY <2>1, <2>2, PublicationKeeps
<1>2. CASE Expire
  <2>1. redis.signature \in Version("signed")
    BY <1>0 DEF RedisType
  <2>2. expired' \subseteq Version("signed") /\ UNCHANGED <<env, feeVars, redis, pollVars>>
    BY <1>2, <2>1 DEF Expire, Inv, PollInv, PollType
  <2>3. UNCHANGED <<env, feeVars, redis, mode, messages, applied>>
    BY <2>2 DEF pollVars
  <2>4. /\ polling' \in {"unstarted", "first", "interval", "off"} /\ stopping' \in BOOLEAN
        /\ stage' \in [Poll -> Stage] /\ signature' \in [Poll -> Version("signed")]
        /\ SignaturesOK' /\ WireFor(wire', stage', redis')
    BY <2>2 DEF pollVars, Inv, PollInv, PollType, SignaturesOK
  <2> QED
    BY <2>2, <2>3, <2>4, ConnectionKeeps
<1>3. CASE Start
  BY <1>3, StartPollKeeps DEF Start
<1>4. CASE Tick
  BY <1>4, StartPollKeeps DEF Tick
<1>5. CASE Serve
  BY <1>5, ServeKeeps
<1>6. CASE Reconnect
  BY <1>6, ReconnectKeeps
<1>7. CASE MessageArrives
  BY <1>7, MessageKeeps
<1>8. CASE Stop
  <2>1. stopping' \in BOOLEAN
    BY <1>8, Zenon DEF Stop
  <2>2. polling' \in {"interval", "off"}
    BY <1>8 DEF Stop
  <2> QED
    BY <1>8, <2>1, <2>2, DropKeeps DEF Stop
<1>9. CASE ThreadDies
  <2>1. stopping' \in BOOLEAN
    BY <1>9 DEF ThreadDies, Inv, PollInv, PollType
  <2> QED
    BY <1>9, <2>1, DropKeeps DEF ThreadDies
<1>10. CASE \E p \in Poll : Answer(p)
  BY <1>10, AnswerKeeps
<1>11. CASE FeeStep /\ UNCHANGED <<redis, expired, pollVars>>
  <2>1. FeeInv' /\ env' = env
    BY <1>11, FeeStepKeeps DEF Inv
  <2>2. PollInv' /\ SettingsUsable'
    BY <1>11, <2>1 DEF Inv, PollInv, PollType, RedisType, MessagesOK, SignaturesOK, pollVars,
                       AppliedWasSigned, SettingsUsable, Settings
  <2> QED
    BY <2>1, <2>2 DEF Inv
<1>12. CASE UNCHANGED vars
  <2>1. FeeInv'
    BY <1>12, FeeUnchanged DEF vars, Inv
  <2>2. PollInv' /\ SettingsUsable'
    BY <1>12 DEF vars, Inv, PollInv, PollType, RedisType, MessagesOK, SignaturesOK, pollVars,
                 AppliedWasSigned, SettingsUsable, Settings
  <2> QED
    BY <2>1, <2>2 DEF Inv
<1> QED
  BY <1>1, <1>2, <1>3, <1>4, <1>5, <1>6, <1>7, <1>8, <1>9, <1>10, <1>11, <1>12 DEF Next
-----------------------------------------------------------------------------
\* The invariant holds in every reachable state of poller and fee engine.
THEOREM Invariance == Spec => []Inv
<1> QED
  BY InitInv, NextKeeps, PTL DEF Spec

\* Every variable of the poller and of the fee engine keeps the values it may have.
THEOREM TypeCorrect == Spec => []TypeOK
<1>1. Inv => TypeOK
  <2> SUFFICES ASSUME Inv PROVE TypeOK
    OBVIOUS
  <2> USE DEF Inv
  <2>1. cached = NoEstimate \/ (cached.fee \in Nat /\ cached.key \in Nat \X Nat \X Nat)
    <3>1. ASSUME NEW s \in Setting, NEW q \in Quote, Usable(s)
          PROVE  SelectedFee(s, q) \in Nat /\ CacheKey(s) \in Nat \X Nat \X Nat
      <4>1. SelectedFee(s, q) \in Nat
        BY <3>1, SelectedInRange, QuoteIsNat
      <4>2. CacheKey(s) \in Nat \X Nat \X Nat
        BY SettingFields DEF CacheKey
      <4> QED
        BY <4>1, <4>2
    <3> QED
      BY <3>1 DEF FeeInv, CachedOK
  <2>2. wire \in Seq([poll : Poll, reply : Nat \cup {Unread}])
    BY DEF PollInv, WireFor, Command
  <2>3. applied \in [Source -> Nat] /\ messages \in Seq(Source \X Nat)
    BY DEF PollInv, PollType, MessagesOK
  <2> QED
    BY <2>1, <2>2, <2>3 DEF TypeOK, FeeInv, EnvOK, CallsOK, PollInv, PollType, RedisType, Stage
<1> QED
  BY <1>1, Invariance, PTL

\* Every fee that is returned is one of the settings its call has read, whatever
\* the poller did to the environment and to the cache meanwhile.
THEOREM FeeOfOwnSettingsHolds == Spec => []FeeOfOwnSettings
<1>1. Inv => FeeOfOwnSettings
  BY DEF Inv, FeeInv
<1> QED
  BY <1>1, Invariance, PTL

\* Every fee that is returned is within the bounds its call has read.
THEOREM FeeWithinBoundsHolds == Spec => []FeeWithinBounds
<1>1. Inv => FeeWithinBounds
  BY OwnFeeDef, OwnFeeInRange DEF Inv, FeeInv, CallsOK, FeeWithinBounds
<1> QED
  BY <1>1, Invariance, PTL

\* Complete configurations keep the settings usable.
THEOREM SettingsUsableHolds == Spec => []SettingsUsable
<1>1. Inv => SettingsUsable
  BY DEF Inv
<1> QED
  BY <1>1, Invariance, PTL

\* A signed configuration is applied under its own signature only.
THEOREM AppliedWasSignedHolds == Spec => []AppliedWasSigned
<1>1. Inv => AppliedWasSigned
  BY DEF Inv, PollInv
<1> QED
  BY <1>1, Invariance, PTL
-----------------------------------------------------------------------------
\* The order of what is read, posted and applied

\* What a poll waits for when it reads the configuration of a source.
StageOf(source) == IF source = "signed" THEN "payload" ELSE "hash"
Held(source) == redis[Awaited(StageOf(source))]

\* Nothing newer has been applied or posted.
NotBefore(source, v) ==
  /\ applied[source] <= v
  /\ \A k \in 1..Len(messages) : messages[k][1] = source => messages[k][2] <= v

\* Of the commands for one key, which are answered in their order, a later one is
\* not answered with an older version.
ReadInOrder ==
  \A i, j \in 1..Len(wire) : i < j /\ wire[j].reply # Unread =>
    /\ wire[i].reply # Unread
    /\ stage[wire[i].poll] = stage[wire[j].poll] => wire[i].reply <= wire[j].reply

PostedInOrder ==
  \A k \in 1..Len(messages) :
    /\ applied[messages[k][1]] <= messages[k][2]
    /\ \A l \in 1..Len(messages) :
         k < l /\ messages[k][1] = messages[l][1] => messages[k][2] <= messages[l][2]

ReadLater ==
  \A i \in 1..Len(wire), source \in Source :
    wire[i].reply # Unread /\ stage[wire[i].poll] = StageOf(source)
      => NotBefore(source, wire[i].reply)

HeldLast == \A source \in Source : NotBefore(source, Held(source))

Order == ReadInOrder /\ PostedInOrder /\ ReadLater /\ HeldLast

\* The types that the order is stated over.
LEMMA OrderTypes ==
  ASSUME Inv
  PROVE  /\ Len(wire) \in Nat /\ Len(messages) \in Nat
         /\ \A i \in 1..Len(wire) : /\ wire[i].poll \in Poll
                                    /\ wire[i].reply \in Nat \cup {Unread}
         /\ \A k \in 1..Len(messages) : messages[k][1] \in Source /\ messages[k][2] \in Nat
         /\ \A source \in Source : applied[source] \in Nat /\ Held(source) \in Nat
<1>1. wire \in Seq(Command) /\ messages \in Seq(Source \X Nat)
  BY DEF Inv, PollInv, WireFor, MessagesOK
<1>2. \A i \in 1..Len(wire) : wire[i].poll \in Poll /\ wire[i].reply \in Nat \cup {Unread}
  BY <1>1, WireElements, CommandFields
<1>3. \A k \in 1..Len(messages) : messages[k][1] \in Source /\ messages[k][2] \in Nat
  <2> TAKE k \in 1..Len(messages)
  <2>1. messages[k] \in Source \X Nat
    BY <1>1
  <2> QED BY <2>1
<1>4. applied \in [Source -> Nat]
  BY DEF Inv, PollInv, PollType
<1>5. \A source \in Source : Held(source) \in Nat
  BY RedisFields DEF Inv, PollInv, PollType, Held, Awaited, StageOf
<1> QED BY <1>1, <1>2, <1>3, <1>4, <1>5

\* Nothing that is read for a source is newer than what Redis holds.
LEMMA ReadWasHeld ==
  ASSUME Inv, NEW i \in 1..Len(wire), wire[i].reply # Unread
  PROVE  wire[i].reply \in Nat /\ wire[i].reply <= redis[Awaited(stage[wire[i].poll])]
         /\ redis[Awaited(stage[wire[i].poll])] \in Nat
<1>1. wire[i].reply \in 0..redis[Awaited(stage[wire[i].poll])] /\ stage[wire[i].poll] # "idle"
  BY DEF Inv, PollInv, WireFor
<1>2. wire[i].poll \in Poll
  BY OrderTypes
<1>3. stage[wire[i].poll] \in Stage \ {"idle"}
  BY <1>1, <1>2 DEF Inv, PollInv, PollType
<1>4. redis[Awaited(stage[wire[i].poll])] \in Nat
  BY <1>3, RedisFields DEF Inv, PollInv, PollType, Stage, Awaited
<1> QED BY <1>1, <1>4

\* The commands move to the front by shift places, and what follows is not answered.
WireMoves(shift) ==
  \A i \in 1..Len(wire') :
    \/ /\ i + shift \in 1..Len(wire)
       /\ wire'[i].reply = wire[i + shift].reply
       /\ stage'[wire'[i].poll] = stage[wire[i + shift].poll]
    \/ i + shift > Len(wire) /\ wire'[i].reply = Unread

\* Moving along the wire keeps the order of what was read.
LEMMA MovesInOrder ==
  ASSUME Inv, Inv', ReadInOrder, NEW shift \in {0, 1}, WireMoves(shift)
  PROVE  ReadInOrder'
<1>1. Len(wire) \in Nat /\ Len(wire') \in Nat
  BY OrderTypes DEF Inv, PollInv, WireFor
<1> SUFFICES ASSUME NEW i \in 1..Len(wire'), NEW j \in 1..Len(wire'), i < j,
                    wire'[j].reply # Unread
             PROVE  /\ wire'[i].reply # Unread
                    /\ stage'[wire'[i].poll] = stage'[wire'[j].poll] =>
                         wire'[i].reply <= wire'[j].reply
  BY DEF ReadInOrder
<1>2. /\ j + shift \in 1..Len(wire)
      /\ wire'[j].reply = wire[j + shift].reply
      /\ stage'[wire'[j].poll] = stage[wire[j + shift].poll]
  BY DEF WireMoves
<1>3. i + shift \in 1..Len(wire) /\ i + shift < j + shift
  BY <1>1, <1>2
<1>4. /\ wire'[i].reply = wire[i + shift].reply
      /\ stage'[wire'[i].poll] = stage[wire[i + shift].poll]
  BY <1>1, <1>3 DEF WireMoves
<1> QED BY <1>2, <1>3, <1>4 DEF ReadInOrder

\* What is on the wire after a move is as new as it was.
LEMMA MovesLater ==
  ASSUME ReadLater, NEW shift \in {0, 1}, WireMoves(shift), UNCHANGED <<messages, applied>>
  PROVE  ReadLater'
<1> SUFFICES ASSUME NEW i \in 1..Len(wire'), NEW source \in Source,
                    wire'[i].reply # Unread, stage'[wire'[i].poll] = StageOf(source)
             PROVE  NotBefore(source, wire'[i].reply)
  BY DEF ReadLater, NotBefore, StageOf
<1>1. /\ i + shift \in 1..Len(wire)
      /\ wire'[i].reply = wire[i + shift].reply
      /\ stage'[wire'[i].poll] = stage[wire[i + shift].poll]
  BY DEF WireMoves
<1> QED BY <1>1 DEF ReadLater

\* What is held grows, and what is applied and posted stays.
LEMMA HeldGrows ==
  ASSUME Inv, Inv', PostedInOrder, HeldLast, UNCHANGED <<messages, applied>>,
         \A source \in Source : Held(source)' >= Held(source)
  PROVE  PostedInOrder' /\ HeldLast'
<1>1. PostedInOrder'
  BY DEF PostedInOrder
<1>2. HeldLast'
  <2> SUFFICES ASSUME NEW source \in Source PROVE NotBefore(source, Held(source)')
    BY DEF HeldLast, NotBefore
  <2>1. /\ Held(source) \in Nat /\ Held(source)' \in Nat /\ Held(source)' >= Held(source)
        /\ applied[source] \in Nat
        /\ \A k \in 1..Len(messages) : messages[k][2] \in Nat
    <3>1. Held(source)' \in Nat
      BY RedisFields DEF Inv, PollInv, PollType, Held, Awaited, StageOf, RedisType, Version, Source
    <3> QED BY <3>1, OrderTypes
  <2>2. NotBefore(source, Held(source))
    BY DEF HeldLast
  <2> QED BY <2>1, <2>2 DEF NotBefore
<1> QED BY <1>1, <1>2

\* Polls in progress that have read nothing.
LEMMA NothingRead ==
  ASSUME \A i \in 1..Len(wire') : wire'[i].reply = Unread
  PROVE  ReadInOrder' /\ ReadLater'
BY DEF ReadInOrder, ReadLater

\* A poll begins, at the end of the wire.
LEMMA StartMoves == ASSUME Inv, NEW p \in Poll, StartPoll(p) PROVE WireMoves(0)
<1> DEFINE c == [poll |-> p, reply |-> Unread]
<1>1. wire \in Seq(Command) /\ c \in Command
  BY DEF Inv, PollInv, WireFor, Command
<1>2. wire' = Append(wire, c) /\ stage[p] = "idle" /\ stage' = [stage EXCEPT ![p] = "signature"]
  BY DEF StartPoll, Send
<1>3. c.reply = Unread
  OBVIOUS
<1> HIDE DEF c
<1>4. /\ Len(wire) \in Nat /\ Len(wire') = Len(wire) + 1 /\ wire'[Len(wire) + 1] = c
      /\ \A i \in 1..Len(wire) : wire'[i] = wire[i]
  BY <1>1, <1>2
<1> SUFFICES ASSUME NEW i \in 1..Len(wire')
             PROVE  \/ /\ i + 0 \in 1..Len(wire)
                       /\ wire'[i].reply = wire[i + 0].reply
                       /\ stage'[wire'[i].poll] = stage[wire[i + 0].poll]
                    \/ i + 0 > Len(wire) /\ wire'[i].reply = Unread
  BY DEF WireMoves
<1>5. CASE i = Len(wire) + 1
  BY <1>3, <1>4, <1>5
<1>6. CASE i \in 1..Len(wire)
  <2>1. wire'[i] = wire[i] /\ i + 0 = i
    BY <1>4, <1>6
  <2>2. stage[wire[i].poll] # "idle" /\ wire[i].poll \in Poll
    BY <1>6, OrderTypes DEF Inv, PollInv, WireFor
  <2>3. stage'[wire[i].poll] = stage[wire[i].poll]
    BY <1>2, <2>2 DEF Inv, PollInv, PollType
  <2> QED BY <1>6, <2>1, <2>3
<1> QED BY <1>4, <1>5, <1>6

\* The first command is answered, and its poll ends or sends its next one.
LEMMA AnswerMoves ==
  ASSUME Inv, NEW p \in Poll, Answered(p), NEW x, stage' = [stage EXCEPT ![p] = x],
         wire' = Tail(wire) \/ wire' = Send(p, Tail(wire))
  PROVE  WireMoves(1)
<1> DEFINE c == [poll |-> p, reply |-> Unread]
<1>1. wire \in Seq(Command) /\ wire # <<>> /\ c \in Command /\ Head(wire).poll = p
  BY DEF Inv, PollInv, WireFor, Command, Answered
<1>2. wire' = Tail(wire) \/ wire' = Append(Tail(wire), c)
  BY DEF Send
<1>3. c.reply = Unread
  OBVIOUS
<1> HIDE DEF c
<1>4. /\ Len(wire) \in Nat \ {0} /\ Head(wire) = wire[1] /\ Tail(wire) \in Seq(Command)
      /\ Len(Tail(wire)) = Len(wire) - 1
      /\ \A i \in 1..Len(wire) - 1 : Tail(wire)[i] = wire[i + 1]
  BY <1>1
<1>5. ASSUME NEW i \in 1..Len(wire')
      PROVE  \/ i \in 1..Len(wire) - 1 /\ wire'[i] = wire[i + 1]
             \/ i = Len(wire) /\ wire'[i] = c
  <2>1. CASE wire' = Tail(wire)
    BY <1>4, <2>1
  <2>2. CASE wire' = Append(Tail(wire), c)
    <3> DEFINE t == Tail(wire)
    <3>0. t \in Seq(Command) /\ wire' = Append(t, c)
      BY <1>4, <2>2
    <3> HIDE DEF t
    <3>5. Len(wire') = Len(t) + 1 /\ wire'[Len(t) + 1] = c
          /\ \A k \in 1..Len(t) : wire'[k] = t[k]
      BY <1>1, <3>0
    <3>1. /\ Len(wire') = Len(Tail(wire)) + 1 /\ wire'[Len(Tail(wire)) + 1] = c
          /\ \A k \in 1..Len(Tail(wire)) : wire'[k] = Tail(wire)[k]
      BY <3>5 DEF t
    <3>6. Len(Tail(wire)) = Len(wire) - 1 /\ Len(wire) \in Nat
      BY <1>4
    <3>2. Len(wire') = Len(wire) /\ i \in 1..Len(wire) /\ Len(Tail(wire)) + 1 = Len(wire)
      BY <3>1, <3>6
    <3>3. CASE i = Len(wire)
      BY <3>1, <3>2, <3>3
    <3>4. CASE i # Len(wire)
      <4>1. i \in 1..Len(wire) - 1 /\ i \in 1..Len(Tail(wire))
        <5>1. PICK n \in Nat : n = Len(wire)
          BY <3>6
        <5>2. PICK m \in Int : m = Len(Tail(wire)) /\ m = n - 1
          BY <3>6, <5>1
        <5>3. i \in 1..n /\ i # n
          BY <3>2, <3>4, <5>1
        <5>4. i \in 1..n - 1 /\ i \in 1..m
          BY <5>2, <5>3
        <5> QED BY <5>1, <5>2, <5>4
      <4>2. Tail(wire)[i] = wire[i + 1]
        BY <1>4, <4>1
      <4>3. wire'[i] = Tail(wire)[i]
        BY <3>1, <4>1
      <4> QED BY <4>1, <4>2, <4>3
    <3> QED BY <3>3, <3>4
  <2> QED BY <1>2, <2>1, <2>2
<1> SUFFICES ASSUME NEW i \in 1..Len(wire')
             PROVE  \/ /\ i + 1 \in 1..Len(wire)
                       /\ wire'[i].reply = wire[i + 1].reply
                       /\ stage'[wire'[i].poll] = stage[wire[i + 1].poll]
                    \/ i + 1 > Len(wire) /\ wire'[i].reply = Unread
  BY DEF WireMoves
<1>6. CASE i = Len(wire) /\ wire'[i] = c
  BY <1>3, <1>4, <1>6
<1>7. CASE i \in 1..Len(wire) - 1 /\ wire'[i] = wire[i + 1]
  <2>1. i + 1 \in 1..Len(wire) /\ 1 \in 1..Len(wire) /\ i + 1 # 1
    BY <1>4, <1>7
  <2>2. wire[i + 1].poll # p /\ wire[i + 1].poll \in Poll
    BY <1>1, <1>4, <2>1, OrderTypes DEF Inv, PollInv, WireFor
  <2>3. stage'[wire[i + 1].poll] = stage[wire[i + 1].poll]
    BY <2>2 DEF Inv, PollInv, PollType
  <2> QED BY <1>7, <2>1, <2>3
<1> QED BY <1>5, <1>6, <1>7

\* What is found is posted or applied after everything older, and before what was
\* read later.
LEMMA FoundAfter ==
  ASSUME Inv, Order, NEW source \in Source, NEW v \in Nat, Found(source, v), NotBefore(source, v)
  PROVE  /\ PostedInOrder' /\ NotOlder
         /\ \A s \in Source, x \in Nat :
              NotBefore(s, x) /\ (s = source => v <= x) => NotBefore(s, x)'
<1>1. applied \in [Source -> Nat]
  BY DEF Inv, PollInv, PollType
<1>2. CASE mode = "direct"
  <2>1. messages = <<>> /\ messages' = <<>> /\ applied' = [applied EXCEPT ![source] = v]
    BY <1>2 DEF Found, ApplyConfig, Inv, PollInv, MessagesOK
  <2>2. PostedInOrder'
    BY <2>1 DEF PostedInOrder
  <2>3. applied[source] <= v
    BY DEF NotBefore
  <2>4. NotOlder
    BY <1>1, <2>1, <2>3 DEF NotOlder
  <2>5. \A s \in Source, x \in Nat :
          NotBefore(s, x) /\ (s = source => v <= x) => NotBefore(s, x)'
    BY <1>1, <2>1 DEF NotBefore
  <2> QED BY <2>2, <2>4, <2>5
<1>3. CASE mode # "direct"
  <2> DEFINE m == <<source, v>>
  <2>1. messages' = Append(messages, m) /\ applied' = applied
    BY <1>3 DEF Found
  <2>2. messages \in Seq(Source \X Nat) /\ m \in Source \X Nat /\ m[1] = source /\ m[2] = v
    BY DEF Inv, PollInv, MessagesOK
  <2> HIDE DEF m
  <2>3. /\ Len(messages) \in Nat /\ Len(messages') = Len(messages) + 1
        /\ messages'[Len(messages) + 1] = m
        /\ \A k \in 1..Len(messages) : messages'[k] = messages[k]
    BY <2>1, <2>2
  <2>4. \A k \in 1..Len(messages') : k \in 1..Len(messages) \/ k = Len(messages) + 1
    BY <2>3
  <2>5. \A k \in 1..Len(messages) : messages[k][1] = source => messages[k][2] <= v
    BY DEF NotBefore
  <2>6. PostedInOrder'
    <3> SUFFICES ASSUME NEW k \in 1..Len(messages')
                 PROVE  /\ applied[messages'[k][1]] <= messages'[k][2]
                        /\ \A l \in 1..Len(messages') :
                             k < l /\ messages'[k][1] = messages'[l][1]
                               => messages'[k][2] <= messages'[l][2]
      BY <2>1 DEF PostedInOrder
    <3>1. CASE k = Len(messages) + 1
      <4>1. applied[source] <= v /\ messages'[k] = m
        BY <2>3, <3>1 DEF NotBefore
      <4>2. \A l \in 1..Len(messages') : ~(k < l)
        BY <2>3, <3>1
      <4> QED BY <2>2, <4>1, <4>2
    <3>2. CASE k \in 1..Len(messages)
      <4>1. messages'[k] = messages[k] /\ applied[messages[k][1]] <= messages[k][2]
        BY <2>3, <3>2 DEF Order, PostedInOrder
      <4>2. ASSUME NEW l \in 1..Len(messages'), k < l, messages'[k][1] = messages'[l][1]
            PROVE  messages'[k][2] <= messages'[l][2]
        <5>1. CASE l \in 1..Len(messages)
          BY <2>3, <3>2, <4>2, <5>1 DEF Order, PostedInOrder
        <5>2. CASE l = Len(messages) + 1
          BY <2>2, <2>3, <2>5, <3>2, <4>2, <5>2
        <5> QED BY <2>4, <5>1, <5>2
      <4> QED BY <4>1, <4>2
    <3> QED BY <2>4, <3>1, <3>2
  <2>7. NotOlder
    BY <1>1, <2>1 DEF NotOlder
  <2>8. ASSUME NEW s \in Source, NEW x \in Nat, NotBefore(s, x), s = source => v <= x
        PROVE  NotBefore(s, x)'
    <3>1. applied'[s] <= x
      BY <2>1, <2>8 DEF NotBefore
    <3>2. ASSUME NEW k \in 1..Len(messages'), messages'[k][1] = s PROVE messages'[k][2] <= x
      <4>1. CASE k \in 1..Len(messages)
        BY <2>3, <2>8, <3>2, <4>1 DEF NotBefore
      <4>2. CASE k = Len(messages) + 1
        BY <2>2, <2>3, <2>8, <3>2, <4>2
      <4> QED BY <2>4, <4>1, <4>2
    <3> QED BY <3>1, <3>2 DEF NotBefore
  <2> QED BY <2>6, <2>7, <2>8
<1> QED BY <1>2, <1>3

\* A poll that finds a configuration ends: it is applied or posted in its order.
LEMMA FoundOrders ==
  ASSUME Inv, Inv', Order, NEW p \in Poll, NEW source \in Source, Answered(p),
         stage[p] = StageOf(source), Found(source, Head(wire).reply), Ends(p)
  PROVE  Order' /\ NotOlder
<1> DEFINE v == Head(wire).reply
<1>1. /\ wire # <<>> /\ Head(wire) = wire[1] /\ 1 \in 1..Len(wire) /\ wire[1].poll = p
      /\ wire[1].reply # Unread
  <2>1. wire \in Seq(Command)
    BY DEF Inv, PollInv, WireFor
  <2> QED BY <2>1 DEF Answered
<1>2. v \in Nat /\ v <= Held(source) /\ NotBefore(source, v)
  BY <1>1, ReadWasHeld DEF Order, ReadLater, Held
<1>3. WireMoves(1) /\ UNCHANGED redis
  BY AnswerMoves DEF Ends
<1>4. ReadInOrder'
  BY <1>3, MovesInOrder DEF Order
<1> HIDE DEF v
<1>5. /\ PostedInOrder' /\ NotOlder
      /\ \A s \in Source, x \in Nat :
           NotBefore(s, x) /\ (s = source => v <= x) => NotBefore(s, x)'
  BY <1>2, FoundAfter DEF v
<1>6. ReadLater'
  <2> SUFFICES ASSUME NEW i \in 1..Len(wire'), NEW s \in Source,
                      wire'[i].reply # Unread, stage'[wire'[i].poll] = StageOf(s)
               PROVE  NotBefore(s, wire[i].reply)'
    BY DEF ReadLater, NotBefore, StageOf
  <2>1. /\ i + 1 \in 1..Len(wire)
        /\ wire'[i].reply = wire[i + 1].reply
        /\ stage'[wire'[i].poll] = stage[wire[i + 1].poll]
    BY <1>3 DEF WireMoves
  <2>2. NotBefore(s, wire[i + 1].reply) /\ wire[i + 1].reply \in Nat
    BY <2>1, ReadWasHeld DEF Order, ReadLater
  <2>3. s = source => v <= wire[i + 1].reply
    <3>1. 1 < i + 1
      OBVIOUS
    <3> QED BY <1>1, <2>1, <3>1 DEF Order, ReadInOrder, v
  <2>4. PICK x \in Nat : x = wire'[i].reply
    BY <2>1, <2>2
  <2>5. NotBefore(s, x)'
    BY <1>5, <2>1, <2>2, <2>3, <2>4
  <2> QED BY <2>4, <2>5 DEF NotBefore
<1>7. HeldLast'
  <2> SUFFICES ASSUME NEW s \in Source PROVE NotBefore(s, Held(s))'
    BY DEF HeldLast
  <2>1. PICK x \in Nat : x = Held(s)
    BY OrderTypes
  <2>2. Held(s)' = x
    BY <1>3, <2>1 DEF Held, Awaited, StageOf
  <2>3. NotBefore(s, x) /\ (s = source => v <= x)
    BY <1>2, <2>1 DEF Order, HeldLast
  <2>4. NotBefore(s, x)'
    BY <1>5, <2>3
  <2> QED BY <2>2, <2>4 DEF NotBefore
<1> QED BY <1>4, <1>5, <1>6, <1>7 DEF Order

\* A message that arrives is the oldest of those that were posted.
LEMMA MessageOrders == ASSUME Inv, Inv', Order, MessageArrives PROVE Order' /\ NotOlder
<1> DEFINE m == Head(messages)
<1>1. messages \in Seq(Source \X Nat) /\ messages # <<>>
  BY DEF MessageArrives, Inv, PollInv, MessagesOK
<1>2. /\ m = messages[1] /\ 1 \in 1..Len(messages) /\ Len(messages) \in Nat
      /\ messages' = Tail(messages) /\ Len(messages') = Len(messages) - 1
      /\ \A k \in 1..Len(messages') : messages'[k] = messages[k + 1] /\ k + 1 \in 1..Len(messages)
  BY <1>1 DEF MessageArrives
<1>3. applied' = [applied EXCEPT ![m[1]] = m[2]] /\ applied \in [Source -> Nat]
  BY DEF MessageArrives, ApplyConfig, Inv, PollInv, PollType
<1>4. m[1] \in Source /\ m[2] \in Nat /\ applied[m[1]] <= m[2]
  BY <1>2, OrderTypes DEF Order, PostedInOrder
<1> HIDE DEF m
<1>5. NotOlder
  BY <1>3, <1>4 DEF NotOlder
<1>6. ASSUME NEW s \in Source, NEW x \in Nat, NotBefore(s, x) PROVE NotBefore(s, x)'
  <2>1. applied'[s] <= x
    BY <1>2, <1>3, <1>4, <1>6 DEF NotBefore
  <2>2. \A k \in 1..Len(messages') : messages'[k][1] = s => messages'[k][2] <= x
    BY <1>2, <1>6 DEF NotBefore
  <2> QED BY <2>1, <2>2 DEF NotBefore
<1>7. UNCHANGED <<redis, stage, wire>>
  BY DEF MessageArrives
<1>8. ReadInOrder'
  BY <1>7 DEF Order, ReadInOrder
<1>9. PostedInOrder'
  <2> SUFFICES ASSUME NEW k \in 1..Len(messages')
               PROVE  /\ applied'[messages'[k][1]] <= messages'[k][2]
                      /\ \A l \in 1..Len(messages') :
                           k < l /\ messages'[k][1] = messages'[l][1]
                             => messages'[k][2] <= messages'[l][2]
    BY DEF PostedInOrder
  <2>1. /\ messages'[k] = messages[k + 1] /\ k + 1 \in 1..Len(messages) /\ 1 < k + 1
        /\ messages[k + 1][1] \in Source
    BY <1>2, OrderTypes
  <2>2. applied'[messages[k + 1][1]] <= messages[k + 1][2]
    <3>1. CASE messages[k + 1][1] = m[1]
      BY <1>2, <1>3, <2>1, <3>1 DEF Order, PostedInOrder
    <3>2. CASE messages[k + 1][1] # m[1]
      BY <1>3, <2>1, <3>2 DEF Order, PostedInOrder
    <3> QED BY <3>1, <3>2
  <2>3. ASSUME NEW l \in 1..Len(messages'), k < l, messages'[k][1] = messages'[l][1]
        PROVE  messages'[k][2] <= messages'[l][2]
    <3>1. messages'[l] = messages[l + 1] /\ l + 1 \in 1..Len(messages) /\ k + 1 < l + 1
      BY <1>2, <2>3
    <3> QED BY <2>1, <2>3, <3>1 DEF Order, PostedInOrder
  <2> QED BY <2>1, <2>2, <2>3
<1>10. ReadLater'
  <2> SUFFICES ASSUME NEW i \in 1..Len(wire), NEW s \in Source,
                      wire[i].reply # Unread, stage[wire[i].poll] = StageOf(s)
               PROVE  NotBefore(s, wire[i].reply)'
    BY <1>7 DEF ReadLater, StageOf
  <2>1. PICK x \in Nat : x = wire[i].reply
    BY ReadWasHeld
  <2>2. NotBefore(s, x)'
    BY <1>6, <2>1 DEF Order, ReadLater
  <2> QED BY <1>7, <2>1, <2>2 DEF NotBefore
<1>11. HeldLast'
  <2> SUFFICES ASSUME NEW s \in Source PROVE NotBefore(s, Held(s))'
    BY DEF HeldLast
  <2>1. PICK x \in Nat : x = Held(s)
    BY OrderTypes
  <2>2. NotBefore(s, x)'
    BY <1>6, <2>1 DEF Order, HeldLast
  <2>3. Held(s)' = x
    BY <1>7, <2>1 DEF Held, Awaited, StageOf
  <2> QED BY <2>2, <2>3 DEF NotBefore
<1> QED BY <1>5, <1>8, <1>9, <1>10, <1>11 DEF Order

\* The command that is served is the first that was not, and reads what is held now.
LEMMA ServeOrders == ASSUME Inv, Inv', Order, Serve PROVE ReadInOrder' /\ ReadLater'
<1>1. PICK i \in Unserved : /\ \A j \in Unserved : i <= j
                            /\ wire' = [wire EXCEPT ![i].reply = Stored(wire[i].poll)]
  BY DEF Serve
<1>2. UNCHANGED <<redis, stage, messages, applied>>
  BY DEF Serve
<1>3. wire \in Seq(Command) /\ i \in 1..Len(wire) /\ wire[i].reply = Unread
  BY <1>1 DEF Inv, PollInv, WireFor, Unserved
<1>4. wire[i] \in Command
  BY <1>3, WireElements
<1>5. /\ Len(wire') = Len(wire) /\ Len(wire) \in Nat
      /\ \A j \in 1..Len(wire) : j # i => wire'[j] = wire[j]
      /\ wire'[i].poll = wire[i].poll /\ wire'[i].reply = Stored(wire[i].poll)
  <2>1. wire'[i] = [wire[i] EXCEPT !.reply = Stored(wire[i].poll)] /\ DOMAIN wire' = DOMAIN wire
        /\ \A j \in 1..Len(wire) : j # i => wire'[j] = wire[j]
    BY <1>1, <1>3
  <2>2. wire' \in Seq(Command)
    BY DEF Inv, PollInv, WireFor
  <2>3. Len(wire') = Len(wire) /\ Len(wire) \in Nat
    BY <1>3, <2>1, <2>2
  <2> QED BY <1>4, <2>1, <2>3 DEF Command
<1>6. \A j \in 1..Len(wire) : wire'[j].poll = wire[j].poll
  BY <1>5
<1>7. Stored(wire[i].poll) = redis[Awaited(stage[wire[i].poll])]
  BY DEF Stored, Awaited
<1>8. \A j \in 1..Len(wire) : j < i => wire[j].reply # Unread
  <2> SUFFICES ASSUME NEW j \in 1..Len(wire), j < i, wire[j].reply = Unread PROVE FALSE
    OBVIOUS
  <2>1. j \in Unserved
    BY <1>3 DEF Unserved
  <2> QED BY <1>1, <1>3, <2>1
<1>9. ReadInOrder'
  <2> SUFFICES ASSUME NEW j \in 1..Len(wire), NEW k \in 1..Len(wire), j < k,
                      wire'[k].reply # Unread
               PROVE  /\ wire'[j].reply # Unread
                      /\ stage[wire'[j].poll] = stage[wire'[k].poll] =>
                           wire'[j].reply <= wire'[k].reply
    BY <1>2, <1>5 DEF ReadInOrder
  <2>1. CASE k = i
    <3>1. wire[j].reply # Unread /\ wire'[j] = wire[j]
      BY <1>5, <1>8, <2>1
    <3>2. wire[j].reply <= redis[Awaited(stage[wire[j].poll])]
      BY <3>1, ReadWasHeld
    <3>3. stage[wire'[j].poll] = stage[wire'[k].poll] => wire'[j].reply <= wire'[k].reply
      BY <1>5, <1>7, <2>1, <3>1, <3>2
    <3> QED BY <3>1, <3>3
  <2>2. CASE k # i
    <3>1. wire[k].reply # Unread /\ wire'[k] = wire[k]
      BY <1>5, <2>2
    <3>2. wire[j].reply # Unread
      BY <3>1 DEF Order, ReadInOrder
    <3>3. wire'[j] = wire[j]
      BY <1>3, <1>5, <3>2
    <3> QED BY <3>1, <3>2, <3>3 DEF Order, ReadInOrder
  <2> QED BY <2>1, <2>2
<1>10. ReadLater'
  <2> SUFFICES ASSUME NEW j \in 1..Len(wire), NEW s \in Source,
                      wire'[j].reply # Unread, stage[wire'[j].poll] = StageOf(s)
               PROVE  NotBefore(s, wire'[j].reply)
    BY <1>2, <1>5 DEF ReadLater, NotBefore, StageOf
  <2>1. CASE j = i
    <3>1. wire'[j].reply = Held(s)
      BY <1>5, <1>7, <2>1 DEF Held
    <3> QED BY <3>1 DEF Order, HeldLast
  <2>2. CASE j # i
    BY <1>5, <2>2 DEF Order, ReadLater
  <2> QED BY <2>1, <2>2
<1> QED BY <1>9, <1>10

\* Every step keeps the order, and applies nothing older than what is applied.
LEMMA OrderStep ==
  ASSUME Inv, Inv', Order, [Next]_vars
  PROVE  Order' /\ NotOlder
<1>0. /\ applied \in [Source -> Nat] /\ RedisType
      /\ \A source \in Source : Held(source) \in Nat
  BY OrderTypes DEF Inv, PollInv, PollType
<1>1. ASSUME UNCHANGED <<messages, applied>>, ReadInOrder', ReadLater',
             \A source \in Source : Held(source)' >= Held(source)
      PROVE  Order' /\ NotOlder
  <2>1. NotOlder
    BY <1>0, <1>1 DEF NotOlder
  <2> QED BY <1>1, <2>1, HeldGrows DEF Order
<1>2. ASSUME UNCHANGED <<redis, messages, applied>>, ReadInOrder', ReadLater'
      PROVE  Order' /\ NotOlder
  <2>1. \A source \in Source : Held(source)' >= Held(source)
    BY <1>0, <1>2 DEF Held, Awaited, StageOf
  <2> QED BY <1>1, <1>2, <2>1
<1>3. ASSUME UNCHANGED <<redis, messages, applied>>, NEW shift \in {0, 1}, WireMoves(shift)
      PROVE  Order' /\ NotOlder
  BY <1>2, <1>3, MovesInOrder, MovesLater DEF Order
<1>4. ASSUME UNCHANGED <<stage, wire, messages, applied>> PROVE ReadInOrder' /\ ReadLater'
  BY <1>4 DEF Order, ReadInOrder, ReadLater, NotBefore, StageOf
<1>5. CASE PublishPayload \/ PublishSignature \/ PublishUnsigned
  <2>1. UNCHANGED <<stage, wire, messages, applied>>
    BY <1>5 DEF PublishPayload, PublishSignature, PublishUnsigned, pollVars
  <2>2. redis' \in {[redis EXCEPT !.payload = @ + 1], [redis EXCEPT !.signature = @ + 1],
                    [redis EXCEPT !.unsigned = @ + 1]}
    BY <1>5 DEF PublishPayload, PublishSignature, PublishUnsigned
  <2>3. redis'.payload >= redis.payload /\ redis'.unsigned >= redis.unsigned
    BY <1>0, <2>2, RedisFields DEF RedisType
  <2>4. \A source \in Source : Held(source)' >= Held(source)
    BY <2>3 DEF Held, Awaited, StageOf
  <2> QED BY <1>1, <1>4, <2>1, <2>4
<1>6. CASE Expire \/ (FeeStep /\ UNCHANGED <<redis, expired, pollVars>>) \/ UNCHANGED vars
  <2>1. UNCHANGED <<redis, stage, wire, messages, applied>>
    BY <1>6 DEF Expire, pollVars, vars
  <2> QED BY <1>2, <1>4, <2>1
<1>7. CASE Start \/ Tick
  <2>1. PICK p \in Poll : StartPoll(p)
    BY <1>7 DEF Start, Tick
  <2>2. UNCHANGED <<redis, messages, applied>>
    BY <2>1 DEF StartPoll
  <2> QED BY <1>3, <2>1, <2>2, StartMoves
<1>8. CASE Serve
  <2>1. UNCHANGED <<redis, messages, applied>>
    BY <1>8 DEF Serve
  <2> QED BY <1>2, <1>8, <2>1, ServeOrders
<1>9. CASE Reconnect \/ Stop \/ ThreadDies
  <2>1. UNCHANGED <<redis, messages, applied>>
    BY <1>9 DEF Reconnect, Stop, ThreadDies
  <2>2. \A i \in 1..Len(wire') : wire'[i].reply = Unread
    <3>1. CASE Reconnect
      <4>1. wire' = [i \in DOMAIN wire |-> [wire[i] EXCEPT !.reply = Unread]]
        BY <3>1 DEF Reconnect
      <4>2. wire \in Seq(Command) /\ wire' \in Seq(Command)
        BY DEF Inv, PollInv, WireFor
      <4>3. DOMAIN wire' = 1..Len(wire') /\ DOMAIN wire' = 1..Len(wire) /\ DOMAIN wire = 1..Len(wire)
        BY <4>1, <4>2
      <4>4. ASSUME NEW i \in 1..Len(wire') PROVE wire'[i].reply = Unread
        <5>1. i \in 1..Len(wire)
          BY <4>3
        <5>2. wire[i] \in Command
          BY <4>2, <5>1, WireElements
        <5>3. wire'[i] = [wire[i] EXCEPT !.reply = Unread]
          BY <4>1, <4>3, <5>1
        <5> QED BY <5>2, <5>3 DEF Command
      <4> QED BY <4>4
    <3>2. CASE Stop \/ ThreadDies
      BY <3>2 DEF Stop, ThreadDies
    <3> QED BY <1>9, <3>1, <3>2
  <2> QED BY <1>2, <2>1, <2>2, NothingRead
<1>10. CASE MessageArrives
  BY <1>10, MessageOrders
<1>11. ASSUME NEW p \in Poll, Answer(p) PROVE Order' /\ NotOlder
  <2>1. ASSUME Answered(p), Ends(p), NothingFound PROVE Order' /\ NotOlder
    <3>1. WireMoves(1)
      BY <2>1, AnswerMoves DEF Ends
    <3>2. UNCHANGED <<redis, messages, applied>>
      BY <2>1 DEF Ends, NothingFound
    <3> QED BY <1>3, <3>1, <3>2
  <2>2. ASSUME Answered(p), NEW x, Continues(p, x), NothingFound PROVE Order' /\ NotOlder
    <3>1. WireMoves(1)
      BY <2>2, AnswerMoves DEF Continues
    <3>2. UNCHANGED <<redis, messages, applied>>
      BY <2>2 DEF Continues, NothingFound
    <3> QED BY <1>3, <3>1, <3>2
  <2>3. CASE SignatureRead(p)
    BY <2>2, <2>3 DEF SignatureRead
  <2>4. CASE PayloadRead(p)
    <3>1. Answered(p) /\ stage[p] = StageOf("signed") /\ "signed" \in Source
      BY <2>4 DEF PayloadRead, StageOf, Source
    <3> QED BY <2>2, <2>4, <3>1, FoundOrders DEF PayloadRead
  <2>5. CASE HashRead(p)
    <3>1. Answered(p) /\ stage[p] = StageOf("unsigned") /\ "unsigned" \in Source
      BY <2>5 DEF HashRead, StageOf, Source
    <3> QED BY <2>1, <2>5, <3>1, FoundOrders DEF HashRead
  <2>6. CASE CommandFails(p)
    BY <2>1, <2>6 DEF CommandFails
  <2> QED BY <1>11, <2>3, <2>4, <2>5, <2>6 DEF Answer
<1> QED BY <1>5, <1>6, <1>7, <1>8, <1>9, <1>10, <1>11 DEF Next

\* Polls overlap, fail and are answered late, a thread posts what they find, and yet
\* no source is taken back to an older configuration: one connection answers in order,
\* and messages keep their order (ConfigPoller.NoRollback; config-poller.js:49-65, 105).
THEOREM NoRollbackHolds == Spec => NoRollback
<1>1. Init => Order
  <2> SUFFICES ASSUME Init PROVE Order
    OBVIOUS
  <2>1. messages = <<>> /\ wire = <<>> /\ \A s \in Source : applied[s] = 0
    BY DEF Init
  <2>2. \A s \in Source : Held(s) = 0
    BY DEF Init, Held, Awaited, StageOf
  <2> QED BY <2>1, <2>2 DEF Order, ReadInOrder, PostedInOrder, ReadLater, HeldLast, NotBefore
<1>2. Inv /\ Inv' /\ Order /\ [Next]_vars => Order' /\ NotOlder
  BY OrderStep
<1>3. Inv /\ Inv' /\ Order /\ [Next]_vars => [NotOlder]_vars
  BY <1>2
<1> QED BY <1>1, <1>2, <1>3, Invariance, PTL DEF Spec, NoRollback
=============================================================================
