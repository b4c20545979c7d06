---------------------------- MODULE ConfigPoller ----------------------------
(***************************************************************************)
(* Dynamic configuration (services/config-poller.js, config-worker.js) of  *)
(* a process that estimates fees.  A poller reads a signed configuration   *)
(* from Redis with two GETs, falls back to an unsigned hash, and merges    *)
(* what it finds into process.env.  It runs in the process itself          *)
(* ("direct") or in a worker thread that posts what it finds ("thread").   *)
(*                                                                         *)
(* Redis and the publisher are external.  A configuration is its version;  *)
(* Content gives what it sets.  Commands travel on one connection: they    *)
(* are served and answered in order, and sent again after a reconnection   *)
(* (maxRetriesPerRequest is null).  Polls overlap when a poll takes longer *)
(* than the interval.                                                      *)
(***************************************************************************)
EXTENDS FeeEngine, Sequences

CONSTANTS
  Content,   \* Content[source][version]: the settings that it holds
  Poll,      \* polls that may be in progress at one time (a bound)
  Mode,      \* which of {"direct", "thread"} the process may be started in
  Faults,    \* which of FaultKind may happen
  MaxMessages \* bound: configurations posted that the process has not received

Source == {"signed", "unsigned"}
FaultKind == {"error",      \* Redis answers a command with an error
              "reconnect",  \* the connection is lost and made again
              "expiry",     \* a signature is past its exp claim
              "stop",       \* the process begins to shut down
              "thread"}     \* the worker thread dies

Version(source) == 0..Len(Content[source])   \* 0: Redis has none

ASSUME PollerAssumption ==
  /\ \A source \in Source : Len(Content[source]) \in Nat
  /\ \A source \in Source : \A v \in 1..Len(Content[source]) :
        DOMAIN Content[source][v] \subseteq Key
        /\ \A k \in DOMAIN Content[source][v] : Content[source][v][k] \in Value(k)
  /\ Faults \subseteq FaultKind
  /\ MaxMessages \in Nat \ {0}

VARIABLES
  redis,      \* versions of the signature, the payload and the unsigned hash
  expired,    \* signatures past their exp claim
  mode, polling, stopping,
  stage,      \* what each poll waits for
  signature,  \* the signature that it has read
  wire,       \* commands that are not answered: whose, and what was read
  messages,   \* configurations the thread has posted
  applied     \* history: the last version applied from each source

pollVars == <<mode, polling, stopping, stage, signature, wire, messages, applied>>
vars == <<env, feeVars, redis, expired, pollVars>>

Unread == -1

Init == /\ FeeInit
        /\ redis = [signature |-> 0, payload |-> 0, unsigned |-> 0]
        /\ expired = {}
        /\ mode \in Mode
        /\ polling = "unstarted"
        /\ stopping = FALSE
        /\ stage = [p \in Poll |-> "idle"]
        /\ signature = [p \in Poll |-> 0]
        /\ wire = <<>>
        /\ messages = <<>>
        /\ applied = [s \in Source |-> 0]
-----------------------------------------------------------------------------
\* The publisher

\* Signature and payload are two keys, set one after the other in either order.
PublishPayload ==
  /\ redis.payload <= redis.signature
  /\ redis.payload < Len(Content.signed)
  /\ redis' = [redis EXCEPT !.payload = @ + 1]
  /\ UNCHANGED <<env, feeVars, expired, pollVars>>

PublishSignature ==
  /\ redis.signature <= redis.payload
  /\ redis.signature < Len(Content.signed)
  /\ redis' = [redis EXCEPT !.signature = @ + 1]
  /\ UNCHANGED <<env, feeVars, expired, pollVars>>

PublishUnsigned ==
  /\ redis.unsigned < Len(Content.unsigned)
  /\ redis' = [redis EXCEPT !.unsigned = @ + 1]
  /\ UNCHANGED <<env, feeVars, expired, pollVars>>

Expire ==
  /\ "expiry" \in Faults
  /\ redis.signature # 0 /\ redis.signature \notin expired
  /\ expired' = expired \cup {redis.signature}
  /\ UNCHANGED <<env, feeVars, redis, pollVars>>
-----------------------------------------------------------------------------
\* applyConfig

\* mutant: a setting that is there is kept, as dotenv does without override
MergeKeeps(content) ==
  [k \in DOMAIN env \cup DOMAIN content |-> IF k \in DOMAIN env THEN env[k] ELSE content[k]]

\* Settings are overwritten or added, never removed.
Merge(content) ==
  [k \in DOMAIN env \cup DOMAIN content |-> IF k \in DOMAIN content THEN content[k] ELSE env[k]]

\* It runs to its end without an await, and clears the fee estimate.
ApplyConfig(source, v) ==
  /\ env' = Merge(Content[source][v])
  /\ cached' = NoEstimate
  /\ applied' = [applied EXCEPT ![source] = v]
  /\ UNCHANGED <<call, config, result>>

\* What a poll does with a configuration: apply it, or post it to the process.
Found(source, v) ==
  \/ /\ mode = "direct"
     /\ ApplyConfig(source, v)
     /\ UNCHANGED messages
  \/ /\ mode = "thread" /\ Len(messages) < MaxMessages
     /\ messages' = Append(messages, <<source, v>>)
     /\ UNCHANGED <<env, feeVars, applied>>

NothingFound == UNCHANGED <<env, feeVars, messages, applied>>

MessageArrives ==
  /\ messages # <<>>
  /\ ApplyConfig(Head(messages)[1], Head(messages)[2])
  /\ messages' = Tail(messages)
  /\ UNCHANGED <<redis, expired, mode, polling, stopping, stage, signature, wire>>
-----------------------------------------------------------------------------
\* pollConfig

Send(p, w) == Append(w, [poll |-> p, reply |-> Unread])

StartPoll(p) == /\ stage[p] = "idle"
                /\ stage' = [stage EXCEPT ![p] = "signature"]
                /\ wire' = Send(p, wire)
                /\ UNCHANGED <<env, feeVars, redis, expired, mode, stopping, signature, messages, applied>>

\* startConfigPoller, once per process.  The interval is set when the first poll ends.
Start == /\ polling = "unstarted" /\ ~stopping
         /\ polling' = "first"
         /\ \E p \in Poll : StartPoll(p)

\* setInterval: a tick does not wait for the poll before it.
Tick == /\ polling = "interval"
        /\ \E p \in Poll : StartPoll(p)
        /\ UNCHANGED polling

\* Redis serves the commands of a connection in order.
Unserved == {i \in DOMAIN wire : wire[i].reply = Unread}

Stored(p) == redis[IF stage[p] = "hash" THEN "unsigned" ELSE stage[p]]

\* mutant: a client for each poll; no order between the commands of two polls
ServeAny == \E i \in Unserved :
  /\ LET answered == [wire EXCEPT ![i].reply = Stored(wire[i].poll)] IN
     wire' = <<answered[i]>> \o SelectSeq(answered, LAMBDA c : c # answered[i])
  /\ UNCHANGED <<env, feeVars, redis, expired, mode, polling, stopping, stage, signature,
                 messages, applied>>

Serve == \E i \in Unserved :
  /\ \A j \in Unserved : i <= j
  /\ wire' = [wire EXCEPT ![i].reply = Stored(wire[i].poll)]
  /\ UNCHANGED <<env, feeVars, redis, expired, mode, polling, stopping, stage, signature,
                 messages, applied>>

\* The first command is answered, and its poll goes on.
Answered(p) == wire # <<>> /\ Head(wire).poll = p /\ Head(wire).reply # Unread

\* pollConfig catches everything: a poll that fails ends like one that does not.
Ends(p) ==
  /\ stage' = [stage EXCEPT ![p] = "idle"]
  /\ signature' = [signature EXCEPT ![p] = 0]
  /\ wire' = Tail(wire)
  /\ polling' = IF polling = "first" THEN "interval" ELSE polling
  /\ UNCHANGED <<redis, expired, mode, stopping>>

Continues(p, next) ==
  /\ stage' = [stage EXCEPT ![p] = next]
  /\ wire' = Send(p, Tail(wire))
  /\ UNCHANGED <<redis, expired, mode, polling, stopping>>

SignatureRead(p) ==
  /\ Answered(p) /\ stage[p] = "signature"
  /\ signature' = [signature EXCEPT ![p] = Head(wire).reply]
  /\ Continues(p, "payload") /\ NothingFound

\* mutant: any valid signature will do
VerifiedAlone(sig, payload) == sig \notin expired

\* verifyConfigSignature: the JWT is not expired and holds this very payload.
Verified(sig, payload) == sig = payload /\ sig \notin expired

\* The thread does not verify what it forwards.
Accepted(sig, payload) == /\ sig # 0 /\ payload # 0
                          /\ mode = "thread" \/ Verified(sig, payload)

PayloadRead(p) ==
  LET payload == Head(wire).reply IN
  /\ Answered(p) /\ stage[p] = "payload"
  /\ \/ /\ Accepted(signature[p], payload)
        /\ Found("signed", payload) /\ Ends(p)
     \/ /\ ~Accepted(signature[p], payload)
        /\ Continues(p, "hash") /\ NothingFound /\ UNCHANGED signature

HashRead(p) ==
  LET hash == Head(wire).reply IN
  /\ Answered(p) /\ stage[p] = "hash"
  /\ IF hash # 0 THEN Found("unsigned", hash) ELSE NothingFound
  /\ Ends(p)

\* mutant: the interval is only set when the first poll succeeds
FirstFailureStops(p) ==
  /\ "error" \in Faults
  /\ Answered(p)
  /\ stage' = [stage EXCEPT ![p] = "idle"]
  /\ signature' = [signature EXCEPT ![p] = 0]
  /\ wire' = Tail(wire)
  /\ UNCHANGED <<redis, expired, mode, polling, stopping>>
  /\ NothingFound

CommandFails(p) ==
  /\ "error" \in Faults
  /\ Answered(p)
  /\ Ends(p) /\ NothingFound

\* Commands without an answer are sent again, in their order.
Reconnect ==
  /\ "reconnect" \in Faults
  /\ \E i \in DOMAIN wire : wire[i].reply # Unread
  /\ wire' = [i \in DOMAIN wire |-> [wire[i] EXCEPT !.reply = Unread]]
  /\ UNCHANGED <<env, feeVars, redis, expired, mode, polling, stopping, stage, signature,
                 messages, applied>>
-----------------------------------------------------------------------------
\* stopConfigPoller, at the beginning of the shutdown of a worker process.  The
\* client is disconnected, so that the polls in progress end in their catch: the
\* first one then still sets its interval, and polling goes on until the exit.
Stop ==
  /\ "stop" \in Faults
  /\ polling # "unstarted" /\ ~stopping
  /\ stopping' = TRUE
  /\ polling' = IF mode = "direct" /\ polling = "first" THEN "interval" ELSE "off"
  /\ stage' = [p \in Poll |-> "idle"]
  /\ signature' = [p \in Poll |-> 0]
  /\ wire' = <<>>
  /\ UNCHANGED <<env, feeVars, redis, expired, mode, messages, applied>>

\* An exit of the thread is logged; nothing starts another one.
ThreadDies ==
  /\ "thread" \in Faults
  /\ mode = "thread" /\ polling \in {"first", "interval"}
  /\ polling' = "off"
  /\ stage' = [p \in Poll |-> "idle"]
  /\ signature' = [p \in Poll |-> 0]
  /\ wire' = <<>>
  /\ UNCHANGED <<env, feeVars, redis, expired, mode, stopping, messages, applied>>

Answer(p) == SignatureRead(p) \/ PayloadRead(p) \/ HashRead(p) \/ CommandFails(p)

Next ==
  \/ PublishPayload \/ PublishSignature \/ PublishUnsigned \/ Expire
  \/ Start \/ Tick \/ Serve \/ Reconnect \/ MessageArrives \/ Stop \/ ThreadDies
  \/ \E p \in Poll : Answer(p)
  \/ FeeStep /\ UNCHANGED <<redis, expired, pollVars>>

Spec == Init /\ [][Next]_vars

\* The process starts its poller, timers fire, messages are delivered, and Redis
\* answers in spite of failed commands and reconnections in between.
Fairness ==
  /\ WF_vars(Start \/ Tick) /\ WF_vars(MessageArrives) /\ WF_vars(Serve)
  /\ SF_vars(\E p \in Poll : SignatureRead(p))
  /\ SF_vars(\E p \in Poll : PayloadRead(p))
  /\ SF_vars(\E p \in Poll : HashRead(p))

FairSpec == Spec /\ Fairness
-----------------------------------------------------------------------------
\* Properties

\* Every variable has the values it may have.
TypeOK ==
  /\ DOMAIN env \subseteq Key /\ \A k \in DOMAIN env : env[k] \in Value(k)
  /\ cached = NoEstimate \/ (cached.fee \in Nat /\ cached.key \in Nat \X Nat \X Nat)
  /\ call \in [Call -> {"idle", "asking", "returned"}]
  /\ config \in [Call -> Setting]
  /\ result \in [Call -> Nat]
  /\ redis \in [signature : Version("signed"), payload : Version("signed"),
                unsigned : Version("unsigned")]
  /\ expired \subseteq Version("signed")
  /\ mode \in Mode
  /\ polling \in {"unstarted", "first", "interval", "off"}
  /\ stopping \in BOOLEAN
  /\ stage \in [Poll -> {"idle", "signature", "payload", "hash"}]
  /\ signature \in [Poll -> Version("signed")]
  /\ wire \in Seq([poll : Poll, reply : Nat \cup {Unread}])
  /\ messages \in Seq(Source \X Nat)
  /\ applied \in [Source -> Nat]

\* A call that returns a fee returns one of the settings it has read, though env
\* changed while it waited for the node, and the estimate it found in the cache
\* was kept there by a call that began before the cache was cleared
\* (fee-engine.js:296, 325, 364-370; config-poller.js:88-90).
FeeOfOwnSettings ==
  \A c \in Call : call[c] = "returned" =>
    \/ \E o \in FeeOverride \cup {config[c].override} :
          o > 0 /\ result[c] = OverrideFee(config[c], o)
    \/ \E fee \in {0} \cup {PercentileFee(s) : s \in Stats} : result[c] = SelectedFee(config[c], fee)

\* Whatever the node answers, a fee is within the bounds that its call has read.
FeeWithinBounds ==
  \A c \in Call : call[c] = "returned" => result[c] \in config[c].min .. config[c].max

\* Once a configuration is applied, the settings are consistent if every
\* configuration is: no estimate sees the minimum of one and the maximum of
\* another and throws.  It takes complete configurations, as a setting that is no
\* longer published stays (config-poller.js:75-81, fee-engine.js:129).
Complete == \A source \in Source : \A v \in 1..Len(Content[source]) :
              /\ {"base", "min", "max"} \subseteq DOMAIN Content[source][v]
              /\ Usable(Content[source][v])
SettingsUsable == Complete /\ (\E source \in Source : applied[source] # 0) => Usable(Settings)

\* No poll that is late brings back a configuration older than one that has been
\* applied from the same source (config-poller.js:49-65, 105).
NotOlder == \A source \in Source : applied'[source] >= applied[source]
NoRollback == [][NotOlder]_vars

\* Without the thread, a signed configuration is applied only under its own
\* signature: not before both keys are set, though they are read one by one
\* (config-poller.js:24).
AppliedWasSigned ==
  mode = "direct" => applied.signed <= redis.signature /\ applied.signed <= redis.payload

\* What is published comes to be in force and stays so, in spite of failed
\* commands, torn reads and overlapping polls, as long as the poller runs.
InForce(source, v) == \A k \in DOMAIN Content[source][v] :
                        k \in DOMAIN env /\ env[k] = Content[source][v][k]
PublishedInForce ==
  LET signed == Accepted(redis.signature, redis.payload)
  IN  <>[]\/ polling = "off"
          \/ signed /\ InForce("signed", redis.payload)
          \/ ~signed /\ redis.unsigned # 0 /\ InForce("unsigned", redis.unsigned)
          \/ ~signed /\ redis.unsigned = 0
=============================================================================
