---------------------------- MODULE RequestGate -----------------------------
(***************************************************************************)
(* What a node does with the requests of its peers: the contact policy,    *)
(* the sliding-window rate limit, the trust thresholds, the proof of work  *)
(* a stranger's message needs, and the handler behind them.  The offline   *)
(* mailbox delivers messages past all of them.                             *)
(*                                                                         *)
(* A peer's row in peer_settings is the default one (trust 0, not blocked, *)
(* limit 30): the command that changes it answers "Not logged in".         *)
(*                                                                         *)
(* Each of these checks reads the database, and a read that fails is not   *)
(* an error but an answer: no friend, the limit of runtime_config, and for *)
(* the trust thresholds no check at all.                                   *)
(***************************************************************************)
EXTENDS Integers, Sequences, FiniteSetsExt

CONSTANTS
  Peer,
  Limit,       \* peer_settings.rate_limit_per_minute
  Limits,      \* what runtime_config.rate_limit_per_minute may be
  Failing,     \* the sets of reads that fail in one request
  Window,      \* one minute
  PowAge,      \* the validity of a proof-of-work token
  Threshold,   \* POW_BAN_THRESHOLD
  NoToken,
  MaxTime      \* bound: the clock

(* The reads of a request: get_peer_settings and get_friends before the     *)
(* handler and, another time, in it, where load_setting follows.            *)
Read == {"limit", "known", "friends", "trust", "threshold"}

ASSUME GateAssumption ==
  /\ Limit \in Nat \ {0} /\ Limits \in SUBSET (Nat \ {0}) /\ Failing \in SUBSET (SUBSET Read)
  /\ Window \in Nat /\ PowAge \in Nat /\ Threshold \in Nat \ {0}
  /\ MaxTime \in Nat

VARIABLES
  now,
  friends,    \* db::get_friends
  config,     \* unknown_peer_policy, the limit, the thresholds as "above 0" or not
  bucket,     \* rate_buckets
  failures,   \* PowBanList, whose counts are told apart up to Threshold
  passed,     \* passed[p]: the times p's requests passed the gate
  under,      \* under[p]: and the limit each was compared with
  done        \* what was last handed on to the user, and what held then

vars == <<now, friends, config, bucket, failures, passed, under, done>>
peerState == <<bucket, failures, passed, under, done>>

Kind == {"file", "signal", "legacy", "x3dh"}
Policy == {"allow", "request-only"}   \* "block" is handled as "request-only"
Config == [policy : Policy, dm : BOOLEAN, file : BOOLEAN, limit : Limits]
Done == [via : Kind \cup {"mailbox", "none"}, friend : BOOLEAN, policy : Policy,
         above : BOOLEAN, worked : BOOLEAN, read : BOOLEAN]

Init ==
  /\ now = 0 /\ friends = {}
  /\ config \in {c \in Config : c.policy = "request-only" /\ ~c.dm /\ ~c.file}
  /\ bucket = [p \in Peer |-> <<>>] /\ failures = [p \in Peer |-> 0]
  /\ passed = [p \in Peer |-> <<>>] /\ under = [p \in Peer |-> <<>>]
  /\ done = [via |-> "none", friend |-> FALSE, policy |-> config.policy,
             above |-> FALSE, worked |-> FALSE, read |-> TRUE]

Tick ==
  /\ now < MaxTime /\ now' = now + 1
  /\ UNCHANGED <<friends, config, peerState>>

AddFriend(p) ==
  /\ friends' = friends \cup {p}
  /\ UNCHANGED <<now, config, peerState>>

RemoveFriend(p) ==
  /\ friends' = friends \ {p}
  /\ UNCHANGED <<now, config, peerState>>

SaveSettings(c) ==
  /\ config' = c
  /\ UNCHANGED <<now, friends, peerState>>

PeerCanContact(p, unread) ==
  \/ config.policy = "allow"
  \/ p \in friends /\ "known" \notin unread

(***************************************************************************)
(* rate_limit_allows: entries older than a window leave from the front.    *)
(***************************************************************************)
PopExpiredMutant(b) == b   \* nothing leaves

PopExpired(b) ==
  LET live == {i \in 1 .. Len(b) : now - b[i] <= Window}
  IN  IF live = {} THEN <<>> ELSE SubSeq(b, Min(live), Len(b))

PerMinute(unread) == IF "limit" \in unread THEN config.limit ELSE Limit

RateLimitAllowsMutant(p, limit) == Len(PopExpired(bucket[p])) <= limit   \* off by one

RateLimitAllows(p, limit) == Len(PopExpired(bucket[p])) < limit

(***************************************************************************)
(* PoWToken::verify of a token for this node, and PowBanList.  (A banned   *)
(* peer also leaves Kademlia's routing table, until it identifies again.)  *)
(***************************************************************************)
Verify(t) == t # NoToken /\ now >= t /\ now - t <= PowAge

RecordFailure(p) == failures' = [failures EXCEPT ![p] = IF @ < Threshold THEN @ + 1 ELSE @]

(* above: the threshold is above the peer's trust; read: it was compared.   *)
HandOn(p, via, t, unread) ==
  done' = [via |-> via, friend |-> p \in friends, policy |-> config.policy,
           above |-> IF via = "file" THEN config.file ELSE config.dm,
           worked |-> t # NoToken /\ t \in (now - PowAge) .. now,
           read |-> {"trust", "threshold"} \cap unread = {}]

(* settings.trust_level < load_setting(..), with the settings that are read *)
(* and with unwrap_or(0).                                                   *)
BelowThreshold(threshold, unread) ==
  "trust" \notin unread /\ "threshold" \notin unread /\ threshold

(***************************************************************************)
(* The handlers.  PrivateMessage is the legacy one, in the clear.          *)
(***************************************************************************)
PrivateMessage(p, t, unread) ==
  IF ~(p \in friends /\ "friends" \notin unread) /\ ~Verify(t)
  THEN RecordFailure(p) /\ UNCHANGED done
  ELSE /\ UNCHANGED failures
       /\ IF BelowThreshold(config.dm, unread) THEN UNCHANGED done
          ELSE HandOn(p, "legacy", t, unread)

X3dhDm(p, decrypts, unread) ==   \* the trust threshold is not consulted
  /\ UNCHANGED failures
  /\ IF p \in friends /\ "friends" \notin unread /\ decrypts
     THEN HandOn(p, "x3dh", NoToken, {"threshold"}) ELSE UNCHANGED done

FileRequestMutant(p, unread) ==   \* min_trust_dm for min_trust_file
  /\ UNCHANGED failures
  /\ IF BelowThreshold(config.dm, unread) THEN UNCHANGED done
     ELSE HandOn(p, "file", NoToken, unread)

FileRequest(p, unread) ==
  /\ UNCHANGED failures
  /\ IF BelowThreshold(config.file, unread) THEN UNCHANGED done
     ELSE HandOn(p, "file", NoToken, unread)

Signal(p, unread) ==   \* WebRtcSignal, PluginEvent, PowChallenge, PowSolution
  UNCHANGED failures /\ HandOn(p, "signal", NoToken, unread)

Handle(p, kind, t, decrypts, unread) ==
  \/ kind = "legacy" /\ PrivateMessage(p, t, unread)
  \/ kind = "x3dh" /\ X3dhDm(p, decrypts, unread)
  \/ kind = "file" /\ FileRequest(p, unread)
  \/ kind = "signal" /\ Signal(p, unread)

RejectionForRequest == UNCHANGED <<failures, done, passed, under>>

Request(p, kind, t, decrypts, unread) ==
  /\ IF ~PeerCanContact(p, unread)
     THEN RejectionForRequest /\ UNCHANGED bucket
     ELSE IF ~RateLimitAllows(p, PerMinute(unread))
     THEN RejectionForRequest /\ bucket' = [bucket EXCEPT ![p] = PopExpired(@)]
     ELSE /\ bucket' = [bucket EXCEPT ![p] = Append(PopExpired(@), now)]
          /\ passed' = [passed EXCEPT ![p] = Append(@, now)]
          /\ under' = [under EXCEPT ![p] = Append(@, PerMinute(unread))]
          /\ Handle(p, kind, t, decrypts, unread)
  /\ UNCHANGED <<now, friends, config>>

(***************************************************************************)
(* A mailbox record names its sender itself, and is saved as it comes.     *)
(***************************************************************************)
PollMailbox(p) ==
  /\ HandOn(p, "mailbox", NoToken, {"threshold"})
  /\ UNCHANGED <<now, friends, config, bucket, failures, passed, under>>

Next ==
  \/ Tick
  \/ \E c \in Config : SaveSettings(c)
  \/ \E p \in Peer : AddFriend(p) \/ RemoveFriend(p) \/ PollMailbox(p)
  \/ \E p \in Peer, kind \in Kind, t \in 0 .. MaxTime \cup {NoToken}, decrypts \in BOOLEAN,
        unread \in Failing : Request(p, kind, t, decrypts, unread)

Spec == Init /\ [][Next]_vars
-----------------------------------------------------------------------------
TypeOK ==
  /\ now \in 0 .. MaxTime /\ friends \subseteq Peer /\ config \in Config
  /\ bucket \in [Peer -> Seq(0 .. MaxTime)] /\ passed \in [Peer -> Seq(0 .. MaxTime)]
  /\ under \in [Peer -> Seq(Limits \cup {Limit})]
  /\ failures \in [Peer -> 0 .. Threshold] /\ done \in Done

(* However requests, refusals, the pruning of the bucket and changes of the *)
(* settings interleave, a request is let through more than a window after   *)
(* the one that many places before it as the limit it was compared with:    *)
(* no window of a minute holds more than the limit.                         *)
RateBound ==
  \A p \in Peer : \A j \in 1 .. Len(passed[p]) :
    under[p][j] < j => passed[p][j] - passed[p][j - under[p][j]] > Window

(* And a peer all of whose requests are older than a window is let in,      *)
(* under whichever limit.                                                   *)
WaitedThenServed ==
  \A p \in Peer :
    (\A i \in 1 .. Len(passed[p]) : now - passed[p][i] > Window)
      => \A limit \in Limits \cup {Limit} : RateLimitAllows(p, limit)

(* What a request brought was a friend's, or allowed by the policy of that  *)
(* moment, with work not older than PowAge for a message, whichever reads   *)
(* failed.  A read that failed is all that lets a file or a legacy message  *)
(* past a threshold above the sender's trust.                               *)
PolicyKept ==
  done.via \in Kind =>
    /\ ~done.friend => done.policy = "allow"
    /\ ~done.friend /\ done.via = "legacy" => done.worked
    /\ done.via \in {"file", "legacy"} /\ done.above => ~done.read

(* README.md:120: "Local trust thresholds for DMs, files, and invites."     *)
(* A threshold above the sender's trust keeps its message out.              *)
ThresholdForMessages == done.via \in {"legacy", "x3dh", "mailbox"} => ~done.above

(* lib.rs:841: "3 başarısız PoW -> peer yasaklanır" (three failed proofs of *)
(* work and the peer is banned).  Then no later request of it is handled.   *)
BannedStaysOut ==
  [][\A p \in Peer : failures[p] >= Threshold => passed'[p] = passed[p]]_vars
=============================================================================
