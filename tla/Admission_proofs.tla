-------------------------- MODULE Admission_proofs --------------------------
(***************************************************************************)
(* The rate limit holds for every limit, window and clock.  What makes     *)
(* RateBound inductive is that the bucket is always a suffix of the        *)
(* history of the requests let in, and that what left it was older than a  *)
(* window then, so is older now.                                           *)
(*                                                                         *)
(* Revoked invites, at the end, for every number of nodes and rooms.       *)
(***************************************************************************)
EXTENDS RequestGate, Revocations, SequenceTheorems, WellFoundedInduction, TLAPS

(* What holds of a peer's bucket b and its history h at time t.  The bucket  *)
(* is what is left of the history when its first L requests are taken away. *)
Suffix(b, h, L) ==
  /\ Len(h) = L + Len(b)
  /\ \A i \in 1 .. Len(b) : b[i] = h[L + i]

Aged(h, L, t) == \A i \in 1 .. L : t - h[i] > Window

Fits(b, h, t) == \E L \in Nat : Suffix(b, h, L) /\ Aged(h, L, t)

InOrder(h, t) ==
  /\ \A i \in 1 .. Len(h) : h[i] <= t
  /\ \A i, j \in 1 .. Len(h) : i <= j => h[i] <= h[j]

(* l tells the limit each request of h was compared with.                  *)
Spaced(h, l) == \A j \in 1 .. Len(h) : l[j] < j => h[j] - h[j - l[j]] > Window

Positive(l) == l \in Seq(Nat) /\ \A j \in 1 .. Len(l) : 0 < l[j]

Gated(b, h, l, t) ==
  /\ b \in Seq(Nat) /\ h \in Seq(Nat) /\ Positive(l) /\ Len(l) = Len(h)
  /\ Fits(b, h, t) /\ InOrder(h, t) /\ Spaced(h, l)

FunsInv ==
  /\ bucket = [p \in Peer |-> bucket[p]] /\ passed = [p \in Peer |-> passed[p]]
  /\ under = [p \in Peer |-> under[p]]

GateInv ==
  /\ now \in Nat /\ config \in Config /\ FunsInv
  /\ \A p \in Peer : Gated(bucket[p], passed[p], under[p], now)
-----------------------------------------------------------------------------
(* A nonempty set of naturals has a least element.                         *)
LEMMA LeastNatural ==
  ASSUME NEW T \in SUBSET Nat, T # {}
  PROVE  \E n \in T : \A m \in T : n <= m
<1>1. IsWellFoundedOn(OpToRel(<, Nat), Nat)
  BY NatLessThanWellFounded
<1>2. PICK n \in T : \A m \in T : ~(<<m, n>> \in OpToRel(<, Nat))
  BY <1>1, WFMin
<1>3. \A m \in T : ~(m < n)
  BY <1>2, Zenon DEF OpToRel
<1> QED
  BY <1>3

(* PopExpired takes a prefix away, all of it older than a window.          *)
LEMMA PopExpiredSuffix ==
  ASSUME NEW b \in Seq(Nat)
  PROVE  \E k \in 0 .. Len(b) :
           /\ PopExpired(b) \in Seq(Nat)
           /\ Len(PopExpired(b)) = Len(b) - k
           /\ \A i \in 1 .. Len(b) - k : PopExpired(b)[i] = b[k + i]
           /\ \A i \in 1 .. k : ~(now - b[i] <= Window)
<1> DEFINE live == {i \in 1 .. Len(b) : now - b[i] <= Window}
<1>1. CASE live = {}
  <2>1. PopExpired(b) = << >>
    BY <1>1 DEF PopExpired
  <2>2. \A i \in 1 .. Len(b) : ~(now - b[i] <= Window)
    BY <1>1
  <2>3. WITNESS Len(b) \in 0 .. Len(b)
  <2> QED
    BY <2>1, <2>2
<1>2. CASE live # {}
  <2>1. live \in SUBSET Nat
    OBVIOUS
  <2>2. \E n \in live : \A m \in live : n <= m
    <3> HIDE DEF live
    <3> QED
      BY <1>2, <2>1, LeastNatural
  <2>3. Min(live) \in live /\ \A m \in live : Min(live) <= m
    <3> HIDE DEF live
    <3> QED
      BY <2>2 DEF Min
  <2>4. PICK n \in 1 .. Len(b) : n = Min(live)
    BY <2>3
  <2>5. PopExpired(b) = SubSeq(b, n, Len(b))
    BY <1>2, <2>4 DEF PopExpired
  <2>6. ASSUME NEW i \in 1 .. n - 1
        PROVE  ~(now - b[i] <= Window)
    <3>1. i \in 1 .. Len(b) /\ ~(n <= i)
      OBVIOUS
    <3>2. i \notin live
      <4> HIDE DEF live
      <4> QED
        BY <2>3, <2>4, <3>1
    <3> QED
      BY <3>1, <3>2
  <2>7. /\ SubSeq(b, n, Len(b)) \in Seq(Nat)
        /\ Len(SubSeq(b, n, Len(b))) = Len(b) - (n - 1)
        /\ \A i \in 1 .. Len(b) - (n - 1) : SubSeq(b, n, Len(b))[i] = b[(n - 1) + i]
    OBVIOUS
  <2>8. n - 1 \in 0 .. Len(b)
    OBVIOUS
  <2> QED
    BY <2>5, <2>6, <2>7, <2>8
<1> QED
  BY <1>1, <1>2

(* Time passes.                                                            *)
LEMMA LaterFits ==
  ASSUME NEW b, NEW h, NEW l, NEW t \in Nat, NEW u \in Nat, t <= u, Gated(b, h, l, t)
  PROVE  Gated(b, h, l, u)
<1>1. PICK L \in Nat : Suffix(b, h, L) /\ Aged(h, L, t)
  BY DEF Gated, Fits
<1>2. PICK n \in Nat : n = Len(h) /\ L <= n
  BY <1>1 DEF Gated, Suffix
<1>3. \A i \in 1 .. n : h[i] \in Nat
  BY <1>2 DEF Gated
<1>4. Aged(h, L, u)
  BY <1>1, <1>2, <1>3, GateAssumption DEF Aged
<1>5. InOrder(h, u)
  BY <1>2, <1>3 DEF Gated, InOrder
<1> QED
  BY <1>1, <1>4, <1>5 DEF Gated, Fits

(* Pruning a bucket leaves a bucket.                                       *)
LEMMA PrunedFits ==
  ASSUME NEW b, NEW h, NEW l, now \in Nat, Gated(b, h, l, now)
  PROVE  Gated(PopExpired(b), h, l, now)
<1>1. b \in Seq(Nat) /\ h \in Seq(Nat)
  BY DEF Gated
<1>2. PICK k \in 0 .. Len(b) :
        /\ PopExpired(b) \in Seq(Nat) /\ Len(PopExpired(b)) = Len(b) - k
        /\ \A i \in 1 .. Len(b) - k : PopExpired(b)[i] = b[k + i]
        /\ \A i \in 1 .. k : ~(now - b[i] <= Window)
  BY <1>1, PopExpiredSuffix
<1>3. PICK c \in Seq(Nat) : c = PopExpired(b)
  BY <1>2
<1>4. PICK L \in Nat : Suffix(b, h, L) /\ Aged(h, L, now)
  BY DEF Gated, Fits
<1>5. PICK m \in Nat : m = Len(b)
  BY <1>1
<1>6. k \in 0 .. m /\ Len(c) = m - k /\ Len(h) = L + m
  BY <1>2, <1>3, <1>4, <1>5 DEF Suffix
<1>7. \A i \in 1 .. m : b[i] = h[L + i]
  BY <1>4, <1>5 DEF Suffix
<1>8. \A i \in 1 .. m : b[i] \in Nat
  BY <1>1, <1>5
<1>9. \A i \in 1 .. m - k : c[i] = b[k + i]
  BY <1>2, <1>3, <1>5
<1>10. \A i \in 1 .. k : ~(now - b[i] <= Window)
  BY <1>2
<1>11. Suffix(c, h, L + k)
  <2>1. Len(h) = L + k + Len(c)
    BY <1>6
  <2>2. ASSUME NEW i \in 1 .. m - k
        PROVE  c[i] = h[L + k + i]
    <3>1. k + i \in 1 .. m
      BY <1>6
    <3>2. c[i] = h[L + (k + i)]
      BY <1>7, <1>9, <3>1
    <3>3. L + (k + i) = L + k + i
      BY <1>6
    <3> QED
      BY <3>2, <3>3
  <2> QED
    BY <1>6, <2>1, <2>2 DEF Suffix
<1>12. ASSUME NEW i \in 1 .. L + k
       PROVE  now - h[i] > Window
  <2>1. CASE i <= L
    BY <1>4, <2>1 DEF Aged
  <2>2. CASE i > L
    <3>1. PICK j \in 1 .. k : i = L + j
      <4>1. i - L \in 1 .. k /\ i = L + (i - L)
        BY <1>6, <2>2
      <4> QED
        BY <4>1
    <3>2. j \in 1 .. m
      BY <1>6
    <3>3. h[i] = b[j] /\ b[j] \in Nat /\ ~(now - b[j] <= Window)
      BY <1>7, <1>8, <1>10, <3>1, <3>2
    <3>4. PICK x \in Nat : x = b[j]
      BY <3>3
    <3> QED
      BY <3>3, <3>4, GateAssumption
  <2> QED
    BY <1>6, <2>1, <2>2
<1>13. L + k \in Nat
  BY <1>6
<1> QED
  BY <1>3, <1>11, <1>12, <1>13 DEF Gated, Fits, Aged

(* A request is let in.                                                    *)
LEMMA LetInFits ==
  ASSUME NEW c, NEW h, NEW l, NEW t \in Nat, Gated(c, h, l, t),
         NEW limit \in Nat, 0 < limit, Len(c) < limit
  PROVE  Gated(Append(c, t), Append(h, t), Append(l, limit), t)
<1>1. c \in Seq(Nat) /\ h \in Seq(Nat) /\ l \in Seq(Nat) /\ Len(l) = Len(h)
  BY DEF Gated, Positive
<1>a. /\ Append(c, t) \in Seq(Nat) /\ Append(h, t) \in Seq(Nat)
      /\ Append(l, limit) \in Seq(Nat)
  BY <1>1, AppendProperties
<1>2. PICK d \in Seq(Nat) : d = Append(c, t)
  BY <1>a
<1>3. PICK g \in Seq(Nat) : g = Append(h, t)
  BY <1>a
<1>4. PICK L \in Nat : Suffix(c, h, L) /\ Aged(h, L, t)
  BY DEF Gated, Fits
<1>5. PICK m \in Nat : m = Len(c)
  BY <1>1
<1>6. PICK n \in Nat : n = Len(h)
  BY <1>1
<1>7. n = L + m /\ m < limit /\ Window \in Nat
  BY <1>4, <1>5, <1>6, GateAssumption DEF Suffix
<1>8. Len(d) = m + 1 /\ d[m + 1] = t /\ \A i \in 1 .. m : d[i] = c[i]
  BY <1>1, <1>2, <1>5
<1>9. Len(g) = n + 1 /\ g[n + 1] = t /\ \A i \in 1 .. n : g[i] = h[i]
  BY <1>1, <1>3, <1>6
<1>10. \A i \in 1 .. n : h[i] \in Nat /\ h[i] <= t
  BY <1>1, <1>6 DEF Gated, InOrder
<1>11. \A i \in 1 .. L : t - h[i] > Window
  BY <1>4 DEF Aged
<1>12. Suffix(d, g, L)
  <2>1. ASSUME NEW i \in 1 .. m
        PROVE  d[i] = g[L + i]
    <3>1. L + i \in 1 .. n
      BY <1>7
    <3>2. c[i] = h[L + i]
      BY <1>4, <1>5 DEF Suffix
    <3> QED
      BY <1>8, <1>9, <3>1, <3>2
  <2>2. d[m + 1] = g[L + (m + 1)]
    <3>1. L + (m + 1) = n + 1
      BY <1>7
    <3>2. d[m + 1] = t /\ g[n + 1] = t
      BY <1>8, <1>9
    <3> QED
      BY <3>1, <3>2, Zenon
  <2>3. ASSUME NEW i \in 1 .. m + 1
        PROVE  d[i] = g[L + i]
    <3>1. CASE i = m + 1
      BY <2>2, <3>1, Zenon
    <3>2. CASE i # m + 1
      <4>1. i \in 1 .. m
        BY <3>2
      <4> QED
        BY <2>1, <4>1, Zenon
    <3> QED
      BY <3>1, <3>2
  <2>4. Len(g) = L + Len(d)
    BY <1>7, <1>8, <1>9
  <2>5. \A i \in 1 .. Len(d) : d[i] = g[L + i]
    BY <1>8, <2>3, Zenon
  <2> QED
    BY <2>4, <2>5, Zenon DEF Suffix
<1>13. Aged(g, L, t)
  <2> SUFFICES ASSUME NEW i \in 1 .. L
               PROVE  t - g[i] > Window
    BY DEF Aged
  <2>1. i \in 1 .. n
    BY <1>7
  <2> QED
    BY <1>9, <1>11, <2>1
<1>14. InOrder(g, t)
  <2>1. ASSUME NEW i \in 1 .. n + 1
        PROVE  g[i] <= t
    <3>1. CASE i = n + 1
      BY <1>9, <3>1
    <3>2. CASE i \in 1 .. n
      BY <1>9, <1>10, <3>2
    <3> QED
      BY <3>1, <3>2
  <2>2. \A i, j \in 1 .. n : i <= j => h[i] <= h[j]
    BY <1>6 DEF Gated, InOrder
  <2>3. ASSUME NEW i \in 1 .. n + 1, NEW j \in 1 .. n + 1, i <= j
        PROVE  g[i] <= g[j]
    <3>1. CASE j = n + 1
      BY <1>9, <2>1, <3>1
    <3>2. CASE j \in 1 .. n
      BY <1>9, <2>2, <2>3, <3>2
    <3> QED
      BY <3>1, <3>2
  <2> QED
    BY <1>9, <2>1, <2>3 DEF InOrder
<1>15. PICK k \in Seq(Nat) : k = Append(l, limit)
  BY <1>a
<1>16. /\ Len(k) = n + 1 /\ k[n + 1] = limit
       /\ \A j \in 1 .. n : k[j] = l[j] /\ l[j] \in Nat /\ 0 < l[j]
  <2>1. \A j \in 1 .. Len(l) : 0 < l[j]
    BY DEF Gated, Positive
  <2> QED
    BY <1>1, <1>6, <1>15, <2>1
<1>17. Spaced(g, k)
  <2> SUFFICES ASSUME NEW j \in 1 .. n + 1, k[j] < j
               PROVE  g[j] - g[j - k[j]] > Window
    BY <1>9 DEF Spaced
  <2>1. CASE j \in 1 .. n
    <3>1. PICK q \in Nat : q = l[j] /\ q = k[j] /\ 0 < q
      BY <1>16, <2>1
    <3>2. h[j] - h[j - q] > Window
      BY <1>6, <2>1, <3>1 DEF Gated, Spaced
    <3>3. j - q \in 1 .. n
      BY <2>1, <3>1
    <3> QED
      BY <1>9, <2>1, <3>1, <3>2, <3>3
  <2>2. CASE j = n + 1
    <3>1. PICK i \in 1 .. n : i = j - limit /\ i <= L
      <4>1. j - limit \in 1 .. n /\ j - limit <= L
        BY <1>7, <1>16, <2>2
      <4> QED
        BY <4>1
    <3>2. t - h[i] > Window /\ g[i] = h[i] /\ g[n + 1] = t
      BY <1>9, <1>11, <3>1
    <3> QED
      BY <1>16, <2>2, <3>1, <3>2
  <2> QED
    BY <2>1, <2>2
<1>18. Len(k) = Len(g) /\ Positive(k)
  <2>1. ASSUME NEW j \in 1 .. n + 1
        PROVE  0 < k[j]
    <3>1. CASE j = n + 1
      BY <1>16, <3>1
    <3>2. CASE j \in 1 .. n
      BY <1>16, <3>2
    <3> QED
      BY <3>1, <3>2
  <2> QED
    BY <1>9, <1>16, <2>1 DEF Positive
<1> QED
  BY <1>2, <1>3, <1>12, <1>13, <1>14, <1>15, <1>17, <1>18 DEF Gated, Fits

LEMMA InitGate == Init => GateInv
<1> SUFFICES ASSUME Init PROVE GateInv
  OBVIOUS
<1>1. now \in Nat /\ config \in Config /\ FunsInv
  BY DEF Init, FunsInv
<1>2. Gated(<<>>, <<>>, <<>>, 0)
  <2>1. Suffix(<<>>, <<>>, 0) /\ Aged(<<>>, 0, 0)
    BY DEF Suffix, Aged
  <2>2. InOrder(<<>>, 0) /\ Spaced(<<>>, <<>>)
    BY DEF InOrder, Spaced
  <2> QED
    BY <2>1, <2>2 DEF Gated, Fits, Positive
<1>3. ASSUME NEW p \in Peer
      PROVE  bucket[p] = <<>> /\ passed[p] = <<>> /\ under[p] = <<>> /\ now = 0
  BY DEF Init
<1> QED
  BY <1>1, <1>2, <1>3 DEF GateInv

(* A step that leaves the buckets and the history alone.                   *)
LEMMA OnlyTime ==
  ASSUME GateInv, UNCHANGED <<bucket, passed, under>>, now' \in Nat, now <= now',
         config' \in Config
  PROVE  GateInv'
<1>1. FunsInv'
  BY DEF GateInv, FunsInv
<1>2. ASSUME NEW p \in Peer
      PROVE  Gated(bucket[p], passed[p], under[p], now)'
  <2>1. Gated(bucket[p], passed[p], under[p], now) /\ now \in Nat
    BY DEF GateInv
  <2>2. PICK t \in Nat : t = now
    BY <2>1
  <2>3. PICK u \in Nat : u = now'
    OBVIOUS
  <2>4. PICK b, h, l : b = bucket[p] /\ h = passed[p] /\ l = under[p]
    OBVIOUS
  <2>5. Gated(b, h, l, u)
    BY <2>1, <2>2, <2>3, <2>4, LaterFits
  <2>6. bucket'[p] = b /\ passed'[p] = h /\ under'[p] = l
    BY <2>4
  <2> QED
    BY <2>3, <2>5, <2>6
<1> QED
  BY <1>1, <1>2 DEF GateInv

(* What a request is compared with is one of the limits, all above 0.       *)
LEMMA PerMinuteType ==
  ASSUME config \in Config, NEW unread
  PROVE  PerMinute(unread) \in Limits \cup {Limit}
BY DEF PerMinute, Config

LEMMA LimitsPositive == \A limit \in Limits \cup {Limit} : limit \in Nat /\ 0 < limit
BY GateAssumption

(* A request: refused by the policy, refused by the limit, or let in.       *)
LEMMA RequestKeeps ==
  ASSUME GateInv, NEW p \in Peer, NEW kind, NEW t, NEW decrypts, NEW unread,
         Request(p, kind, t, decrypts, unread)
  PROVE  GateInv'
<1>1. now \in Nat /\ now' = now /\ FunsInv /\ config \in Config /\ config' = config
  BY DEF GateInv, Request
<1>2. PICK n \in Nat : n = now /\ n = now'
  BY <1>1
<1>3. \A q \in Peer : Gated(bucket[q], passed[q], under[q], n)
  BY <1>2 DEF GateInv
<1>4. PICK b, h, l : b = bucket[p] /\ h = passed[p] /\ l = under[p]
  OBVIOUS
<1>5. Gated(b, h, l, now)
  BY <1>2, <1>3, <1>4
<1>6. PICK c : c = PopExpired(b)
  OBVIOUS
<1>7. Gated(c, h, l, n)
  BY <1>1, <1>2, <1>5, <1>6, PrunedFits
<1>8. CASE bucket' = [bucket EXCEPT ![p] = c] /\ passed' = passed /\ under' = under
  <2>1. FunsInv'
    BY <1>1, <1>8 DEF FunsInv
  <2>2. ASSUME NEW q \in Peer
        PROVE  Gated(bucket'[q], passed'[q], under'[q], n)
    <3>1. CASE q = p
      <4>1. bucket'[q] = c /\ passed'[q] = h /\ under'[q] = l
        BY <1>1, <1>4, <1>8, <3>1 DEF FunsInv
      <4> QED
        BY <1>7, <4>1
    <3>2. CASE q # p
      <4>1. bucket'[q] = bucket[q] /\ passed'[q] = passed[q] /\ under'[q] = under[q]
        BY <1>1, <1>8, <3>2 DEF FunsInv
      <4> QED
        BY <1>3, <4>1
    <3> QED
      BY <3>1, <3>2
  <2> QED
    BY <1>1, <1>2, <2>1, <2>2 DEF GateInv
<1>9. ASSUME NEW limit \in Nat, 0 < limit, Len(c) < limit,
             bucket' = [bucket EXCEPT ![p] = Append(c, n)],
             passed' = [passed EXCEPT ![p] = Append(h, n)],
             under' = [under EXCEPT ![p] = Append(l, limit)]
      PROVE  GateInv'
  <2>1. FunsInv'
    BY <1>1, <1>9 DEF FunsInv
  <2>2. Gated(Append(c, n), Append(h, n), Append(l, limit), n)
    BY <1>7, <1>9, LetInFits
  <2>3. ASSUME NEW q \in Peer
        PROVE  Gated(bucket'[q], passed'[q], under'[q], n)
    <3>1. CASE q = p
      <4>1. bucket'[q] = Append(c, n) /\ passed'[q] = Append(h, n) /\ under'[q] = Append(l, limit)
        BY <1>1, <1>9, <3>1 DEF FunsInv
      <4> QED
        BY <2>2, <4>1
    <3>2. CASE q # p
      <4>1. bucket'[q] = bucket[q] /\ passed'[q] = passed[q] /\ under'[q] = under[q]
        BY <1>1, <1>9, <3>2 DEF FunsInv
      <4> QED
        BY <1>3, <4>1
    <3> QED
      BY <3>1, <3>2
  <2> QED
    BY <1>1, <1>2, <2>1, <2>3 DEF GateInv
<1> DEFINE limit == PerMinute(unread)
<1>10. CASE ~PeerCanContact(p, unread)
  <2>1. UNCHANGED <<bucket, passed, under>>
    BY <1>10 DEF Request, RejectionForRequest
  <2> QED
    BY <1>1, <1>2, <2>1, OnlyTime
<1>11. CASE PeerCanContact(p, unread) /\ ~RateLimitAllows(p, limit)
  <2>1. bucket' = [bucket EXCEPT ![p] = PopExpired(@)] /\ passed' = passed /\ under' = under
    BY <1>11 DEF Request, RejectionForRequest
  <2>2. bucket' = [bucket EXCEPT ![p] = c]
    BY <1>4, <1>6, <2>1
  <2> QED
    BY <1>8, <2>1, <2>2
<1>12. CASE PeerCanContact(p, unread) /\ RateLimitAllows(p, limit)
  <2>1. /\ bucket' = [bucket EXCEPT ![p] = Append(PopExpired(@), now)]
        /\ passed' = [passed EXCEPT ![p] = Append(@, now)]
        /\ under' = [under EXCEPT ![p] = Append(@, limit)]
    BY <1>12 DEF Request
  <2>2. /\ bucket' = [bucket EXCEPT ![p] = Append(c, n)]
        /\ passed' = [passed EXCEPT ![p] = Append(h, n)]
        /\ under' = [under EXCEPT ![p] = Append(l, limit)]
    BY <1>2, <1>4, <1>6, <2>1
  <2>3. Len(c) < limit
    BY <1>4, <1>6, <1>12 DEF RateLimitAllows
  <2>4. limit \in Nat /\ 0 < limit
    BY <1>1, PerMinuteType, LimitsPositive
  <2> HIDE DEF limit
  <2> QED
    BY <1>9, <2>2, <2>3, <2>4
<1> QED
  BY <1>10, <1>11, <1>12

LEMMA NextKeeps == GateInv /\ [Next]_vars => GateInv'
<1> SUFFICES ASSUME GateInv, [Next]_vars PROVE GateInv'
  OBVIOUS
<1>1. now \in Nat /\ config \in Config
  BY DEF GateInv
<1>2. CASE Tick
  BY <1>1, <1>2, OnlyTime DEF Tick, peerState
<1>3. ASSUME NEW c \in Config, SaveSettings(c)
      PROVE  GateInv'
  BY <1>1, <1>3, OnlyTime DEF SaveSettings, peerState
<1>4. ASSUME NEW p \in Peer, AddFriend(p) \/ RemoveFriend(p) \/ PollMailbox(p)
      PROVE  GateInv'
  <2>1. UNCHANGED <<bucket, passed, under, now, config>>
    BY <1>4 DEF AddFriend, RemoveFriend, PollMailbox, peerState
  <2> QED
    BY <1>1, <2>1, OnlyTime
<1>5. ASSUME NEW p \in Peer, NEW kind \in Kind, NEW t \in 0 .. MaxTime \cup {NoToken},
             NEW decrypts \in BOOLEAN, NEW unread \in Failing,
             Request(p, kind, t, decrypts, unread)
      PROVE  GateInv'
  BY <1>5, RequestKeeps
<1>6. CASE UNCHANGED vars
  BY <1>1, <1>6, OnlyTime DEF vars
<1> QED
  BY <1>2, <1>3, <1>4, <1>5, <1>6 DEF Next

(* The strengthening is an invariant of the specification.                 *)
THEOREM GateCorrect == Spec => []GateInv
BY InitGate, NextKeeps, PTL DEF Spec

(* rate_limit_allows (lib.rs 632-647): no window of a minute lets more      *)
(* requests of a peer through than the limit the last of them was compared  *)
(* with, the peer's or the one of the settings, for all limits and windows. *)
THEOREM RateBoundHolds == Spec => []RateBound
<1>1. GateInv => RateBound
  BY DEF GateInv, Gated, Spaced, RateBound
<1> QED
  BY <1>1, GateCorrect, PTL

(* rate_limit_allows never locks a peer out for good: one that has been     *)
(* silent for more than a window passes.                                   *)
THEOREM WaitedThenServedHolds == Spec => []WaitedThenServed
<1>1. ASSUME GateInv
      PROVE  WaitedThenServed
  <2> SUFFICES ASSUME NEW p \in Peer,
                      \A i \in 1 .. Len(passed[p]) : now - passed[p][i] > Window,
                      NEW limit \in Limits \cup {Limit}
               PROVE  RateLimitAllows(p, limit)
    BY DEF WaitedThenServed
  <2>1. PICK b, h, l : b = bucket[p] /\ h = passed[p] /\ l = under[p]
    OBVIOUS
  <2>2. Gated(b, h, l, now) /\ now \in Nat
    BY <1>1, <2>1 DEF GateInv
  <2>3. PICK n \in Nat : n = now
    BY <2>2
  <2>a. b \in Seq(Nat) /\ h \in Seq(Nat)
    BY <2>2 DEF Gated
  <2>4. PICK L \in Nat : Suffix(b, h, L)
    BY <2>2 DEF Gated, Fits
  <2>5. PICK m \in Nat : m = Len(b)
    BY <2>a
  <2>6. \A i \in 1 .. L + m : h[i] \in Nat /\ n - h[i] > Window
    BY <2>1, <2>3, <2>4, <2>5, <2>a DEF Suffix
  <2>7. ASSUME NEW i \in 1 .. m
        PROVE  ~(now - b[i] <= Window)
    <3>1. L + i \in 1 .. L + m /\ b[i] = h[L + i]
      BY <2>4, <2>5 DEF Suffix
    <3>2. PICK x \in Nat : x = b[i] /\ n - x > Window
      BY <2>6, <3>1
    <3> QED
      BY <2>3, <3>2, GateAssumption
  <2>8. {i \in 1 .. Len(b) : now - b[i] <= Window} = {}
    BY <2>5, <2>7
  <2>9. PopExpired(b) = <<>>
    BY <2>8 DEF PopExpired
  <2>10. Len(PopExpired(bucket[p])) = 0
    BY <2>1, <2>9
  <2> QED
    BY <2>10, LimitsPositive DEF RateLimitAllows
<1>2. GateInv => WaitedThenServed
  BY <1>1
<1> QED
  BY <1>2, GateCorrect, PTL
-----------------------------------------------------------------------------
(* The entries PopExpired leaves are among those it was given.             *)
LEMMA PopExpiredType ==
  ASSUME NEW b \in Seq(0 .. MaxTime)
  PROVE  PopExpired(b) \in Seq(0 .. MaxTime)
<1>1. b \in Seq(Nat) /\ \A i \in 1 .. Len(b) : b[i] \in 0 .. MaxTime
  <2>1. \A i \in 1 .. Len(b) : b[i] \in 0 .. MaxTime /\ b[i] \in Nat
    BY GateAssumption
  <2> QED
    BY <2>1, IsASeq, SeqDef
<1>2. PICK k \in 0 .. Len(b) :
        /\ PopExpired(b) \in Seq(Nat) /\ Len(PopExpired(b)) = Len(b) - k
        /\ \A i \in 1 .. Len(b) - k : PopExpired(b)[i] = b[k + i]
  BY <1>1, PopExpiredSuffix
<1>3. PICK c \in Seq(Nat) : c = PopExpired(b)
  BY <1>2
<1>4. PICK m \in Nat : m = Len(b)
  BY <1>1
<1>5. ASSUME NEW i \in 1 .. Len(c)
      PROVE  c[i] \in 0 .. MaxTime
  <2>1. k + i \in 1 .. m /\ i \in 1 .. m - k
    BY <1>2, <1>3, <1>4
  <2> QED
    BY <1>1, <1>2, <1>3, <1>4, <2>1
<1>6. c = [i \in 1 .. Len(c) |-> c[i]] /\ Len(c) \in Nat
  BY <1>3
<1>7. c \in [1 .. Len(c) -> 0 .. MaxTime]
  BY <1>5, <1>6
<1> QED
  <2>1. c \in UNION {[1 .. n -> 0 .. MaxTime] : n \in Nat}
    BY <1>6, <1>7, Zenon
  <2> QED
    BY <1>3, <2>1, SeqDef, Zenon

LEMMA InitTypeOK == Init => TypeOK
<1> SUFFICES ASSUME Init PROVE TypeOK
  OBVIOUS
<1>1. config \in Config /\ done \in Done
  BY DEF Init, Config, Done, Kind
<1>2. <<>> \in Seq(0 .. MaxTime)
  BY EmptySeq
<1> QED
  BY <1>1, <1>2, GateAssumption DEF Init, TypeOK

(* What HandOn writes is a Done.                                           *)
LEMMA HandOnType ==
  ASSUME TypeOK, NEW p \in Peer, NEW via \in Kind \cup {"mailbox"}, NEW t, NEW unread,
         HandOn(p, via, t, unread)
  PROVE  done' \in Done
<1>1. /\ (p \in friends) \in BOOLEAN /\ (t # NoToken /\ t \in (now - PowAge) .. now) \in BOOLEAN
      /\ ({"trust", "threshold"} \cap unread = {}) \in BOOLEAN
  OBVIOUS
<1>2. config.policy \in Policy /\ config.dm \in BOOLEAN /\ config.file \in BOOLEAN
  BY DEF TypeOK, Config
<1> QED
  BY <1>1, <1>2 DEF HandOn, Done

(* A handler counts at most one failure, and hands at most one thing on.    *)
LEMMA HandleType ==
  ASSUME TypeOK, NEW p \in Peer, NEW kind, NEW t, NEW decrypts, NEW unread,
         Handle(p, kind, t, decrypts, unread)
  PROVE  failures' \in [Peer -> 0 .. Threshold] /\ done' \in Done
<1>1. failures \in [Peer -> 0 .. Threshold] /\ done \in Done
  BY DEF TypeOK
<1>2. {"file", "signal", "legacy", "x3dh"} = Kind
  BY DEF Kind
<1>3. CASE PrivateMessage(p, t, unread)
  <2>1. CASE RecordFailure(p) /\ UNCHANGED done
    <3>1. failures' = [failures EXCEPT ![p] = IF failures[p] < Threshold THEN failures[p] + 1
                                               ELSE failures[p]]
      BY <2>1 DEF RecordFailure
    <3>2. failures[p] \in 0 .. Threshold
      BY <1>1
    <3> QED
      BY <1>1, <2>1, <3>1, <3>2, GateAssumption
  <2>2. CASE UNCHANGED failures /\ (UNCHANGED done \/ HandOn(p, "legacy", t, unread))
    BY <1>1, <1>2, <2>2, HandOnType
  <2> QED
    BY <1>3, <2>1, <2>2 DEF PrivateMessage
<1>4. CASE X3dhDm(p, decrypts, unread)
  BY <1>1, <1>2, <1>4, HandOnType DEF X3dhDm
<1>5. CASE FileRequest(p, unread)
  BY <1>1, <1>2, <1>5, HandOnType DEF FileRequest
<1>6. CASE Signal(p, unread)
  BY <1>1, <1>2, <1>6, HandOnType DEF Signal
<1> QED
  BY <1>3, <1>4, <1>5, <1>6 DEF Handle

LEMMA RequestType ==
  ASSUME TypeOK, NEW p \in Peer, NEW kind, NEW t, NEW decrypts, NEW unread,
         Request(p, kind, t, decrypts, unread)
  PROVE  TypeOK'
<1>1. /\ now \in 0 .. MaxTime /\ bucket \in [Peer -> Seq(0 .. MaxTime)]
      /\ passed \in [Peer -> Seq(0 .. MaxTime)] /\ under \in [Peer -> Seq(Limits \cup {Limit})]
  BY DEF TypeOK
<1>2. PICK c \in Seq(0 .. MaxTime) : c = PopExpired(bucket[p])
  BY <1>1, PopExpiredType
<1>3. PICK limit \in Limits \cup {Limit} : limit = PerMinute(unread)
  BY PerMinuteType DEF TypeOK
<1>4. /\ Append(c, now) \in Seq(0 .. MaxTime) /\ Append(passed[p], now) \in Seq(0 .. MaxTime)
      /\ Append(under[p], limit) \in Seq(Limits \cup {Limit})
  BY <1>1, <1>2, AppendProperties
<1>5. /\ bucket' \in [Peer -> Seq(0 .. MaxTime)] /\ passed' \in [Peer -> Seq(0 .. MaxTime)]
      /\ under' \in [Peer -> Seq(Limits \cup {Limit})]
      /\ failures' \in [Peer -> 0 .. Threshold] /\ done' \in Done
  <2>1. CASE ~PeerCanContact(p, unread)
    BY <2>1 DEF Request, RejectionForRequest, TypeOK
  <2>2. CASE PeerCanContact(p, unread) /\ ~RateLimitAllows(p, limit)
    <3>1. bucket' = [bucket EXCEPT ![p] = c] /\ UNCHANGED <<failures, done, passed, under>>
      BY <1>2, <1>3, <2>2 DEF Request, RejectionForRequest
    <3> QED
      BY <1>1, <3>1 DEF TypeOK
  <2>3. CASE PeerCanContact(p, unread) /\ RateLimitAllows(p, limit)
    <3>1. /\ bucket' = [bucket EXCEPT ![p] = Append(c, now)]
          /\ passed' = [passed EXCEPT ![p] = Append(passed[p], now)]
          /\ under' = [under EXCEPT ![p] = Append(under[p], limit)]
          /\ Handle(p, kind, t, decrypts, unread)
      BY <1>2, <1>3, <2>3 DEF Request
    <3>2. failures' \in [Peer -> 0 .. Threshold] /\ done' \in Done
      BY <3>1, HandleType
    <3> QED
      BY <1>1, <1>4, <3>1, <3>2
  <2> QED
    BY <2>1, <2>2, <2>3
<1>6. UNCHANGED <<now, friends, config>>
  BY DEF Request
<1> QED
  BY <1>5, <1>6 DEF TypeOK

LEMMA NextTypeOK == TypeOK /\ [Next]_vars => TypeOK'
<1> SUFFICES ASSUME TypeOK, [Next]_vars PROVE TypeOK'
  OBVIOUS
<1>1. CASE Tick
  BY <1>1, GateAssumption DEF Tick, peerState, TypeOK
<1>2. ASSUME NEW c \in Config, SaveSettings(c)
      PROVE  TypeOK'
  BY <1>2 DEF SaveSettings, peerState, TypeOK
<1>3. ASSUME NEW p \in Peer, AddFriend(p) \/ RemoveFriend(p)
      PROVE  TypeOK'
  BY <1>3 DEF AddFriend, RemoveFriend, peerState, TypeOK
<1>4. ASSUME NEW p \in Peer, PollMailbox(p)
      PROVE  TypeOK'
  <2>1. done' \in Done
    BY <1>4, HandOnType DEF PollMailbox
  <2> QED
    BY <1>4, <2>1 DEF PollMailbox, TypeOK
<1>5. ASSUME NEW p \in Peer, NEW kind \in Kind, NEW t \in 0 .. MaxTime \cup {NoToken},
             NEW decrypts \in BOOLEAN, NEW unread \in Failing,
             Request(p, kind, t, decrypts, unread)
      PROVE  TypeOK'
  BY <1>5, RequestType
<1>6. CASE UNCHANGED vars
  BY <1>6 DEF vars, TypeOK
<1> QED
  BY <1>1, <1>2, <1>3, <1>4, <1>5, <1>6 DEF Next

(* The state of the gate (lib.rs 824-845) stays what its types say: the     *)
(* buckets hold times of the clock, and the limits are the configured ones. *)
THEOREM GateTypeCorrect == Spec => []TypeOK
BY InitTypeOK, NextTypeOK, PTL DEF Spec
-----------------------------------------------------------------------------
(* What one handler hands on of a peer's request that passed the policy.    *)
LEMMA HandleKeepsPolicy ==
  ASSUME TypeOK, PolicyKept, NEW p \in Peer, NEW unread, PeerCanContact(p, unread), NEW kind,
         NEW t \in 0 .. MaxTime \cup {NoToken}, NEW decrypts,
         Handle(p, kind, t, decrypts, unread)
  PROVE  PolicyKept'
<1>1. p \in friends \/ config.policy = "allow"
  BY DEF PeerCanContact
<1>2. CASE UNCHANGED done
  BY <1>2 DEF PolicyKept
<1>3. ASSUME NEW via, NEW u, NEW failed, HandOn(p, via, u, failed)
      PROVE  /\ done'.via = via /\ done'.policy = config.policy
             /\ done'.above = IF via = "file" THEN config.file ELSE config.dm
             /\ done'.read => "trust" \notin failed /\ "threshold" \notin failed
             /\ p \in friends => done'.friend
             /\ u # NoToken /\ u \in (now - PowAge) .. now => done'.worked
  BY <1>3 DEF HandOn
<1>4. CASE PrivateMessage(p, t, unread) /\ HandOn(p, "legacy", t, unread) /\ ~UNCHANGED done
  <2>1. (p \in friends \/ Verify(t)) /\ ~BelowThreshold(config.dm, unread)
    BY <1>4 DEF PrivateMessage
  <2>2. Verify(t) => t # NoToken /\ t \in (now - PowAge) .. now
    BY GateAssumption DEF Verify, TypeOK
  <2>3. /\ done'.via = "legacy" /\ done'.policy = config.policy /\ done'.above = config.dm
        /\ done'.read => "trust" \notin unread /\ "threshold" \notin unread
        /\ p \in friends => done'.friend
        /\ t # NoToken /\ t \in (now - PowAge) .. now => done'.worked
    BY <1>3, <1>4
  <2> QED
    BY <1>1, <2>1, <2>2, <2>3 DEF PolicyKept, BelowThreshold
<1>5. CASE X3dhDm(p, decrypts, unread) /\ HandOn(p, "x3dh", NoToken, {"threshold"})
           /\ ~UNCHANGED done
  <2>1. p \in friends
    BY <1>5 DEF X3dhDm
  <2>2. done'.via = "x3dh" /\ done'.friend
    BY <1>3, <1>5, <2>1
  <2> QED
    BY <2>2 DEF PolicyKept
<1>6. CASE FileRequest(p, unread) /\ HandOn(p, "file", NoToken, unread) /\ ~UNCHANGED done
  <2>1. ~BelowThreshold(config.file, unread)
    BY <1>6 DEF FileRequest
  <2>2. /\ done'.via = "file" /\ done'.policy = config.policy /\ done'.above = config.file
        /\ done'.read => "trust" \notin unread /\ "threshold" \notin unread
        /\ p \in friends => done'.friend
    BY <1>3, <1>6
  <2> QED
    BY <1>1, <2>1, <2>2 DEF PolicyKept, BelowThreshold
<1>7. CASE Signal(p, unread)
  <2>1. /\ done'.via = "signal" /\ done'.policy = config.policy
        /\ p \in friends => done'.friend
    BY <1>3, <1>7 DEF Signal
  <2> QED
    BY <1>1, <2>1 DEF PolicyKept
<1> QED
  BY <1>2, <1>4, <1>5, <1>6, <1>7 DEF Handle, PrivateMessage, X3dhDm, FileRequest

LEMMA NextKeepsPolicy == TypeOK /\ PolicyKept /\ [Next]_vars => PolicyKept'
<1> SUFFICES ASSUME TypeOK, PolicyKept, [Next]_vars PROVE PolicyKept'
  OBVIOUS
<1>1. CASE UNCHANGED done
  BY <1>1 DEF PolicyKept
<1>2. ASSUME NEW p \in Peer, PollMailbox(p)
      PROVE  PolicyKept'
  <2>1. done'.via = "mailbox"
    BY <1>2 DEF PollMailbox, HandOn
  <2> QED
    BY <2>1 DEF PolicyKept, Kind
<1>3. ASSUME NEW p \in Peer, NEW kind \in Kind, NEW t \in 0 .. MaxTime \cup {NoToken},
             NEW decrypts \in BOOLEAN, NEW unread \in Failing,
             Request(p, kind, t, decrypts, unread)
      PROVE  PolicyKept'
  <2>1. CASE UNCHANGED done
    BY <1>1, <2>1
  <2>2. CASE PeerCanContact(p, unread) /\ Handle(p, kind, t, decrypts, unread)
    BY <1>3, <2>2, HandleKeepsPolicy
  <2> QED
    BY <1>3, <2>1, <2>2 DEF Request, RejectionForRequest
<1> QED
  BY <1>1, <1>2, <1>3
     DEF Next, Tick, SaveSettings, AddFriend, RemoveFriend, peerState, vars

(* peer_can_contact and the handlers (lib.rs 617-630 and 1473-1750):        *)
(* what a request hands on was a friend's or allowed by the policy of that  *)
(* moment and a stranger's message had work of the last PowAge, whichever   *)
(* reads fail and whatever is saved or removed in between; a file or a      *)
(* legacy message came past a threshold above the sender's trust only when  *)
(* the trust or the threshold could not be read.                            *)
THEOREM PolicyKeptHolds == Spec => []PolicyKept
<1>1. Init => PolicyKept
  BY DEF Init, PolicyKept, Kind
<1>2. TypeOK /\ PolicyKept /\ [Next]_vars => PolicyKept'
  BY NextKeepsPolicy
<1> QED
  BY <1>1, <1>2, GateTypeCorrect, PTL DEF Spec
-----------------------------------------------------------------------------
(* Marking only adds, and adds what it says.                                *)
LEMMA MarkAdds ==
  ASSUME RevocationsTypeOK, None \notin Node, NEW n \in Node, NEW i \in Invite, NEW by \in Node,
         MarkRevoked(n, i, by)
  PROVE  /\ revoked' \in [Node -> [Invite -> Node \cup {None}]]
         /\ \A m \in Node, j \in Invite : revoked[m][j] # None => revoked'[m][j] = revoked[m][j]
         /\ revoked'[n][i] # None
         /\ \A m \in Node, j \in Invite :
              revoked'[m][j] # revoked[m][j] => m = n /\ j = i /\ revoked'[m][j] = by
BY DEF RevocationsTypeOK, MarkRevoked

(* A mark, made or failed, of a name that is announced.                     *)
LEMMA MarkKeeps ==
  ASSUME RevocationsTypeOK, RevokedWasAnnounced, None \notin Node,
         NEW n \in Node, NEW i \in Invite, NEW by \in Node, NEW marked,
         IF marked THEN MarkRevoked(n, i, by) ELSE UNCHANGED revoked,
         announced \subseteq announced', \E a \in announced' : a.invite = i /\ a.by = by
  PROVE  /\ revoked' \in [Node -> [Invite -> Node \cup {None}]]
         /\ RevokedWasAnnounced'
         /\ \A m \in Node : Revoked(m) \subseteq Revoked(m)'
<1>1. CASE UNCHANGED revoked
  BY <1>1 DEF RevocationsTypeOK, RevokedWasAnnounced, Revoked
<1>2. CASE MarkRevoked(n, i, by)
  <2>1. ASSUME NEW m \in Node, NEW j \in Invite, revoked'[m][j] # None
        PROVE  \E a \in announced' : a.invite = j /\ a.by = revoked'[m][j]
    <3>1. CASE revoked'[m][j] = revoked[m][j]
      BY <2>1, <3>1 DEF RevokedWasAnnounced
    <3>2. CASE revoked'[m][j] # revoked[m][j]
      BY <1>2, <3>2, MarkAdds
    <3>. QED BY <3>1, <3>2
  <2>2. ASSUME NEW m \in Node PROVE Revoked(m) \subseteq Revoked(m)'
    BY <1>2, MarkAdds DEF Revoked
  <2>. QED BY <1>2, <2>1, <2>2, MarkAdds DEF RevokedWasAnnounced
<1>. QED BY <1>1, <1>2

(* The list that is put is the table's.                                     *)
LEMMA PutKeeps ==
  ASSUME RevocationsTypeOK, ListedIsRevoked, NEW n \in Node, NEW t \in Room, NEW listed,
         PutList(n, t, listed), \A m \in Node : Revoked(m) \subseteq Revoked(m)'
  PROVE  dht' \in [Room -> SUBSET Invite] /\ ListedIsRevoked'
<1>1. dht \in [Room -> SUBSET Invite] /\ Revoked(n)' \subseteq Invite
  BY DEF RevocationsTypeOK, Revoked
<1>2. ASSUME NEW u \in Room
      PROVE  dht'[u] = dht[u] \/ dht'[u] = Revoked(n)'
  BY <1>1 DEF PutList
<1>3. ASSUME NEW u \in Room, NEW j \in dht'[u] PROVE \E m \in Node : j \in Revoked(m)'
  <2>1. CASE j \in dht[u]
    BY <2>1 DEF ListedIsRevoked
  <2>2. CASE j \in Revoked(n)'
    BY <2>2
  <2>. QED BY <1>2, <1>3, <2>1, <2>2
<1>4. dht' \in [Room -> SUBSET Invite]
  BY <1>1 DEF PutList
<1>. QED BY <1>3, <1>4 DEF ListedIsRevoked

LEMMA RevokePreserves ==
  ASSUME RevocationInv, None \notin Node, NEW n \in Node, NEW i \in Invite,
         NEW marked, NEW listed, RevokeInviteGlobal(n, i, marked, listed)
  PROVE  RevocationInv'
<1>. USE DEF RevocationInv
<1>1. /\ IF marked THEN MarkRevoked(n, i, n) ELSE UNCHANGED revoked
      /\ announced' = announced \cup {[from |-> n, invite |-> i, by |-> n]}
      /\ PutList(n, topic[n], listed) /\ UNCHANGED <<up, topic, subscribed>>
  BY DEF RevokeInviteGlobal
<1>2. topic[n] \in Room /\ \E a \in announced' : a.invite = i /\ a.by = n
  <2>1. [from |-> n, invite |-> i, by |-> n] \in announced'
    BY <1>1
  <2>2. topic[n] \in Room
    BY DEF RevocationsTypeOK
  <2>3. \E a \in announced' : a.invite = i /\ a.by = n
    BY <2>1
  <2>. QED BY <2>2, <2>3
<1>3. /\ revoked' \in [Node -> [Invite -> Node \cup {None}]] /\ RevokedWasAnnounced'
      /\ \A m \in Node : Revoked(m) \subseteq Revoked(m)'
  BY <1>1, <1>2, MarkKeeps
<1>4. dht' \in [Room -> SUBSET Invite] /\ ListedIsRevoked'
  BY <1>1, <1>2, <1>3, PutKeeps
<1>5. RevocationsTypeOK'
  BY <1>1, <1>3, <1>4 DEF RevocationsTypeOK
<1>. QED BY <1>1, <1>3, <1>4, <1>5 DEF HearsItsRoom

LEMMA AnnouncementPreserves ==
  ASSUME RevocationInv, None \notin Node,
         NEW n \in Node, NEW a \in announced, NEW marked, ReceiveAnnouncement(n, a, marked)
  PROVE  RevocationInv'
<1>. USE DEF RevocationInv
<1>1. /\ IF marked THEN MarkRevoked(n, a.invite, a.by) ELSE UNCHANGED revoked
      /\ UNCHANGED <<up, topic, subscribed, announced, dht>>
  BY DEF ReceiveAnnouncement
<1>2. a.by \in Node /\ a.invite \in Invite
  BY DEF RevocationsTypeOK
<1>3. /\ revoked' \in [Node -> [Invite -> Node \cup {None}]] /\ RevokedWasAnnounced'
      /\ \A m \in Node : Revoked(m) \subseteq Revoked(m)'
  BY <1>1, <1>2, MarkKeeps
<1>4. ListedIsRevoked'
  BY <1>1, <1>3 DEF ListedIsRevoked
<1>5. RevocationsTypeOK'
  BY <1>1, <1>3 DEF RevocationsTypeOK
<1>. QED BY <1>1, <1>3, <1>4, <1>5 DEF HearsItsRoom

LEMMA PublishPreserves ==
  ASSUME RevocationInv, NEW n \in Node, NEW t \in Room, NEW listed,
         PublishRoomRevocations(n, t, listed)
  PROVE  RevocationInv'
<1>. USE DEF RevocationInv
<1>1. PutList(n, t, listed) /\ UNCHANGED <<up, topic, subscribed, revoked, announced>>
  BY DEF PublishRoomRevocations
<1>2. \A m \in Node : Revoked(m) \subseteq Revoked(m)'
  BY <1>1 DEF Revoked
<1>3. dht' \in [Room -> SUBSET Invite] /\ ListedIsRevoked'
  BY <1>1, <1>2, PutKeeps
<1>. QED BY <1>1, <1>3 DEF RevocationsTypeOK, RevokedWasAnnounced, HearsItsRoom

(* lib.rs:1113-1243 and 1450-1461: however nodes revoke, mark or fail to,   *)
(* gossip, lose and repeat announcements that may name anyone, publish      *)
(* lists, change rooms and restart, a table only says what was announced, a *)
(* list in the DHT only names what some table has, and a session hears its  *)
(* room.                                                                    *)
THEOREM RevocationsCorrect ==
  ASSUME None \notin Node PROVE RevocationsSpec => []RevocationInv
<1>1. RevocationsInit => RevocationInv
  BY DEF RevocationsInit, RevocationInv, RevocationsTypeOK, RevokedWasAnnounced, ListedIsRevoked,
     HearsItsRoom, Room
<1>2. RevocationInv /\ [RevocationsNext]_revocationsVars => RevocationInv'
  <2>. SUFFICES ASSUME RevocationInv, [RevocationsNext]_revocationsVars PROVE RevocationInv'
    OBVIOUS
  <2>. USE DEF RevocationInv, RevocationsTypeOK, RevokedWasAnnounced, ListedIsRevoked,
               HearsItsRoom, Revoked
  <2>1. ASSUME NEW n \in Node, StartSession(n) PROVE RevocationInv'
    BY <2>1 DEF StartSession
  <2>2. ASSUME NEW n \in Node, Restart(n) PROVE RevocationInv'
    BY <2>2 DEF Restart, Room
  <2>3. ASSUME NEW n \in Node, NEW t \in Room, JoinChannel(n, t) PROVE RevocationInv'
    BY <2>3 DEF JoinChannel
  <2>4. ASSUME NEW n \in Node, NEW t \in Room, JoinAnonymousChannel(n, t) PROVE RevocationInv'
    BY <2>4 DEF JoinAnonymousChannel
  <2>5. ASSUME NEW i \in Invite, NEW by \in Node, ForeignAnnouncement(i, by) PROVE RevocationInv'
    BY <2>5 DEF ForeignAnnouncement
  <2>6. CASE UNCHANGED revocationsVars
    BY <2>6 DEF revocationsVars
  <2>. QED
    BY <2>1, <2>2, <2>3, <2>4, <2>5, <2>6, RevokePreserves, AnnouncementPreserves,
       PublishPreserves DEF RevocationsNext
<1>. QED BY <1>1, <1>2, PTL DEF RevocationsSpec
=============================================================================
