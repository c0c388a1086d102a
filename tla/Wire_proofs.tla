---------------------------- MODULE Wire_proofs -----------------------------
(***************************************************************************)
(* What goes over the wire, for every number of nodes and every message:   *)
(* the frames and the handshake, which keep no state, then the peers a     *)
(* node knows and the messages that travel through a relay.                *)
(***************************************************************************)
EXTENDS Network, OnionMessages, Framing, X3dh, TLAPS

(* What every frame rests on: a prefix of what was written first is read    *)
(* back whatever filler follows.                                            *)
LEMMA PrefixReadBack ==
  ASSUME NEW S, NEW data \in Seq(S), NEW T, NEW filler \in Seq(T), NEW n \in 0 .. Len(data)
  PROVE  Holds(data \o filler, n) /\ Taken(data \o filler, n) = SubSeq(data, 1, n)
<1>1. data \in Seq(S \cup T) /\ filler \in Seq(S \cup T)
  OBVIOUS
<1>2. Len(data \o filler) = Len(data) + Len(filler) /\ Len(data) \in Nat /\ Len(filler) \in Nat
  BY <1>1
<1>3. \A i \in 1 .. n : (data \o filler)[i] = data[i]
  BY <1>1, <1>2
<1>4. SubSeq(data \o filler, 1, n) = [i \in 1 .. n |-> (data \o filler)[i]]
  BY <1>1, <1>2
<1>5. SubSeq(data, 1, n) = [i \in 1 .. n |-> data[i]]
  BY <1>2
<1>. QED BY <1>2, <1>3, <1>4, <1>5 DEF Holds, Taken

LEMMA WholePrefix ==
  ASSUME NEW S, NEW data \in Seq(S) PROVE SubSeq(data, 1, Len(data)) = data
OBVIOUS

LEMMA PaddingIsBytes ==
  ASSUME NEW len \in Nat
  PROVE  PadLen(len) \in 1 .. 512 /\ Padding(len) \in Seq(0 .. 255) /\ Len(Padding(len)) = PadLen(len)
<1>1. PadLen(len) \in 1 .. 512
  BY DEF PadLen, BLOCK_SIZE
<1>2. \A k \in Nat : LET f == [i \in 1 .. k |-> k % 256] IN f \in Seq(0 .. 255) /\ Len(f) = k
  OBVIOUS
<1>3. PadLen(len) \in Nat
  BY <1>1
<1>4. LET k == PadLen(len) IN [i \in 1 .. k |-> k % 256] \in Seq(0 .. 255)
                             /\ Len([i \in 1 .. k |-> k % 256]) = k
  BY <1>2, <1>3
<1>. QED BY <1>1, <1>4 DEF Padding

(* traffic.rs:8-31: unpad_message gives back exactly what pad_message was   *)
(* given, for every message whose length the prefix can hold.               *)
THEOREM FramingUnpadsPadded ==
  ASSUME NEW S, NEW data \in Seq(S), Len(data) < Width32
  PROVE  Unpads(Padded(data)) /\ Unpadded(Padded(data)) = data
<1>1. Len(data) \in Nat /\ Len(data) % Width32 = Len(data)
  BY DEF Width32
<1>2. Padding(Len(data)) \in Seq(0 .. 255)
  BY <1>1, PaddingIsBytes
<1>3. Len(data) \in 0 .. Len(data)
  BY <1>1
<1>4. Holds(data \o Padding(Len(data)), Len(data))
      /\ Taken(data \o Padding(Len(data)), Len(data)) = SubSeq(data, 1, Len(data))
  BY <1>2, <1>3, PrefixReadBack
<1>. QED BY <1>1, <1>4, WholePrefix DEF Unpads, Unpadded, Padded

(* traffic.rs:4-5: what is padded fills whole blocks, at most one more than *)
(* it has to; but the length field is outside of them, so that no padded    *)
(* message has the size of a chaff payload (comment, traffic.rs:34-35).     *)
THEOREM PaddedFillsBlocks ==
  ASSUME NEW S, NEW data \in Seq(S)
  PROVE  /\ Len(Padded(data).body) % BLOCK_SIZE = 0
         /\ Len(Padded(data).body) \in Len(data) + 1 .. Len(data) + BLOCK_SIZE
         /\ PaddedSize(data) # ChaffSize
<1>1. Len(data) \in Nat /\ PadLen(Len(data)) \in 1 .. 512 /\ Padding(Len(data)) \in Seq(0 .. 255)
  BY PaddingIsBytes
<1>2. Len(Padding(Len(data))) = PadLen(Len(data))
  BY PaddingIsBytes
<1>3. data \in Seq(S \cup 0 .. 255) /\ Padding(Len(data)) \in Seq(S \cup 0 .. 255)
  BY <1>1
<1>4. Len(Padded(data).body) = Len(data) + PadLen(Len(data))
  BY <1>2, <1>3 DEF Padded
<1>5. (Len(data) + PadLen(Len(data))) % 512 = 0
  <2>1. \A n \in Nat : n + (512 - (n % 512)) = 512 * (n \div 512 + 1) /\ n \div 512 \in Nat
    OBVIOUS
  <2>2. \A q \in Nat : (512 * (q + 1)) % 512 = 0
    OBVIOUS
  <2>. QED BY <1>1, <2>1, <2>2 DEF PadLen, BLOCK_SIZE
<1>6. Len(Padded(data).body) % 512 = 0
  BY <1>4, <1>5
<1>. DEFINE L == Len(data)  P == PadLen(L)  B == Len(Padded(data).body)
<1>7. B \in L + 1 .. L + 512 /\ B % 512 = 0
  <2>1. L \in Nat /\ P \in 1 .. 512 /\ B = L + P /\ B % 512 = 0
    BY <1>1, <1>4, <1>6
  <2>. HIDE DEF L, P, B
  <2>. QED BY <2>1
<1>8. 4 + B # 512
  <2>1. L \in Nat
    OBVIOUS
  <2>. HIDE DEF L, P, B
  <2>. QED BY <1>7, <2>1
<1>. QED BY <1>7, <1>8 DEF BLOCK_SIZE, ChaffSize, PaddedSize

(* pluggable.rs:82-127: with the key of the sender, deobfuscate unmasks     *)
(* every byte it takes, and gives back the data or, beyond the width of the *)
(* length field, a prefix of it, without an error.                          *)
THEOREM Obfs4ReadsBack ==
  ASSUME NEW S, NEW data \in Seq(S), NEW key, NEW nonce, NEW T, NEW filler \in Seq(T)
  PROVE  LET p == Obfs4(data, key, nonce, filler)
         IN  /\ Obfs4Reads(p)
             /\ \A i \in 1 .. p.len : Opens(Taken(p.body, p.len)[i], key, p.nonce, i)
             /\ Obfs4Read(p) = SubSeq(data, 1, Len(data) % Width16)
<1> DEFINE n == Len(data) % Width16
           m == Masked(data, key, nonce)
           M == [byte : S, key : {key}, nonce : {nonce}, at : Nat]
<1>1. Len(data) \in Nat /\ n \in 0 .. Len(data)
  BY DEF Width16
<1>2. m \in Seq(M) /\ Len(m) = Len(data)
  BY <1>1 DEF Masked
<1>3. n \in 0 .. Len(m)
  BY <1>1, <1>2
<1>4. Holds(m \o filler, n) /\ Taken(m \o filler, n) = SubSeq(m, 1, n)
  <2>. HIDE DEF m, n, M
  <2>. QED BY <1>2, <1>3, PrefixReadBack
<1>5. ASSUME NEW i \in 1 .. n
      PROVE  SubSeq(m, 1, n)[i].byte = data[i] /\ Opens(SubSeq(m, 1, n)[i], key, nonce, i)
  <2>1. SubSeq(m, 1, n)[i] = m[i]
    <3>. HIDE DEF m, n, M
    <3>. QED BY <1>1, <1>2
  <2>2. m[i] = [byte |-> data[i], key |-> key, nonce |-> nonce, at |-> i]
    BY <1>1 DEF Masked
  <2>. HIDE DEF m, n, M
  <2>3. SubSeq(m, 1, n)[i] = [byte |-> data[i], key |-> key, nonce |-> nonce, at |-> i]
    BY <2>1, <2>2
  <2> DEFINE b == SubSeq(m, 1, n)[i]
  <2>4. b = [byte |-> data[i], key |-> key, nonce |-> nonce, at |-> i]
    BY <2>3
  <2>5. b.byte = data[i] /\ b.key = key /\ b.nonce = nonce /\ b.at = i
    <3>. HIDE DEF b
    <3>. QED BY <2>4
  <2>. QED BY <2>5 DEF Opens
<1>6. SubSeq(data, 1, n) = [i \in 1 .. n |-> data[i]]
  BY <1>1
<1>7. [i \in 1 .. n |-> SubSeq(m, 1, n)[i].byte] = SubSeq(data, 1, n)
  <2>. HIDE DEF m, n
  <2>. QED BY <1>5, <1>6
<1>8. \A i \in 1 .. n : Opens(SubSeq(m, 1, n)[i], key, nonce, i)
  <2>. HIDE DEF m, n
  <2>. QED BY <1>5
<1>. QED
  <2> DEFINE p == Obfs4(data, key, nonce, filler)
  <2>1. p.len = n /\ p.nonce = nonce /\ p.body = m \o filler
    BY DEF Obfs4
  <2>. HIDE DEF m, n, p
  <2>2. Obfs4Reads(p) /\ Taken(p.body, p.len) = SubSeq(m, 1, n)
    BY <1>4, <2>1 DEF Obfs4Reads
  <2>3. Obfs4Read(p) = SubSeq(data, 1, n)
    BY <1>7, <2>1, <2>2 DEF Obfs4Read
  <2>4. \A i \in 1 .. p.len : Opens(Taken(p.body, p.len)[i], key, p.nonce, i)
    BY <1>8, <2>1, <2>2
  <2>. QED BY <2>2, <2>3, <2>4 DEF p, n

(* pluggable.rs:167-193: the same of Snowflake frames.                      *)
THEOREM SnowflakeReadsBack ==
  ASSUME NEW S, NEW data \in Seq(S), NEW T, NEW filler \in Seq(T)
  PROVE  LET p == Snowflake(data, filler)
         IN  SnowflakeReads(p) /\ SnowflakeRead(p) = SubSeq(data, 1, Len(data) % Width16)
<1>1. Len(data) % Width16 \in 0 .. Len(data)
  BY DEF Width16
<1>. QED BY <1>1, PrefixReadBack DEF Snowflake, SnowflakeReads, SnowflakeRead

(* onion.rs:34-39: "16 KB Sphinx fixed packet size".  Every layer of up to  *)
(* 16376 bytes is padded to that size, eight bytes less than was meant; a   *)
(* larger one is not padded, and for seven lengths wrap_onion panics.       *)
THEOREM OnionLayerSizes ==
  ASSUME NEW len \in Nat
  PROVE  /\ len <= 16376 => ~LayerPanics(len) /\ LayerSize(len) = 16376
         /\ len >= TARGET_SIZE => LayerSize(len) = len
         /\ LayerPanics(len) <=> len \in 16377 .. 16383
BY DEF LayerPanics, LayerSize, LayerPadding, TARGET_SIZE

(* storage.rs:49-51: every byte of a file is in exactly the chunk, and at   *)
(* the place in it, that its position says, and every chunk but the last is *)
(* full: the chunks in order are the file.                                  *)
THEOREM ChunksCoverData ==
  ASSUME NEW S, NEW data \in Seq(S)
  PROVE  /\ \A p \in 1 .. Len(data) :
              LET i == ((p - 1) \div DEFAULT_CHUNK_SIZE) + 1
                  j == ((p - 1) % DEFAULT_CHUNK_SIZE) + 1
              IN  /\ i \in 1 .. ChunkCount(data)
                  /\ j \in 1 .. Len(Chunks(data)[i]) /\ Chunks(data)[i][j] = data[p]
         /\ \A i \in 1 .. ChunkCount(data) :
              /\ i < ChunkCount(data) => Len(Chunks(data)[i]) = DEFAULT_CHUNK_SIZE
              /\ i = ChunkCount(data)
                   => Len(Chunks(data)[i]) = Len(data) - (i - 1) * DEFAULT_CHUNK_SIZE
<1>1. Len(data) \in Nat /\ ChunkCount(data) \in Nat
  BY DEF ChunkCount, DEFAULT_CHUNK_SIZE
<1>2. \A i \in 1 .. ChunkCount(data) : ChunkFrom(i) \in 1 .. Len(data) /\ ChunkTo(data, i) \in ChunkFrom(i) .. Len(data)
  BY <1>1 DEF ChunkCount, ChunkFrom, ChunkTo, DEFAULT_CHUNK_SIZE
<1>3. \A i \in 1 .. ChunkCount(data) :
        /\ Len(Chunks(data)[i]) = ChunkTo(data, i) - ChunkFrom(i) + 1
        /\ \A j \in 1 .. Len(Chunks(data)[i]) : Chunks(data)[i][j] = data[ChunkFrom(i) + j - 1]
  <2>. SUFFICES ASSUME NEW i \in 1 .. ChunkCount(data)
                PROVE  LET s == SubSeq(data, ChunkFrom(i), ChunkTo(data, i))
                       IN  /\ Len(s) = ChunkTo(data, i) - ChunkFrom(i) + 1
                           /\ \A j \in 1 .. Len(s) : s[j] = data[ChunkFrom(i) + j - 1]
    BY DEF Chunks
  <2>. QED BY <1>1, <1>2
<1>4. ASSUME NEW p \in 1 .. Len(data)
      PROVE  LET i == ((p - 1) \div DEFAULT_CHUNK_SIZE) + 1
                 j == ((p - 1) % DEFAULT_CHUNK_SIZE) + 1
             IN  /\ i \in 1 .. ChunkCount(data)
                 /\ j \in 1 .. ChunkTo(data, i) - ChunkFrom(i) + 1 /\ ChunkFrom(i) + j - 1 = p
  BY <1>1, <1>4 DEF ChunkCount, ChunkFrom, ChunkTo, DEFAULT_CHUNK_SIZE
<1>5. \A i \in 1 .. ChunkCount(data) :
        /\ i < ChunkCount(data) => ChunkTo(data, i) - ChunkFrom(i) + 1 = DEFAULT_CHUNK_SIZE
        /\ i = ChunkCount(data)
             => ChunkTo(data, i) - ChunkFrom(i) + 1 = Len(data) - (i - 1) * DEFAULT_CHUNK_SIZE
  BY <1>1 DEF ChunkCount, ChunkFrom, ChunkTo, DEFAULT_CHUNK_SIZE
<1>6. ASSUME NEW p \in 1 .. Len(data)
      PROVE  LET i == ((p - 1) \div DEFAULT_CHUNK_SIZE) + 1
                 j == ((p - 1) % DEFAULT_CHUNK_SIZE) + 1
             IN  /\ i \in 1 .. ChunkCount(data)
                 /\ j \in 1 .. Len(Chunks(data)[i]) /\ Chunks(data)[i][j] = data[p]
  BY <1>3, <1>4
<1>. QED BY <1>3, <1>5, <1>6
-----------------------------------------------------------------------------
LEMMA PairsAgree ==
  \A a, b, c : DH(a, b) = DH(a, c) <=> b = c
<1>1. \A a, b, c : {a, b} = {a, c} => b = c
  OBVIOUS
<1>. QED BY <1>1 DEF DH

(* x3dh.rs:29-60 and 140-177: whoever receives with the secrets of the      *)
(* bundle the message was made for derives the secret of the initiator, and *)
(* whoever uses a secret of another bundle, which rotation, once a week and *)
(* at every login, leaves in the DHT and in caches, is told nothing and     *)
(* derives a different one.                                                 *)
THEOREM Agreement ==
  ASSUME NEW alice, NEW ephemeral, NEW drawn,
         NEW ik, NEW spk, NEW opk, NEW dk,
         NEW myIk, NEW mySpk, NEW myOpk, NEW myDk
  PROVE  LET bundle == PreKeyBundle(ik, spk, opk, dk)
             m == InitialMessage(alice, ephemeral, drawn, bundle)
         IN  (/\ Receives(myOpk, m)
              /\ ReceivedSecret(myIk, mySpk, myOpk, myDk, m)
                   = InitiatedSecret(alice, ephemeral, drawn, bundle))
             <=> (/\ myIk = ik /\ mySpk = spk /\ myDk = dk
                  /\ opk # None => myOpk = opk)
<1> DEFINE bundle == PreKeyBundle(ik, spk, opk, dk)
           m == InitialMessage(alice, ephemeral, drawn, bundle)
           ct == Ciphertext(dk, drawn)
<1>1. /\ m.identity_key = alice /\ m.ephemeral_key = ephemeral
      /\ m.ml_kem_ct = ct /\ m.used_opk = (opk # None)
      /\ bundle.identity_key = ik /\ bundle.signed_prekey = spk
      /\ bundle.one_time_prekey = opk /\ bundle.ml_kem_ek = dk
  BY DEF PreKeyBundle, InitialMessage
<1>. HIDE DEF bundle, m, ct
<1>2. InitiatedSecret(alice, ephemeral, drawn, bundle)
        = <<DH(alice, spk), DH(ephemeral, ik), DH(ephemeral, spk),
            IF opk # None THEN DH(ephemeral, opk) ELSE {}, Decapsulate(dk, ct)>>
  BY <1>1 DEF InitiatedSecret, SharedSecret, ct
<1>3. ReceivedSecret(myIk, mySpk, myOpk, myDk, m)
        = <<DH(mySpk, alice), DH(myIk, ephemeral), DH(mySpk, ephemeral),
            IF opk # None THEN DH(myOpk, ephemeral) ELSE {}, Decapsulate(myDk, ct)>>
  BY <1>1 DEF ReceivedSecret, SharedSecret
<1>4. \A a, b : DH(a, b) = DH(b, a)
  BY DEF DH
<1>5. Decapsulate(myDk, ct) = Decapsulate(dk, ct) <=> myDk = dk
  BY DEF Decapsulate
<1>6. ReceivedSecret(myIk, mySpk, myOpk, myDk, m) = InitiatedSecret(alice, ephemeral, drawn, bundle)
        <=> /\ DH(alice, mySpk) = DH(alice, spk)
            /\ DH(ephemeral, myIk) = DH(ephemeral, ik)
            /\ DH(ephemeral, mySpk) = DH(ephemeral, spk)
            /\ opk # None => DH(ephemeral, myOpk) = DH(ephemeral, opk)
            /\ Decapsulate(myDk, ct) = Decapsulate(dk, ct)
  BY <1>2, <1>3, <1>4
<1>7. ReceivedSecret(myIk, mySpk, myOpk, myDk, m) = InitiatedSecret(alice, ephemeral, drawn, bundle)
        <=> /\ mySpk = spk /\ myIk = ik /\ myDk = dk
            /\ opk # None => myOpk = opk
  BY <1>5, <1>6, PairsAgree
<1>8. Receives(myOpk, m) <=> (opk # None => myOpk # None)
  BY <1>1 DEF Receives
<1>. QED BY <1>7, <1>8 DEF m, bundle

(* Test test_x3dh_shared_secret_uniqueness (x3dh.rs): two handshakes of the *)
(* same peers over the same bundle have different secrets, if either the    *)
(* ephemeral keys or what the encapsulations drew differ.                   *)
THEOREM FreshSecrets ==
  ASSUME NEW alice, NEW bundle, NEW ephemeral, NEW drawn, NEW ephemeral2, NEW drawn2,
         ephemeral # ephemeral2 \/ drawn # drawn2
  PROVE  InitiatedSecret(alice, ephemeral, drawn, bundle)
           # InitiatedSecret(alice, ephemeral2, drawn2, bundle)
<1> DEFINE ek == bundle.ml_kem_ek  ik == bundle.identity_key
<1>1. SUFFICES ASSUME InitiatedSecret(alice, ephemeral, drawn, bundle)
                        = InitiatedSecret(alice, ephemeral2, drawn2, bundle)
               PROVE  ephemeral = ephemeral2 /\ drawn = drawn2
  OBVIOUS
<1>2. /\ DH(ephemeral, ik) = DH(ephemeral2, ik)
      /\ Decapsulate(ek, Ciphertext(ek, drawn)) = Decapsulate(ek, Ciphertext(ek, drawn2))
  BY <1>1 DEF InitiatedSecret, SharedSecret
<1>3. DH(ephemeral, ik) = DH(ik, ephemeral) /\ DH(ephemeral2, ik) = DH(ik, ephemeral2)
  BY DEF DH
<1>4. ephemeral = ephemeral2
  <2>. HIDE DEF ik
  <2>1. DH(ik, ephemeral) = DH(ik, ephemeral2)
    BY <1>2, <1>3
  <2>. QED BY <2>1, PairsAgree
<1>5. Ciphertext(ek, drawn) = Ciphertext(ek, drawn2)
  BY <1>2 DEF Decapsulate
<1>. QED BY <1>4, <1>5 DEF Ciphertext

(* db.rs:230-258: of any two attempts to mark an opk, in whatever order and *)
(* with others marked in between, at most one succeeds.                     *)
THEOREM OpkUsedOnce ==
  ASSUME NEW used, NEW others, NEW id
  PROVE  LET first == MarkOpkUsed(used, id)
         IN  /\ IsOpkUsed(first.used \cup others, id)
             /\ ~MarkOpkUsed(first.used \cup others, id).ok
BY DEF MarkOpkUsed, IsOpkUsed
-----------------------------------------------------------------------------
(* Which mDNS events count is decided by mdns_enabled at the time, so the   *)
(* explicit peers follow only while it has never been off.                 *)
NetworkInv ==
  TypeOK /\ ExplicitAreAnnounced /\ lapsed \subseteq Peers(announced) /\ (steady => mdnsEnabled)

LEMMA StartSessionKeeps ==
  ASSUME NetworkInv, NEW remembered \in SUBSET Peer, StartSession(remembered)
  PROVE  NetworkInv'
<1>1. TypeOK /\ config \in Config /\ UNCHANGED <<now, config, knownFile>>
  BY DEF NetworkInv, TypeOK, StartSession, SaveKnownPeers
<1>2. session' \in Session
  <2>1. SwarmTransport(config) \in Transport
    BY DEF SwarmTransport, Transport
  <2>2. ProxyMode(config) \in Proxy
    BY <1>1, NetworkAssumption DEF ProxyMode, Config
  <2>3. ListenOn(config) \in {"tcp", "quic", "no"}
    BY DEF ListenOn
  <2>4. CreateSwarmDials(config) \cup remembered \cup UserBootstrap \in SUBSET Peer
    BY <1>1, NetworkAssumption DEF CreateSwarmDials, EffectiveBootstrapAddrs, UserBootstrap, TypeOK
  <2> QED
    BY <2>1, <2>2, <2>3, <2>4 DEF StartSession, Session
<1>3. lastSeen' \in [Peer -> 0 .. MaxTime \cup {Never}]
  <2>1. CleanupOldPeers \in [Peer -> 0 .. MaxTime \cup {Never}]
    BY <1>1 DEF CleanupOldPeers, TypeOK
  <2> QED
    BY <1>1, <2>1 DEF StartSession, TypeOK
<1>4. config.mdns \in BOOLEAN
  BY <1>1 DEF Config
<1>5. TypeOK'
  BY <1>1, <1>2, <1>3, <1>4 DEF StartSession, TypeOK
<1> QED
  BY <1>5 DEF NetworkInv, ExplicitAreAnnounced, Peers, StartSession

LEMMA NetworkEventKeeps ==
  ASSUME NetworkInv, NEW list \in SUBSET (Peer \X Address),
         MdnsDiscovered(list) \/ MdnsExpired(list)
  PROVE  NetworkInv'
<1> USE DEF NetworkInv
<1>1. /\ UNCHANGED <<now, config, open, session, mdnsEnabled, steady, knownFile, lastSeen>>
      /\ Peers(list) \subseteq Peer
  <2>1. \A pair \in list : pair[1] \in Peer
    OBVIOUS
  <2>2. Peers(list) \subseteq Peer
    BY <2>1 DEF Peers
  <2> QED
    BY <2>2 DEF MdnsDiscovered, MdnsExpired, disk
<1>2. CASE MdnsDiscovered(list)
  <2>1. Peers(announced') = Peers(announced) \cup Peers(list)
    BY <1>2 DEF MdnsDiscovered, Peers
  <2>2. /\ lapsed' = lapsed \ Peers(list) /\ announced' = announced \cup list
        /\ explicit' = IF mdnsEnabled THEN explicit \cup Peers(list) ELSE explicit
    BY <1>2 DEF MdnsDiscovered
  <2>3. TypeOK'
    BY <1>1, <2>2 DEF TypeOK
  <2>4. Peers(announced)' = Peers(announced')
    BY DEF Peers
  <2>5. ExplicitAreAnnounced'
    BY <1>1, <2>1, <2>2, <2>4 DEF ExplicitAreAnnounced
  <2> QED
    BY <1>1, <2>1, <2>2, <2>3, <2>4, <2>5
<1>3. CASE MdnsExpired(list)
  <2>1. Peers(announced) = Peers(announced') \cup Peers(list)
    BY <1>3 DEF MdnsExpired, Peers
  <2>2. /\ lapsed' = (lapsed \cup Peers(list)) \cap Peers(announced')
        /\ announced' = announced \ list
        /\ explicit' = IF mdnsEnabled THEN explicit \ Peers(list) ELSE explicit
    BY <1>3 DEF MdnsExpired
  <2>3. TypeOK'
    BY <1>1, <2>2 DEF TypeOK
  <2>4. Peers(announced)' = Peers(announced')
    BY DEF Peers
  <2>5. ExplicitAreAnnounced'
    BY <1>1, <2>1, <2>2, <2>4 DEF ExplicitAreAnnounced
  <2> QED
    BY <1>1, <2>2, <2>3, <2>4, <2>5
<1> QED
  BY <1>2, <1>3

LEMMA NextNetwork ==
  ASSUME NetworkInv, [Next]_vars PROVE NetworkInv'
<1> USE DEF NetworkInv
<1>1. CASE UNCHANGED vars
  BY <1>1 DEF vars, TypeOK, ExplicitAreAnnounced, Peers
<1>2. CASE Tick
  BY <1>2, NetworkAssumption DEF Tick, mdnsState, disk, TypeOK, ExplicitAreAnnounced, Peers
<1>3. CASE Restart
  <2>1. NoSession \in Session
    BY NetworkAssumption DEF NoSession, Session, Transport
  <2> QED
    BY <1>3, <2>1 DEF Restart, disk, TypeOK, ExplicitAreAnnounced, Peers
<1>4. ASSUME NEW remembered \in SUBSET Peer, StartSession(remembered) PROVE NetworkInv'
  BY <1>4, StartSessionKeeps
<1>5. ASSUME NEW c \in Config, SaveSettings(c) PROVE NetworkInv'
  BY <1>5 DEF SaveSettings, disk, TypeOK, Config, ExplicitAreAnnounced
<1>6. ASSUME NEW list \in SUBSET (Peer \X Address), MdnsDiscovered(list) \/ MdnsExpired(list)
      PROVE  NetworkInv'
  BY <1>6, NetworkEventKeeps
<1>7. ASSUME NEW p \in Peer, IdentifyReceived(p) PROVE NetworkInv'
  BY <1>7 DEF IdentifyReceived, mdnsState, TypeOK, ExplicitAreAnnounced, Peers
<1> QED
  BY <1>1, <1>2, <1>3, <1>4, <1>5, <1>6, <1>7 DEF Next

LEMMA InitNetwork == Init => NetworkInv
<1> SUFFICES ASSUME Init PROVE NetworkInv
  OBVIOUS
<1>1. session \in Session
  BY NetworkAssumption DEF Init, NoSession, Session, Transport
<1>2. config \in Config
  BY NetworkAssumption DEF Init, Config, Preference
<1>3. now \in 0 .. MaxTime
  BY NetworkAssumption DEF Init
<1>4. lastSeen \in [Peer -> 0 .. MaxTime \cup {Never}]
  BY DEF Init
<1> QED
  BY <1>1, <1>2, <1>3, <1>4 DEF Init, NetworkInv, TypeOK, ExplicitAreAnnounced, Peers

(* For every number of peers, and whatever addresses the user and the       *)
(* environment name.                                                       *)
THEOREM NetworkCorrect == Spec => []NetworkInv
BY InitNetwork, NextNetwork, PTL DEF Spec

(* The swarm's settings, the peers it dials and the two stores of known     *)
(* peers stay what they are.                                               *)
THEOREM NetworkTypeCorrect == Spec => []TypeOK
<1>1. NetworkInv => TypeOK
  BY DEF NetworkInv
<1> QED
  BY <1>1, NetworkCorrect, PTL

(* The handlers of mDNS events (lib.rs 1853-1872), which do nothing while    *)
(* mDNS is off, keep gossipsub's explicit peers those announced, if it never *)
(* was off, for any number of addresses of a peer, but for the peers that    *)
(* lost one of them and were not reported since.                            *)
THEOREM ExplicitAreAnnouncedHolds == Spec => []ExplicitAreAnnounced
<1>1. NetworkInv => ExplicitAreAnnounced
  BY DEF NetworkInv
<1> QED
  BY <1>1, NetworkCorrect, PTL

(* cleanup_old_peers and the order and limit of load_known_peers (db.rs):   *)
(* what a session remembers was heard of within the week, and no peer left  *)
(* out was heard of later.                                                 *)
THEOREM RememberedAreRecentHolds == Spec => RememberedAreRecent
<1> DEFINE Recent ==
      session' # session =>
        \A p \in session'.remembered :
          /\ lastSeen[p] # Never /\ now - lastSeen[p] <= Week
          /\ \A q \in Peer \ session'.remembered :
               lastSeen[q] # Never => lastSeen[q] <= lastSeen[p]
<1>1. ASSUME NetworkInv, Next PROVE Recent
  <2>1. CASE session' = session
    BY <2>1
  <2>2. CASE Restart
    BY <2>2 DEF Restart, NoSession
  <2>3. ASSUME NEW remembered \in SUBSET Peer, StartSession(remembered) PROVE Recent
    <3>1. session'.remembered = remembered
      BY <2>3 DEF StartSession
    <3>2. CASE ~open
      BY <2>3, <3>1, <3>2 DEF StartSession
    <3>3. CASE open
      <4> DEFINE known == {p \in Peer : CleanupOldPeers[p] # Never}
      <4>1. remembered \subseteq known /\ Latest(known, remembered)
        BY <2>3, <3>3 DEF StartSession, LoadKnownPeers
      <4>2. now \in Nat /\ Week \in Nat /\ lastSeen \in [Peer -> Nat \cup {Never}]
        BY <1>1, NetworkAssumption DEF NetworkInv, TypeOK
      <4>3. \A p \in Peer :
              p \in known <=> lastSeen[p] # Never /\ ~(lastSeen[p] < now - Week)
        BY DEF CleanupOldPeers
      <4>4. \A p \in known : lastSeen[p] \in Nat /\ lastSeen[p] # Never /\ now - lastSeen[p] <= Week
        BY <4>2, <4>3
      <4>5. ASSUME NEW p \in remembered, NEW q \in Peer \ remembered, lastSeen[q] # Never
            PROVE  lastSeen[q] <= lastSeen[p]
        <5>1. PICK a \in Nat, b \in Nat : a = lastSeen[p] /\ b = lastSeen[q]
          BY <4>1, <4>2, <4>4, <4>5
        <5>2. CASE q \in known
          BY <4>1, <5>2, <5>1 DEF Latest
        <5>3. CASE q \notin known
          <6>1. b < now - Week
            BY <4>3, <4>5, <5>1, <5>3
          <6>2. now - a <= Week
            BY <4>1, <4>4, <5>1
          <6> QED
            BY <4>2, <5>1, <6>1, <6>2
        <5> QED
          BY <5>2, <5>3
      <4> QED
        BY <3>1, <4>1, <4>4, <4>5
    <3> QED
      BY <3>2, <3>3
  <2> QED
    BY <1>1, <2>1, <2>2, <2>3
       DEF Next, Tick, SaveSettings, MdnsDiscovered, MdnsExpired, IdentifyReceived
<1>2. NetworkInv /\ [Next]_vars => [Recent]_vars
  BY <1>1
<1>3. Spec => [][Recent]_vars
  <2> HIDE DEF Recent
  <2> QED
    BY <1>2, NetworkCorrect, PTL DEF Spec
<1> QED
  BY <1>3 DEF RememberedAreRecent
-----------------------------------------------------------------------------
(* A request is on its way to its last hop, or to the relay before it.      *)
Routed ==
  \A r \in net : IF r.onion THEN \/ r.route = <<r.to, r.msg.to>>
                                 \/ r.route = <<r.to>> /\ r.to = r.msg.to
                 ELSE r.to = r.msg.to

(* What is under way was counted by its sender.                            *)
Counted ==
  /\ \A n, m \in Node : sendCount[n][m] <= sent
  /\ \A r \in net : /\ r.msg.counter < sendCount[r.msg.from][r.msg.to]
                    /\ r.msg.from \in Older => r.msg.format = "legacy"

(* The receiver's ratchet is past whatever it has shown.                   *)
Behind ==
  ~undone => \A n \in Node : \A i \in 1 .. Len(shown[n]) :
    shown[n][i].format = "legacy" => shown[n][i].counter < recvCount[n][shown[n][i].from]

OnionInv == OnionTypeOK /\ Routed /\ Counted /\ Behind /\ ShownInOrder /\ LegacyAccounted

Is(msg, n, m, k) == msg.from = n /\ msg.to = m /\ msg.counter = k

Accounted(n, m, k) ==
  \/ \E r \in net : Is(r.msg, n, m, k)
  \/ \E i \in 1 .. Len(shown[m]) : Is(shown[m][i], n, m, k)
  \/ \E msg \in missed : Is(msg, n, m, k)

LEMMA AllAccounted ==
  LegacyAccounted <=>
    \A n \in Older, m \in Node : \A k \in 0 .. sendCount[n][m] - 1 : Accounted(n, m, k)
BY DEF LegacyAccounted, Accounted, Is

LEMMA InitOnion == OnionInit => OnionInv
<1> SUFFICES ASSUME OnionInit PROVE OnionInv
  OBVIOUS
<1>1. 0 \in 0 .. MaxSent /\ MaxSent \in Nat /\ Older \subseteq Node
  BY OnionAssumption
<1>2. \A n \in Node : shown[n] = <<>> /\ shown[n] \in Seq(Msg) /\ Len(shown[n]) = 0
  BY DEF OnionInit
<1>3. \A n, m \in Node : sendCount[n][m] = 0
  BY DEF OnionInit, Pairs
<1>4. OnionTypeOK
  <2>1. shown \in [Node -> Seq(Msg)]
    BY <1>2 DEF OnionInit
  <2> QED
    BY <1>1, <2>1 DEF OnionInit, OnionTypeOK, Pairs
<1>5. Routed /\ Counted
  BY <1>3 DEF OnionInit, Routed, Counted
<1>6. Behind /\ ShownInOrder
  BY <1>2 DEF Behind, ShownInOrder
<1>7. LegacyAccounted
  BY <1>1, <1>3, AllAccounted
<1> QED
  BY <1>4, <1>5, <1>6, <1>7 DEF OnionInv

(* The fields of a request under way.                                      *)
LEMMA RequestFields ==
  ASSUME OnionTypeOK, NEW r \in net
  PROVE  /\ r \in Request /\ r.msg \in Msg /\ r.from \in Node /\ r.to \in Node
         /\ r.msg.from \in Node /\ r.msg.to \in Node /\ r.msg.counter \in Nat
BY OnionAssumption DEF OnionTypeOK, Request, Msg

LEMMA Counts ==
  ASSUME OnionTypeOK
  PROVE  /\ sent \in Nat /\ MaxSent \in Nat /\ sent <= MaxSent
         /\ \A a, b \in Node : sendCount[a][b] \in Nat /\ recvCount[a][b] \in Nat
<1>1. MaxSent \in Nat /\ 0 .. MaxSent \subseteq Nat
  BY OnionAssumption
<1>2. ASSUME NEW a \in Node, NEW b \in Node
      PROVE  sendCount[a][b] \in 0 .. MaxSent /\ recvCount[a][b] \in 0 .. MaxSent
  BY DEF OnionTypeOK
<1>3. sent \in 0 .. MaxSent
  BY DEF OnionTypeOK
<1> QED
  BY <1>1, <1>2, <1>3

LEMMA OnionRemoveFriendKeeps ==
  ASSUME OnionInv, NEW n \in Node, NEW m \in Node, RemoveFriend(n, m)
  PROVE  OnionInv'
<1>1. UNCHANGED <<sent, sendCount, recvCount, net, shown, missed, undone>>
  BY DEF RemoveFriend
<1>2. OnionTypeOK'
  BY <1>1 DEF OnionInv, OnionTypeOK, RemoveFriend
<1> QED
  BY <1>1, <1>2 DEF OnionInv, Routed, Counted, Behind, ShownInOrder, LegacyAccounted

LEMMA SendKeeps ==
  ASSUME OnionInv, NEW n \in Node, NEW to \in Node, NEW relay \in Node, NEW use_onion \in BOOLEAN,
         Send(n, to, use_onion, relay)
  PROVE  OnionInv'
<1> DEFINE msg == [id |-> sent + 1, from |-> n, to |-> to,
                   format |-> IF n \in Older THEN "legacy" ELSE "x3dh",
                   chain |-> SendChain(n, to), counter |-> sendCount[n][to]]
           onion == use_onion /\ Relays(n, to) # {}
           r == IF onion
                THEN [from |-> n, to |-> relay, onion |-> TRUE, route |-> WrapOnion(relay, to),
                      msg |-> msg]
                ELSE [from |-> n, to |-> to, onion |-> FALSE, route |-> <<>>, msg |-> msg]
<1>1. /\ OnionTypeOK /\ UNCHANGED <<friends, recvCount, shown, missed, undone>>
      /\ sent < MaxSent /\ sent' = sent + 1 /\ net' = net \cup {r}
      /\ sendCount' = [sendCount EXCEPT ![n][to] = @ + 1]
  BY DEF OnionInv, Send
<1>2. /\ sent \in Nat /\ MaxSent \in Nat /\ sendCount[n][to] \in Nat
      /\ sendCount[n][to] <= sent
  BY <1>1, Counts DEF OnionInv, Counted
<1>3. msg \in Msg
  <2>1. sent + 1 \in 1 .. MaxSent /\ sendCount[n][to] \in 0 .. MaxSent
    BY <1>1, <1>2
  <2>2. SendChain(n, to) \in {"low_to_high", "high_to_low"}
    BY DEF SendChain
  <2> QED
    BY <2>1, <2>2 DEF Msg
<1>4. /\ msg.from = n /\ msg.to = to /\ msg.counter = sendCount[n][to]
      /\ n \in Older => msg.format = "legacy"
  OBVIOUS
<1> HIDE DEF msg
<1>5. /\ r.msg = msg
      /\ IF r.onion THEN r.route = <<r.to, r.msg.to>> ELSE r.to = r.msg.to
      /\ r \in Request
  <2>1. CASE onion
    <3>1. r = [from |-> n, to |-> relay, onion |-> TRUE, route |-> <<relay, to>>, msg |-> msg]
      BY <2>1 DEF WrapOnion
    <3>2. <<relay, to>> \in [1 .. 2 -> Node]
      OBVIOUS
    <3>3. <<relay, to>> \in UNION {[1 .. k -> Node] : k \in 0 .. 2}
      BY <3>2
    <3>4. r \in Request
      BY <1>3, <3>1, <3>3 DEF Request
    <3> QED
      BY <1>4, <3>1, <3>4
  <2>2. CASE ~onion
    <3>1. r = [from |-> n, to |-> to, onion |-> FALSE, route |-> <<>>, msg |-> msg]
      BY <2>2
    <3>2. <<>> \in [1 .. 0 -> Node]
      OBVIOUS
    <3>3. <<>> \in UNION {[1 .. k -> Node] : k \in 0 .. 2}
      BY <3>2
    <3>4. r \in Request
      BY <1>3, <3>1, <3>3 DEF Request
    <3> QED
      BY <1>4, <3>1, <3>4
  <2> QED
    BY <2>1, <2>2
<1> HIDE DEF r
<1>6. \A a, b \in Node :
        sendCount'[a][b] = IF a = n /\ b = to THEN sendCount[n][to] + 1 ELSE sendCount[a][b]
  BY <1>1 DEF OnionTypeOK
<1>7. OnionTypeOK'
  <2>1. sent' \in 0 .. MaxSent
    BY <1>1, <1>2
  <2>2. sendCount[n][to] + 1 \in 0 .. MaxSent
    BY <1>1, <1>2
  <2>3. sendCount' \in [Node -> [Node -> 0 .. MaxSent]]
    BY <1>1, <2>2 DEF OnionTypeOK
  <2> QED
    BY <1>1, <1>5, <2>1, <2>3 DEF OnionTypeOK
<1>8. Routed'
  BY <1>1, <1>5 DEF OnionInv, Routed
<1>9. Counted'
  <2>1. ASSUME NEW a \in Node, NEW b \in Node PROVE sendCount'[a][b] <= sent'
    <3>1. sendCount[a][b] \in Nat /\ sendCount[a][b] <= sent
      BY <1>1, Counts DEF OnionInv, Counted
    <3> QED
      BY <1>1, <1>2, <1>6, <3>1
  <2>2. ASSUME NEW q \in net'
        PROVE  /\ q.msg.counter < sendCount'[q.msg.from][q.msg.to]
               /\ q.msg.from \in Older => q.msg.format = "legacy"
    <3>1. CASE q = r
      BY <1>2, <1>4, <1>5, <1>6, <3>1
    <3>2. CASE q \in net
      <4>1. /\ q.msg.from \in Node /\ q.msg.to \in Node /\ q.msg.counter \in Nat
        BY <1>1, <3>2, RequestFields
      <4>2. /\ q.msg.counter < sendCount[q.msg.from][q.msg.to]
            /\ q.msg.from \in Older => q.msg.format = "legacy"
        BY <3>2 DEF OnionInv, Counted
      <4>3. sendCount[q.msg.from][q.msg.to] \in Nat
        BY <1>1, <4>1, Counts
      <4> QED
        BY <1>2, <1>6, <4>1, <4>2, <4>3
    <3> QED
      BY <1>1, <3>1, <3>2
  <2> QED
    BY <2>1, <2>2 DEF Counted
<1>10. Behind' /\ ShownInOrder'
  BY <1>1 DEF OnionInv, Behind, ShownInOrder
<1>11. LegacyAccounted'
  <2>1. ASSUME NEW a \in Older, NEW b \in Node, NEW k \in 0 .. sendCount'[a][b] - 1
        PROVE  Accounted(a, b, k)'
    <3>1. a \in Node /\ sendCount[a][b] \in Nat
      BY <1>1, OnionAssumption, Counts
    <3>2. CASE k \in 0 .. sendCount[a][b] - 1
      <4>1. Accounted(a, b, k)
        BY <3>2, AllAccounted DEF OnionInv
      <4> QED
        BY <1>1, <4>1 DEF Accounted
    <3>3. CASE k \notin 0 .. sendCount[a][b] - 1
      <4>1. a = n /\ b = to /\ k = sendCount[n][to]
        BY <1>2, <1>6, <3>1, <3>3
      <4>2. r \in net' /\ Is(r.msg, a, b, k)
        BY <1>1, <1>4, <1>5, <4>1 DEF Is
      <4> QED
        BY <4>2 DEF Accounted
    <3> QED
      BY <3>2, <3>3
  <2> QED
    BY <2>1 DEF LegacyAccounted, Accounted, Is
<1> QED
  BY <1>7, <1>8, <1>9, <1>10, <1>11 DEF OnionInv

(* What may become of a request r that n handles.                          *)
Dropped(r) == r.msg.format # "legacy" /\ UNCHANGED <<shown, missed, recvCount, undone>>

Refused(r) == missed' = missed \cup {r.msg} /\ UNCHANGED <<shown, recvCount, undone>>

Shown(n, r) ==
  /\ n = r.msg.to /\ shown' = [shown EXCEPT ![n] = Append(@, r.msg)] /\ missed' = missed
  /\ \/ r.msg.format # "legacy" /\ UNCHANGED <<recvCount, undone>>
     \/ /\ r.msg.counter >= recvCount[n][r.msg.from]
        /\ \/ /\ recvCount' = [recvCount EXCEPT ![n][r.msg.from] = r.msg.counter + 1]
              /\ undone' = undone
           \/ recvCount' = recvCount /\ undone' = TRUE

LEMMA RatchetOutcome ==
  ASSUME OnionTypeOK, NEW n \in Node, NEW r \in net, NEW saved \in BOOLEAN, n = r.msg.to,
         RatchetPrivateMessage(n, r.msg, saved)
  PROVE  Refused(r) \/ Shown(n, r)
<1>1. undone \in BOOLEAN
  BY DEF OnionTypeOK
<1>2. CASE r.msg.from \in friends[n] /\ RatchetDecrypts(n, r.msg)
  <2>1. /\ shown' = [shown EXCEPT ![n] = Append(@, r.msg)] /\ missed' = missed
        /\ r.msg.counter >= recvCount[n][r.msg.from]
    BY <1>2 DEF RatchetPrivateMessage, RatchetDecrypts, Show
  <2>2. CASE saved
    BY <1>1, <1>2, <2>1, <2>2 DEF RatchetPrivateMessage, Shown
  <2>3. CASE ~saved
    BY <1>1, <1>2, <2>1, <2>3 DEF RatchetPrivateMessage, Shown
  <2> QED
    BY <2>2, <2>3
<1>3. CASE ~(r.msg.from \in friends[n] /\ RatchetDecrypts(n, r.msg))
  BY <1>3 DEF RatchetPrivateMessage, Refused
<1> QED
  BY <1>2, <1>3

LEMMA HandleOutcome ==
  ASSUME OnionTypeOK, Routed, NEW n \in Node, NEW r \in net, NEW saved \in BOOLEAN,
         Handle(n, r, saved)
  PROVE  /\ UNCHANGED <<friends, sent, sendCount>>
         /\ \/ net' = net \ {r} /\ (Dropped(r) \/ Refused(r) \/ Shown(n, r))
            \/ /\ net' = (net \ {r}) \cup Forward(n, r) /\ UNCHANGED <<shown, missed, recvCount, undone>>
               /\ r.onion /\ r.route = <<n, r.msg.to>>
<1>1. UNCHANGED <<friends, sent, sendCount>> /\ r.to = n
  BY DEF Handle
<1>2. CASE r.from \notin friends[n]
  BY <1>1, <1>2 DEF Handle, Refused
<1>3. CASE r.from \in friends[n] /\ r.onion
  <2>1. PeelOnion(n, r, saved)
    BY <1>3 DEF Handle
  <2>2. CASE r.route = <<r.to, r.msg.to>>
    <3>1. r.route[1] = n /\ Len(r.route) = 2
      BY <1>1, <2>2
    <3> QED
      BY <1>1, <1>3, <2>1, <2>2, <3>1 DEF PeelOnion
  <2>3. CASE r.route = <<r.to>> /\ r.to = r.msg.to
    <3>1. r.route[1] = n /\ Len(r.route) = 1 /\ n = r.msg.to
      BY <1>1, <2>3
    <3>2. net' = net \ {r}
      BY <2>1, <3>1 DEF PeelOnion
    <3>3. CASE r.msg.format = "legacy"
      <4>1. RatchetPrivateMessage(n, r.msg, saved)
        BY <2>1, <3>1, <3>3 DEF PeelOnion
      <4> QED
        BY <1>1, <3>1, <3>2, <4>1, RatchetOutcome
    <3>4. CASE r.msg.format # "legacy"
      BY <1>1, <2>1, <3>1, <3>2, <3>4 DEF PeelOnion, Dropped
    <3> QED
      BY <3>3, <3>4
  <2> QED
    BY <1>3, <2>2, <2>3 DEF Routed
<1>4. CASE r.from \in friends[n] /\ ~r.onion
  <2>1. n = r.msg.to
    BY <1>1, <1>4 DEF Routed
  <2>2. net' = net \ {r}
    BY <1>4 DEF Handle
  <2>3. CASE r.msg.format = "legacy"
    <3>1. RatchetPrivateMessage(n, r.msg, saved)
      BY <1>4, <2>3 DEF Handle
    <3> QED
      BY <1>1, <2>1, <2>2, <3>1, RatchetOutcome
  <2>4. CASE r.msg.format # "legacy"
    <3>1. X3dhDm(n, r.msg)
      BY <1>4, <2>4 DEF Handle
    <3> QED
      BY <1>1, <2>1, <2>2, <2>4, <3>1 DEF X3dhDm, Show, Shown, Refused
  <2> QED
    BY <2>3, <2>4
<1> QED
  BY <1>2, <1>3, <1>4

(* Requests that leave the network.                                        *)
LEMMA FewerRequests ==
  ASSUME Routed, Counted, net' \subseteq net, UNCHANGED <<sent, sendCount>>
  PROVE  Routed' /\ Counted'
BY DEF Routed, Counted

LEMMA SameShown ==
  ASSUME Behind, ShownInOrder, UNCHANGED <<shown, recvCount, undone>>
  PROVE  Behind' /\ ShownInOrder'
BY DEF Behind, ShownInOrder

(* A request may go when its message is accounted for without it.          *)
LEMMA StaysAccounted ==
  ASSUME LegacyAccounted, sendCount' = sendCount, OnionTypeOK, Counted, NEW r \in net,
         net \ {r} \subseteq net', missed \subseteq missed',
         \A m \in Node : \A i \in 1 .. Len(shown[m]) :
           i \in 1 .. Len(shown'[m]) /\ shown'[m][i] = shown[m][i],
         \A n \in Older, m \in Node, k \in Nat : Is(r.msg, n, m, k) => Accounted(n, m, k)'
  PROVE  LegacyAccounted'
<1>1. ASSUME NEW n \in Older, NEW m \in Node, NEW k \in 0 .. sendCount'[n][m] - 1
      PROVE  Accounted(n, m, k)'
  <2>1. k \in Nat /\ k \in 0 .. sendCount[n][m] - 1
    BY Counts, OnionAssumption
  <2>2. Accounted(n, m, k)
    BY <2>1, AllAccounted
  <2>3. ASSUME NEW q \in net, Is(q.msg, n, m, k) PROVE Accounted(n, m, k)'
    <3>1. CASE q = r
      BY <2>1, <2>3, <3>1
    <3>2. CASE q # r
      <4>1. q \in net'
        BY <3>2
      <4> QED
        BY <2>3, <4>1 DEF Accounted
    <3> QED
      BY <3>1, <3>2
  <2>4. ASSUME NEW i \in 1 .. Len(shown[m]), Is(shown[m][i], n, m, k) PROVE Accounted(n, m, k)'
    <3>1. i \in 1 .. Len(shown'[m]) /\ Is(shown'[m][i], n, m, k)
      BY <2>4
    <3> QED
      BY <3>1 DEF Accounted
  <2>5. ASSUME NEW msg \in missed, Is(msg, n, m, k) PROVE Accounted(n, m, k)'
    BY <2>5 DEF Accounted
  <2> QED
    BY <2>2, <2>3, <2>4, <2>5 DEF Accounted
<1> QED
  BY <1>1 DEF LegacyAccounted, Accounted, Is

LEMMA RefusedKeeps ==
  ASSUME OnionInv, NEW r \in net, net' = net \ {r}, Refused(r), UNCHANGED <<sent, sendCount>>,
         friends' = friends
  PROVE  OnionInv'
<1>1. OnionTypeOK'
  BY RequestFields DEF OnionInv, OnionTypeOK, Refused
<1>2. Routed' /\ Counted' /\ Behind' /\ ShownInOrder'
  BY FewerRequests, SameShown DEF OnionInv, Refused
<1>3. LegacyAccounted'
  <2>1. \A n \in Older, m \in Node, k \in Nat : Is(r.msg, n, m, k) => Accounted(n, m, k)'
    BY DEF Accounted, Refused
  <2>2. \A m \in Node : \A i \in 1 .. Len(shown[m]) :
           i \in 1 .. Len(shown'[m]) /\ shown'[m][i] = shown[m][i]
    BY DEF Refused
  <2> QED
    BY <2>1, <2>2, StaysAccounted DEF OnionInv, Refused
<1> QED
  BY <1>1, <1>2, <1>3 DEF OnionInv

LEMMA DroppedKeeps ==
  ASSUME OnionInv, NEW r \in net, net' = net \ {r}, Dropped(r), UNCHANGED <<sent, sendCount>>,
         friends' = friends
  PROVE  OnionInv'
<1>1. OnionTypeOK'
  BY DEF OnionInv, OnionTypeOK, Dropped
<1>2. Routed' /\ Counted' /\ Behind' /\ ShownInOrder'
  BY FewerRequests, SameShown DEF OnionInv, Dropped
<1>3. LegacyAccounted'
  <2>1. \A n \in Older, m \in Node, k \in Nat : ~Is(r.msg, n, m, k)
    BY DEF OnionInv, Counted, Dropped, Is
  <2>2. \A m \in Node : \A i \in 1 .. Len(shown[m]) :
           i \in 1 .. Len(shown'[m]) /\ shown'[m][i] = shown[m][i]
    BY DEF Dropped
  <2> QED
    BY <2>1, <2>2, StaysAccounted DEF OnionInv, Dropped
<1> QED
  BY <1>1, <1>2, <1>3 DEF OnionInv

LEMMA RelayedKeeps ==
  ASSUME OnionInv, NEW n \in Node, NEW r \in net, r.onion, r.route = <<n, r.msg.to>>,
         net' = (net \ {r}) \cup Forward(n, r),
         UNCHANGED <<friends, sent, sendCount, shown, missed, recvCount, undone>>
  PROVE  OnionInv'
<1> DEFINE q == [from |-> n, to |-> r.route[2], onion |-> TRUE, route |-> Tail(r.route), msg |-> r.msg]
<1>1. r.msg \in Msg /\ r.msg.to \in Node
  BY RequestFields DEF OnionInv
<1>2. r.route[2] = r.msg.to /\ Tail(r.route) = <<r.msg.to>>
  BY <1>1
<1>3. /\ q.msg = r.msg /\ q.onion /\ q.route = <<q.to>> /\ q.to = r.msg.to
  BY <1>2
<1>4. q \in Request
  <2>1. <<r.msg.to>> \in [1 .. 1 -> Node]
    BY <1>1
  <2>2. <<r.msg.to>> \in UNION {[1 .. k -> Node] : k \in 0 .. 2}
    BY <2>1
  <2> QED
    BY <1>1, <1>2, <2>2 DEF Request
<1>5. net' = (net \ {r}) \cup {q}
  BY DEF Forward
<1> HIDE DEF q
<1>6. OnionTypeOK'
  BY <1>4, <1>5 DEF OnionInv, OnionTypeOK
<1>7. Routed' /\ Counted'
  BY <1>3, <1>5 DEF OnionInv, Routed, Counted
<1>8. Behind' /\ ShownInOrder'
  BY SameShown DEF OnionInv
<1>9. LegacyAccounted'
  <2>1. \A a \in Older, m \in Node, k \in Nat : Is(r.msg, a, m, k) => Accounted(a, m, k)'
    BY <1>3, <1>5 DEF Accounted
  <2>2. \A m \in Node : \A i \in 1 .. Len(shown[m]) :
           i \in 1 .. Len(shown'[m]) /\ shown'[m][i] = shown[m][i]
    OBVIOUS
  <2> QED
    BY <1>5, <2>1, <2>2, StaysAccounted DEF OnionInv
<1> QED
  BY <1>6, <1>7, <1>8, <1>9 DEF OnionInv

(* What is appended is later than all that was shown of its sender.         *)
LEMMA ShownKeeps ==
  ASSUME OnionInv, NEW n \in Node, NEW r \in net, net' = net \ {r}, Shown(n, r),
         UNCHANGED <<friends, sent, sendCount>>
  PROVE  OnionInv'
<1>1. OnionTypeOK /\ Routed /\ Counted /\ Behind /\ ShownInOrder /\ LegacyAccounted
  BY DEF OnionInv
<1>2. PICK msg \in Msg : msg = r.msg /\ msg.from \in Node /\ msg.to = n /\ msg.counter \in Nat
  BY <1>1, RequestFields DEF Shown
<1>3. PICK old \in Seq(Msg) : old = shown[n]
  BY <1>1 DEF OnionTypeOK
<1>4. /\ shown' = [shown EXCEPT ![n] = Append(old, msg)]
      /\ \A m \in Node : shown'[m] = IF m = n THEN Append(old, msg) ELSE shown[m]
  BY <1>1, <1>2, <1>3 DEF Shown, OnionTypeOK
<1>5. /\ Append(old, msg) \in Seq(Msg) /\ Len(Append(old, msg)) = Len(old) + 1
      /\ \A i \in 1 .. Len(old) : Append(old, msg)[i] = old[i]
      /\ Append(old, msg)[Len(old) + 1] = msg /\ Len(old) \in Nat
  BY <1>2, <1>3
<1>6. msg.counter < sendCount[msg.from][n] /\ msg.counter + 1 \in 0 .. MaxSent
  <2>1. msg.counter < sendCount[msg.from][n]
    BY <1>1, <1>2 DEF Counted
  <2>2. sendCount[msg.from][n] \in Nat /\ sendCount[msg.from][n] <= sent /\ sent <= MaxSent
    BY <1>1, <1>2, Counts DEF Counted
  <2> QED
    BY <1>1, <1>2, <2>1, <2>2, Counts
<1>7. OnionTypeOK'
  <2>1. shown' \in [Node -> Seq(Msg)]
    BY <1>1, <1>4, <1>5 DEF OnionTypeOK
  <2>2. recvCount' \in [Node -> [Node -> 0 .. MaxSent]] /\ undone' \in BOOLEAN
    <3>1. CASE recvCount' = recvCount /\ undone' \in {TRUE, undone}
      BY <1>1, <3>1 DEF OnionTypeOK
    <3>2. CASE recvCount' = [recvCount EXCEPT ![n][msg.from] = msg.counter + 1] /\ undone' = undone
      BY <1>1, <1>2, <1>6, <3>2 DEF OnionTypeOK
    <3> QED
      BY <1>2, <3>1, <3>2 DEF Shown
  <2> QED
    BY <1>1, <2>1, <2>2 DEF Shown, OnionTypeOK
<1>8. Routed' /\ Counted'
  BY <1>1, FewerRequests
<1>9. \A a, b \in Node : recvCount[a][b] <= recvCount'[a][b]
  <2>1. CASE recvCount' = recvCount
    BY <1>1, <2>1, Counts
  <2>2. CASE /\ recvCount' = [recvCount EXCEPT ![n][msg.from] = msg.counter + 1]
             /\ msg.counter >= recvCount[n][msg.from]
    <3> SUFFICES ASSUME NEW a \in Node, NEW b \in Node PROVE recvCount[a][b] <= recvCount'[a][b]
      OBVIOUS
    <3>1. recvCount'[a][b] = IF a = n /\ b = msg.from THEN msg.counter + 1 ELSE recvCount[a][b]
      BY <1>1, <1>2, <2>2 DEF OnionTypeOK
    <3>2. recvCount[a][b] \in Nat
      BY <1>1, Counts
    <3> QED
      BY <1>2, <2>2, <3>1, <3>2
  <2> QED
    BY <1>2, <2>1, <2>2 DEF Shown
<1>10. ASSUME ~undone', msg.format = "legacy"
       PROVE  msg.counter < recvCount'[n][msg.from] /\ msg.counter >= recvCount[n][msg.from]
  <2>1. /\ recvCount' = [recvCount EXCEPT ![n][msg.from] = msg.counter + 1]
        /\ msg.counter >= recvCount[n][msg.from]
    BY <1>2, <1>10 DEF Shown
  <2>2. recvCount'[n][msg.from] = msg.counter + 1
    BY <1>1, <1>2, <2>1 DEF OnionTypeOK
  <2> QED
    BY <1>2, <2>1, <2>2
<1>11. ~undone' => ~undone
  BY DEF Shown
(* The messages shown before, and their numbers.                           *)
<1>12. ASSUME NEW m \in Node, NEW i \in 1 .. Len(shown[m])
       PROVE  /\ i \in 1 .. Len(shown'[m]) /\ shown'[m][i] = shown[m][i]
              /\ shown[m][i].from \in Node /\ shown[m][i].counter \in Nat
  <2>1. shown[m][i] \in Msg
    BY <1>1 DEF OnionTypeOK
  <2>2. shown[m][i].from \in Node /\ shown[m][i].counter \in Nat
    BY <2>1, OnionAssumption DEF Msg
  <2>3. CASE m = n
    BY <1>3, <1>4, <1>5, <2>2, <2>3
  <2>4. CASE m # n
    BY <1>4, <2>2, <2>4
  <2> QED
    BY <2>3, <2>4
<1>13. ASSUME NEW m \in Node, NEW i \in 1 .. Len(shown'[m])
       PROVE  i \in 1 .. Len(shown[m]) \/ (m = n /\ i = Len(old) + 1 /\ shown'[m][i] = msg)
  BY <1>3, <1>4, <1>5, <1>13
<1>14. Behind'
  <2> SUFFICES ASSUME ~undone', NEW m \in Node, NEW i \in 1 .. Len(shown'[m]),
                      shown'[m][i].format = "legacy"
               PROVE  shown'[m][i].counter < recvCount'[m][shown'[m][i].from]
    BY DEF Behind
  <2>1. CASE i \in 1 .. Len(shown[m])
    <3>1. PICK a \in Node, k \in Nat :
            a = shown[m][i].from /\ k = shown[m][i].counter /\ shown'[m][i] = shown[m][i]
      BY <1>12, <2>1
    <3>2. k < recvCount[m][a]
      BY <1>1, <1>11, <2>1, <3>1 DEF Behind
    <3>3. recvCount[m][a] <= recvCount'[m][a] /\ recvCount[m][a] \in Nat /\ recvCount'[m][a] \in Nat
      BY <1>1, <1>7, <1>9, Counts DEF OnionTypeOK
    <3> QED
      BY <3>1, <3>2, <3>3
  <2>2. CASE m = n /\ shown'[m][i] = msg
    BY <1>10, <2>2
  <2> QED
    BY <1>13, <2>1, <2>2
<1>15. ShownInOrder'
  <2> SUFFICES ASSUME ~undone', NEW m \in Node,
                      NEW i \in 1 .. Len(shown'[m]), NEW j \in 1 .. Len(shown'[m]),
                      i < j, shown'[m][i].from = shown'[m][j].from,
                      shown'[m][i].format = "legacy", shown'[m][j].format = "legacy"
               PROVE  shown'[m][i].counter < shown'[m][j].counter
    BY DEF ShownInOrder
  <2>1. CASE j \in 1 .. Len(shown[m])
    <3>1. i \in 1 .. Len(shown[m])
      BY <2>1, <1>3, <1>4, <1>5, <1>13
    <3> QED
      BY <1>1, <1>11, <1>12, <2>1, <3>1 DEF ShownInOrder
  <2>2. CASE m = n /\ j = Len(old) + 1 /\ shown'[m][j] = msg
    <3>1. i \in 1 .. Len(shown[m])
      BY <1>3, <1>5, <2>2
    <3>2. PICK a \in Node, k \in Nat :
            a = shown[m][i].from /\ k = shown[m][i].counter /\ shown'[m][i] = shown[m][i]
      BY <1>12, <3>1
    <3>3. k < recvCount[n][a] /\ a = msg.from
      BY <1>1, <1>11, <2>2, <3>1, <3>2 DEF Behind
    <3>4. msg.counter >= recvCount[n][msg.from] /\ recvCount[n][a] \in Nat
      BY <1>1, <1>10, <2>2, Counts
    <3> QED
      BY <1>2, <2>2, <3>2, <3>3, <3>4
  <2> QED
    BY <1>13, <2>1, <2>2
<1>16. LegacyAccounted'
  <2>1. ASSUME NEW a \in Older, NEW m \in Node, NEW k \in Nat, Is(r.msg, a, m, k)
        PROVE  Accounted(a, m, k)'
    <3>1. m = n /\ Is(msg, a, m, k)
      BY <1>2, <2>1 DEF Is
    <3>2. Len(old) + 1 \in 1 .. Len(shown'[m]) /\ shown'[m][Len(old) + 1] = msg
      <4>1. shown'[m] = Append(old, msg)
        BY <1>4, <3>1
      <4>2. Len(old) + 1 \in 1 .. Len(Append(old, msg))
        BY <1>5
      <4> QED
        BY <1>5, <4>1, <4>2
    <3>3. \E i \in 1 .. Len(shown'[m]) : Is(shown'[m][i], a, m, k)
      BY <3>1, <3>2
    <3> QED
      BY <3>3 DEF Accounted
  <2>2. missed \subseteq missed'
    BY DEF Shown
  <2> QED
    BY <1>1, <1>12, <2>1, <2>2, StaysAccounted
<1> QED
  BY <1>7, <1>8, <1>14, <1>15, <1>16 DEF OnionInv

LEMMA NextOnion ==
  ASSUME OnionInv, [OnionNext]_onionVars PROVE OnionInv'
<1>1. CASE UNCHANGED onionVars
  <2>1. UNCHANGED <<friends, sent, sendCount, recvCount, net, shown, missed, undone>>
    BY <1>1 DEF onionVars
  <2> QED
    <3>1. OnionTypeOK' /\ Routed' /\ Counted'
      BY <2>1 DEF OnionInv, OnionTypeOK, Routed, Counted
    <3>2. Behind' /\ ShownInOrder'
      BY <2>1, SameShown DEF OnionInv
    <3>3. LegacyAccounted'
      BY <2>1 DEF OnionInv, LegacyAccounted
    <3> QED
      BY <3>1, <3>2, <3>3 DEF OnionInv
<1>2. ASSUME NEW n \in Node, NEW m \in Node, RemoveFriend(n, m) PROVE OnionInv'
  BY <1>2, OnionRemoveFriendKeeps
<1>3. ASSUME NEW n \in Node, NEW to \in Node, NEW relay \in Node, NEW use_onion \in BOOLEAN,
             Send(n, to, use_onion, relay)
      PROVE  OnionInv'
  BY <1>3, SendKeeps
<1>4. ASSUME NEW n \in Node, NEW r \in net, NEW saved \in BOOLEAN, Handle(n, r, saved)
      PROVE  OnionInv'
  <2>1. OnionTypeOK /\ Routed
    BY DEF OnionInv
  <2> QED
    BY <1>4, <2>1, HandleOutcome, DroppedKeeps, RefusedKeeps, ShownKeeps, RelayedKeeps
<1>5. ASSUME NEW r \in net, Lose(r) PROVE OnionInv'
  <2>1. Refused(r) /\ net' = net \ {r} /\ UNCHANGED <<friends, sent, sendCount>>
    BY <1>5 DEF Lose, Refused
  <2> QED
    BY <2>1, RefusedKeeps
<1> QED
  BY <1>1, <1>2, <1>3, <1>4, <1>5 DEF OnionNext

(* For every number of nodes and of messages, of the older version or not.  *)
THEOREM OnionCorrect == OnionSpec => []OnionInv
BY InitOnion, NextOnion, PTL DEF OnionSpec

(* The counters of RatchetState (ratchet.rs) are within the messages sent.  *)
THEOREM OnionTypeCorrect == OnionSpec => []OnionTypeOK
<1>1. OnionInv => OnionTypeOK
  BY DEF OnionInv
<1> QED
  BY <1>1, OnionCorrect, PTL

(* ratchet_decrypt never goes back: whichever relays legacy messages take,  *)
(* and in whatever order they come, a sender's are shown as written.        *)
THEOREM ShownInOrderHolds == OnionSpec => []ShownInOrder
<1>1. OnionInv => ShownInOrder
  BY DEF OnionInv
<1> QED
  BY <1>1, OnionCorrect, PTL

(* The handlers of OnionForward and of the direct request (lib.rs) lose no  *)
(* legacy message between them: it is under way, shown or refused.          *)
THEOREM LegacyAccountedHolds == OnionSpec => []LegacyAccounted
<1>1. OnionInv => LegacyAccounted
  BY DEF OnionInv
<1> QED
  BY <1>1, OnionCorrect, PTL
=============================================================================
