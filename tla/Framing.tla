------------------------------ MODULE Framing ------------------------------
(***************************************************************************)
(* What is put around bytes before they go on the wire, and how they are   *)
(* read back: the blocks of gossip (traffic.rs), the frames of the         *)
(* obfuscating transports (pluggable.rs), the cells of the onion           *)
(* (onion.rs), the chunks of a file (storage.rs).                          *)
(*                                                                         *)
(* Each frame has a length field of fixed width, the data and a filler of  *)
(* a length the reader does not know.  A byte is any value; a masked byte  *)
(* keeps what it takes to unmask it.                                       *)
(***************************************************************************)
EXTENDS Integers, Sequences

(* The four and the two bytes of a length field hold it modulo these.       *)
Width32 == 4294967296
Width16 == 65536

(* The reader takes the first n bytes of what follows the length field.     *)
Holds(body, n) == n <= Len(body)
Taken(body, n) == SubSeq(body, 1, n)

(***************************************************************************)
(* pad_message and unpad_message                                           *)
(***************************************************************************)
BLOCK_SIZE == 512

PadLen(len) == BLOCK_SIZE - (len % BLOCK_SIZE)

Padding(len) == [i \in 1 .. PadLen(len) |-> PadLen(len) % 256]

Padded(data) == [orig_len |-> Len(data) % Width32, body |-> data \o Padding(Len(data))]

Unpads(p) == Holds(p.body, p.orig_len)
Unpadded(p) == Taken(p.body, p.orig_len)

(* A chaff payload is one block, length field included.                     *)
ChaffSize == BLOCK_SIZE
PaddedSize(data) == 4 + Len(Padded(data).body)

(***************************************************************************)
(* Obfs4Transport masks every byte by the key, the nonce of the packet and *)
(* its place; the filler has 0 to 31 bytes.                                *)
(***************************************************************************)
Masked(data, key, nonce) ==
  [i \in 1 .. Len(data) |-> [byte |-> data[i], key |-> key, nonce |-> nonce, at |-> i]]

Obfs4(data, key, nonce, filler) ==
  [len |-> Len(data) % Width16, nonce |-> nonce, body |-> Masked(data, key, nonce) \o filler]

Opens(b, key, nonce, i) == b.key = key /\ b.nonce = nonce /\ b.at = i

Obfs4Reads(p) == Holds(p.body, p.len)
Obfs4Read(p) == [i \in 1 .. p.len |-> Taken(p.body, p.len)[i].byte]

(***************************************************************************)
(* SnowflakeTransport writes data as it is; what follows it is the filler  *)
(* with a length field of its own, which nobody reads.                     *)
(***************************************************************************)
Snowflake(data, filler) == [len |-> Len(data) % Width16, body |-> data \o filler]

SnowflakeReads(p) == Holds(p.body, p.len)
SnowflakeRead(p) == Taken(p.body, p.len)

(***************************************************************************)
(* wrap_onion pads a layer whose encoding has len bytes, eight of them the *)
(* length of the padding still empty.  The subtraction is of usize: where  *)
(* it is negative the program panics.                                      *)
(***************************************************************************)
TARGET_SIZE == 16384

LayerPadding(len) == TARGET_SIZE - len - 8
LayerPanics(len) == len < TARGET_SIZE /\ LayerPadding(len) < 0
LayerSize(len) == IF len < TARGET_SIZE THEN len + LayerPadding(len) ELSE len

(***************************************************************************)
(* split_chunks, with the only chunk size it is called with, and the sizes *)
(* build_manifest notes.                                                   *)
(***************************************************************************)
DEFAULT_CHUNK_SIZE == 262144

ChunkCount(data) == (Len(data) + DEFAULT_CHUNK_SIZE - 1) \div DEFAULT_CHUNK_SIZE

ChunkFrom(i) == (i - 1) * DEFAULT_CHUNK_SIZE + 1

ChunkTo(data, i) ==
  IF i * DEFAULT_CHUNK_SIZE <= Len(data) THEN i * DEFAULT_CHUNK_SIZE ELSE Len(data)

Chunks(data) == [i \in 1 .. ChunkCount(data) |-> SubSeq(data, ChunkFrom(i), ChunkTo(data, i))]
=============================================================================
