------------------------------- MODULE Crypto -------------------------------
(* io/crypto.ts, and the hexadecimal of io/encoding.ts. The Web Crypto API is *)
(* external: what it makes is a term that names what went in, and what it     *)
(* refuses is an Err.                                                       *)
EXTENDS Naturals, FiniteSets, Sequences, SequencesExt

CONSTANTS Families,   \* the kinds of keys that are generated
          Texts,      \* data
          Hashes,     \* the digests, or lengths of the salt, that a signer may name
          MaxKeys,    \* bound on the keys
          MaxSealed,  \* bound on what has been encrypted, signed, exported or wrapped
          Byte,       \* the values of a byte
          Mantissa,   \* the integers up to it are exact: 2^53
          MaxRange    \* bound on the range of randomInt()

VARIABLES keys,   \* the keys: [family, half, of, usages], the two halves of a pair have one "of"
          sealed  \* what has been made with them

cryptoVars == <<keys, sealed>>

Ok(v) == [ok |-> v]

\* cryptoTask(): what the API throws is an Err of CryptoError.
Err == [err |-> TRUE]

Symmetric == {"HMAC", "AES-GCM", "AES-CBC"}
Signs == {"HMAC", "ECDSA", "RSA-PSS"}
Encrypts == {"AES-GCM", "AES-CBC", "RSA-OAEP"}
Asks(key, family, half, usage) == key.family = family /\ key.half = half /\ usage \in key.usages

\* The part of a key that seals and the part that opens: of a pair, they differ.
Half(family, private) == IF family \in Symmetric THEN "secret" ELSE IF private THEN "private" ELSE "public"
-----------------------------------------------------------------------------
\* generateKey: each family with its usages, which the halves of a pair share out.
UsagesOf(family) ==
  CASE family \in Signs -> {"sign", "verify"}
    [] family \in Encrypts -> {"encrypt", "decrypt"}
    [] family = "ECDH" -> {"deriveBits"}

HalfUsages(family, half) ==
  LET private == {"sign", "decrypt", "deriveBits"}
  IN  CASE half = "secret" -> UsagesOf(family)
        [] half = "private" -> UsagesOf(family) \cap private
        [] half = "public" -> UsagesOf(family) \ private

GenerateKey(family) ==
  [i \in 1 .. (IF family \in Symmetric THEN 1 ELSE 2) |->
     LET half == IF family \in Symmetric THEN "secret" ELSE IF i = 1 THEN "public" ELSE "private"
     IN  [family |-> family, half |-> half, of |-> Len(keys) + 1, usages |-> HalfUsages(family, half)]]

\* encrypt: a new iv for AES; the additional data only with GCM.
Encrypt(key, family, data, extra) ==
  IF Asks(key, family, Half(family, FALSE), "encrypt")
  THEN [sealed |-> family, by |-> key.of, data |-> data, iv |-> Cardinality(sealed), extra |-> extra]
  ELSE Err

\* decrypt, with the iv that came with the data: CBC checks no more than the padding, so that
\* another key or another iv may give other data.
Decrypt(key, family, box, iv, extra) ==
  IF ~Asks(key, family, Half(family, TRUE), "decrypt") \/ box.sealed # family THEN {Err}
  ELSE IF key.of = box.by /\ iv = box.iv /\ extra = box.extra THEN {[text |-> box.data]}
  ELSE IF family = "AES-CBC" THEN {Err, [text |-> "garbled"]} ELSE {Err}

\* sign and verify: of the three, ECDSA takes the digest and RSA-PSS the length of the salt
\* with each call.
Sign(key, family, data, hash) ==
  IF Asks(key, family, Half(family, TRUE), "sign")
  THEN [sealed |-> family, by |-> key.of, data |-> data, hash |-> IF family = "HMAC" THEN "its own" ELSE hash]
  ELSE Err

Verify(key, family, signature, data, hash) ==
  IF Asks(key, family, Half(family, FALSE), "verify")
  THEN [valid |-> signature = [sealed |-> family, by |-> key.of, data |-> data,
                               hash |-> IF family = "HMAC" THEN "its own" ELSE hash]]
  ELSE Err

\* ecdh.deriveBits: what two pairs share, from whichever side.
DeriveBits(privateKey, publicKey) ==
  IF Asks(privateKey, "ECDH", "private", "deriveBits") /\ publicKey.family = "ECDH" /\ publicKey.half = "public"
  THEN [shared |-> {privateKey.of, publicKey.of}] ELSE Err

\* exportKey: every key that this module makes may be exported; and importKey, with the
\* usages that the caller names, of those that the family has.
ExportKey(key) == [exported |-> key.family, half |-> key.half, by |-> key.of]
ImportKey(material, usages) ==
  IF usages \subseteq HalfUsages(material.exported, material.half) \cup
       (IF material.exported \in {"AES-GCM", "AES-CBC"} THEN {"wrapKey", "unwrapKey"} ELSE {})
  THEN [family |-> material.exported, half |-> material.half, of |-> material.by, usages |-> usages]
  ELSE Err

\* wrapKey and unwrapKey: an export that is encrypted, and the reverse.
WrapKey(key, wrapping) ==
  IF "wrapKey" \in wrapping.usages THEN [wrapped |-> ExportKey(key), by |-> wrapping.of] ELSE Err
UnwrapKey(box, unwrapping, usages) ==
  IF "unwrapKey" \in unwrapping.usages /\ unwrapping.of = box.by THEN ImportKey(box.wrapped, usages) ELSE Err
-----------------------------------------------------------------------------
\* randomInt(): as many bytes as the range takes, at least one; what is at or above the
\* largest multiple of the range is drawn again. A sum beyond Mantissa is rounded.
BytesNeeded(range) == CHOOSE n \in 1..range : Byte^n >= range /\ (n = 1 \/ Byte^(n - 1) < range)
ValueOf(bytes) == LET add(n, b) == LET sum == n * Byte + b IN IF sum <= Mantissa THEN sum ELSE (sum \div 2) * 2
                      value[i \in 0..Len(bytes)] == IF i = 0 THEN 0 ELSE add(value[i - 1], bytes[i])
                  IN  value[Len(bytes)]
Limit(range) == LET maxValid == Byte^BytesNeeded(range) IN maxValid - (maxValid % range)
RandomInt(min, max, bytes) ==
  IF min >= max THEN Err
  ELSE IF ValueOf(bytes) >= Limit(max - min) THEN [again |-> TRUE]
  ELSE Ok(min + (ValueOf(bytes) % (max - min)))

\* timingSafeEqual(): no two bytes that differ, of two arrays of one length.
TimingSafeEqual(a, b) ==
  /\ Len(a) = Len(b)
  /\ LET diff == {i \in DOMAIN a : a[i] # b[i]} IN diff = {}

\* hex.encode, which toHex() is as well, and hex.decode; a digit is half a byte.
HexEncode(bytes) == [i \in 1 .. 2 * Len(bytes) |->
                       LET b == bytes[(i + 1) \div 2] IN IF i % 2 = 1 THEN b \div 16 ELSE b % 16]
HexDecode(digits) ==
  IF Len(digits) % 2 # 0 \/ \E i \in DOMAIN digits : digits[i] \notin 0..15 THEN Err
  ELSE Ok([i \in 1 .. Len(digits) \div 2 |-> digits[2 * i - 1] * 16 + digits[2 * i]])
-----------------------------------------------------------------------------
KeySet == {keys[i] : i \in DOMAIN keys}
Boxes(field) == {box \in sealed : field \in DOMAIN box}

\* A call that makes something; and one that gives keys. An error leaves all as it is.
Seal(result) == result # Err /\ Cardinality(sealed) < MaxSealed /\ sealed' = sealed \cup {result} /\ UNCHANGED keys
Gain(results) == Err \notin ToSet(results) /\ Len(keys) < MaxKeys /\ keys' = keys \o results /\ UNCHANGED sealed

CryptoInit == keys = <<>> /\ sealed = {}

CryptoNext ==
  \/ \E family \in Families : Gain(GenerateKey(family))
  \/ \E key \in KeySet, family \in Families \cap Encrypts, data \in Texts, extra \in {"none", "extra"} :
       (extra = "extra" => family = "AES-GCM") /\ Seal(Encrypt(key, family, data, extra))
  \/ \E key \in KeySet, family \in Families \cap Signs, data \in Texts, hash \in Hashes : Seal(Sign(key, family, data, hash))
  \/ \E key \in KeySet : Seal(ExportKey(key))
  \/ \E box \in Boxes("exported") : \E usages \in {HalfUsages(box.exported, box.half), {"wrapKey", "unwrapKey"}} :
       Gain(<<ImportKey(box, usages)>>)
  \/ \E key, wrapping \in KeySet : Seal(WrapKey(key, wrapping))
  \/ \E box \in Boxes("wrapped"), key \in KeySet :
       Gain(<<UnwrapKey(box, key, HalfUsages(box.wrapped.exported, box.wrapped.half))>>)

CryptoSpec == CryptoInit /\ [][CryptoNext]_cryptoVars
-----------------------------------------------------------------------------
\* crypto.ts:186-189: each text can be read by a key that is there, each signature is accepted
\* for its own text and its own digest only, also by keys that were exported, wrapped and
\* imported on the way, no other key opens anything, and two pairs agree on what they share.
KeysServe ==
  /\ \A box \in Boxes("iv") :
       /\ \E key \in KeySet : Decrypt(key, box.sealed, box, box.iv, box.extra) = {[text |-> box.data]}
       /\ \A key \in KeySet : [text |-> box.data] \in Decrypt(key, box.sealed, box, box.iv, box.extra) => key.of = box.by
  /\ \A box \in Boxes("hash") : \E key \in KeySet : \A data \in Texts, hash \in Hashes :
       Verify(key, box.sealed, box, data, hash) = [valid |-> data = box.data /\ (box.sealed = "HMAC" \/ hash = box.hash)]
  /\ \A a, b, c, d \in KeySet :
       ("ECDH" \in {a.family, b.family} /\ a.of = d.of /\ b.of = c.of /\ DeriveBits(a, b) # Err /\ DeriveBits(c, d) # Err)
       => DeriveBits(a, b) = DeriveBits(c, d)

\* crypto.ts:192 "Generate a random integer in [min, max) without modulo bias.": of the words
\* that are drawn as many give each integer; where no sum is rounded.
RandomIsFair ==
  \A range \in 1..MaxRange :
    LET words == [1..BytesNeeded(range) -> 0..Byte - 1]
        drawn(v) == {word \in words : RandomInt(0, range, word) = Ok(v)}
    IN  Byte^BytesNeeded(range) <= Mantissa =>
          \A v \in 0..range - 1 : drawn(v) # {} /\ Cardinality(drawn(v)) = Cardinality(drawn(0))

\* encoding.ts:110-140: what encode() writes, decode() reads.
HexReturns == \A bytes \in UNION {[1..n -> {0, 15, 16, 255}] : n \in 0..2} :
  LET read == HexDecode(HexEncode(bytes)) IN "ok" \in DOMAIN read /\ TimingSafeEqual(read.ok, bytes)

\* Keys serve as they should, and before there are any, what does not depend on them holds.
CryptoIsFaithful == KeysServe /\ (keys = <<>> => RandomIsFair /\ HexReturns)
=============================================================================
