------------------------------ MODULE ByteCodec ------------------------------
(***************************************************************************)
(* The octet primitives every record codec uses (spec 4.1): little-endian  *)
(* integers at a byte offset and single bits of an octet.  A Go []byte is  *)
(* a TLA+ sequence of 0..255; Go index k is sequence index k + 1.  These   *)
(* helpers live outside src/ and are modelled from the spec.               *)
(***************************************************************************)
EXTENDS Naturals, Sequences, Bitwise

Octets == 0..255

\* make([]byte, n)
Zeros(n) == [k \in 1..n |-> 0]

At(buf, off) == buf[off + 1]

\* packUint8 / packUint16L / packUint32L: write v at offset off.
PutU8(buf, v, off) == [buf EXCEPT ![off + 1] = v % 256]

PutU16L(buf, v, off) ==
  [buf EXCEPT ![off + 1] = v % 256, ![off + 2] = (v \div 256) % 256]

PutU32L(buf, v, off) ==
  [k \in DOMAIN buf |->
     IF k \in (off + 1)..(off + 4)
     THEN (v \div 2^(8 * (k - off - 1))) % 256
     ELSE buf[k]]

\* unpackUint16L / unpackUint32L: read a little-endian value at off.
GetU16L(buf, off) == buf[off + 1] + 256 * buf[off + 2]

GetU32L(buf, off) ==
  GetU16L(buf, off) + 65536 * GetU16L(buf, off + 2)

\* isBitNSet / setBitN / clearBitN / setOrClearBitN on an octet.
IsBitSet(b, n) == (b \div 2^n) % 2 = 1

SetBit(b, n) == b | 2^n

ClearBit(b, n) == IF IsBitSet(b, n) THEN b - 2^n ELSE b

SetOrClearBit(b, n, c) == IF c THEN SetBit(b, n) ELSE ClearBit(b, n)

\* Go `uint8(v) << n` and `b >> n` on an octet.
ShiftL8(v, n) == (v * 2^n) % 256
ShiftR8(b, n) == b \div 2^n
=============================================================================
