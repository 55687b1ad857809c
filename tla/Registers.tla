------------------------------ MODULE Registers ------------------------------
(***************************************************************************)
(* Registers of the gateware and the requests that read and write them,    *)
(* tcpborphserver3/raw.c, with positions in bytes and bits,                *)
(* katcp/bytebit.c.                                                        *)
(*                                                                         *)
(* A register may start and end at any bit of the mapped memory, which is  *)
(* accessed a word at a time.  A bit is the set of the places its value    *)
(* comes from: shifts move these sets, an or unites them, a masked bit is  *)
(* empty.  So one write, or one read, shows what becomes of all contents.  *)
(*                                                                         *)
(* The build is the one for the PowerPC of the ROACH board: the first bit  *)
(* is the most significant one, a shift by the size of a word or more      *)
(* gives 0, the map starts at 0, and values are not flipped.               *)
(***************************************************************************)
EXTENDS Integers

CONSTANTS
    Byte,       \* bits in a byte
    MapSize,    \* r_map_size, in bytes
    Positions,  \* pairs of byte and bit, arguments of ?register
    Extents,    \* lengths of registers, the same
    Ranges,     \* pairs of offset and length, arguments of ?read and ?write
    WordRanges  \* the same, in words

ASSUME RegistersAssumption ==
    /\ Byte \in Nat \ {0} /\ MapSize \in Nat
    /\ Positions \cup Extents \subseteq Nat \X Nat
    /\ \A p \in Positions \cup Extents : p[2] + (p[1] % 4) * Byte < 4 * Byte
    /\ Ranges \subseteq (Nat \X Nat) \X (Nat \X Nat)
    /\ WordRanges \subseteq Nat \X Nat

VARIABLES
    entry,  \* struct tbs_entry, or NoEntry
    map,    \* the mapped memory
    done    \* the latest request and its outcome

rvars == <<entry, map, done>>

Word == 4 * Byte

\* A register has a length.
NoEntry == [pos |-> [base |-> 0, offset |-> 0], len |-> [base |-> 0, offset |-> 0]]

Bits == 0 .. MapSize * Byte - 1

\* Before anything is written each bit has a value of its own.
Pristine == [k \in Bits |-> {<<"map", k>>}]

NoRequest == [request |-> "none"]

RegistersInit == entry = NoEntry /\ map = Pristine /\ done = NoRequest

-----------------------------------------------------------------------------
(* Positions, katcp/bytebit.c.  Field align tells how they are normalised.  *)

AlignOf(byte) == IF byte % 4 # 0 THEN {"byte"} ELSE {"byte", "word"}

MakeBB(byte, bit) ==
    [byte |-> byte + bit \div Byte, bit |-> bit % Byte, align |-> AlignOf(byte + bit \div Byte)]

ByteNormalised(bb) == IF "byte" \in bb.align THEN bb ELSE MakeBB(bb.byte, bb.bit)

\* What is marked as aligned is taken to be.
WordNormalised(bb) ==
    LET tmp == ByteNormalised(bb)
        bit == (tmp.byte % 4) * Byte + tmp.bit
    IN  IF "word" \in bb.align THEN bb
        ELSE [byte |-> (tmp.byte \div 4) * 4, bit |-> bit,
              align |-> IF bit < Byte THEN {"byte", "word"} ELSE {"word"}]

AddBB(alpha, beta) ==
    WordNormalised([byte |-> alpha.byte + beta.byte, bit |-> alpha.bit + beta.bit, align |-> {}])

Beyond(bb, limit) == bb.byte > limit.byte \/ (bb.byte = limit.byte /\ bb.bit > limit.bit)

\* exceeds_bb_katcl
Exceeds(bb, limit) ==
    IF bb.align \cap limit.align # {} THEN Beyond(bb, limit)
    ELSE Beyond(ByteNormalised(bb), ByteNormalised(limit))

-----------------------------------------------------------------------------
(* Words: bit 0 is the most significant one.                                *)

Or(x, y) == [k \in 0 .. Word - 1 |-> x[k] \cup y[k]]
Left(x, n) == [k \in 0 .. Word - 1 |-> IF n >= 0 /\ k + n < Word THEN x[k + n] ELSE {}]
Right(x, n) == [k \in 0 .. Word - 1 |-> IF n >= 0 /\ k >= n THEN x[k - n] ELSE {}]

\* The first n bits of a word, 0xffffffff << (32 - n), and the others.
First(x, n) == [k \in 0 .. Word - 1 |-> IF n <= Word /\ k < n THEN x[k] ELSE {}]
Others(x, n) == [k \in 0 .. Word - 1 |-> IF k >= n THEN x[k] ELSE {}]

\* Beyond the map, or the buffer, anything may be found.
Anything == {<<"anything", 0>>}

WordAt(byte) ==
    [k \in 0 .. Word - 1 |-> IF byte * Byte + k \in Bits THEN map[byte * Byte + k] ELSE Anything]

\* The i-th word of a buffer of so many bytes.
WordOf(bytes, i) ==
    [k \in 0 .. Word - 1 |-> IF i * Word + k < bytes * Byte THEN {<<"data", i * Word + k>>} ELSE Anything]

\* Words of function f are stored from a byte on.
WordsStored(byte, f) ==
    [k \in Bits |->
        LET i == (k - byte * Byte) \div Word
        IN  IF k >= byte * Byte /\ i \in DOMAIN f THEN f[i][(k - byte * Byte) % Word] ELSE map[k]]

-----------------------------------------------------------------------------
(* ?register                                                                *)

\* The byte is made a multiple of a word; the bits may be more than a word.
Divided(byte, bit) ==
    LET bits == bit + Byte * (byte % 4)
    IN  [base |-> (byte - (byte % 4)) + bits \div Word, offset |-> bits % Word]

\* register_cmd, of an image that has been mapped.
RegisterCmd(position, extent) ==
    LET pos == Divided(position[1], position[2])
        len == Divided(extent[1], extent[2])
        bits == (pos.offset + len.offset + Byte - 1) \div Byte
    IN  /\ entry = NoEntry
        /\ len.base + len.offset > 0
        /\ pos.base + len.base + bits <= MapSize
        /\ entry' = [pos |-> pos, len |-> len]
        /\ UNCHANGED <<map, done>>

-----------------------------------------------------------------------------
(* Words to and from a register: ?wordwrite and ?wordread.                  *)

\* What is to be put before the i-th word that is written, p bits into a
\* word: what is there already, or the rest of the word before.
Holdover(base, p, value, i) ==
    IF i = 0 THEN First(WordAt(base), p) ELSE Left(value[i - 1], Word - p)

\* word_write_cmd; the last word that is touched is written in part.
WordWriteCmd(start, count) ==
    LET p == entry.pos.offset
        base == entry.pos.base + start * 4
        value == [i \in 0 .. count - 1 |-> WordOf(count * 4, i)]
        put == [i \in 0 .. count - 1 |-> Or(Holdover(base, p, value, i), Right(value[i], p))]
        rest == Or(Holdover(base, p, value, count), Others(WordAt(base + count * 4), p))
    IN  /\ count > 0
        /\ (start + count) * 4 <= entry.len.base
        /\ map' = WordsStored(base, IF p = 0 THEN put ELSE [i \in 0 .. count |-> IF i = count THEN rest ELSE put[i]])
        /\ done' = [request |-> "write", aligned |-> TRUE, from |-> start * Word, size |-> count * Word]
        /\ UNCHANGED entry

\* Mutant: one bit too many is taken from the next word.
JoinedWide(base, p, i) ==
    IF p = 0 THEN WordAt(base + i * 4)
    ELSE Or(Left(WordAt(base + i * 4), p), Right(WordAt(base + (i + 1) * 4), Word - p - 1))

Joined(base, p, i) ==
    IF p = 0 THEN WordAt(base + i * 4)
    ELSE Or(Left(WordAt(base + i * 4), p), Right(WordAt(base + (i + 1) * 4), Word - p))

\* word_read_cmd
WordReadCmd(start, count) ==
    LET base == entry.pos.base + start * 4
    IN  /\ entry.pos.base + (start + count) * 4 < MapSize
        /\ (start + count) * 4 <= entry.len.base
        /\ count > 0
        /\ done' = [request |-> "wordread", from |-> start * Word, size |-> count * Word,
                    value |-> [k \in 0 .. count * Word - 1 |->
                                 Joined(base, entry.pos.offset, k \div Word)[k % Word]]]
        /\ UNCHANGED <<entry, map>>

-----------------------------------------------------------------------------
(* Any bits: ?write and ?read.                                              *)

EntryBits(bb) == bb.base * Byte + bb.offset

\* Mutant: what the last word holds is not read.
LastWordBlind(hold, n, byte) == First(hold, n)

\* The last word is written in part, its first n bits.
LastWord(hold, n, byte) == Or(First(hold, n), Others(WordAt(byte), n))

\* The words write_cmd stores at base from its buffer: whole ones first, then
\* the bits that are left, which may fill a word and go on into another one.
Written(base, p, value, size) ==
    LET floor == size \div Word
        prefix == IF floor > 0 THEN 0 ELSE p
        rest == IF floor > 0 THEN p + size - floor * Word ELSE size
        whole == [i \in DOMAIN value |-> Or(Holdover(base, p, value, i), Right(value[i], p))]
        more == rest > 0 /\ p + rest >= Word
        last == IF more THEN floor + 1 ELSE floor
        left == IF more THEN p + rest - Word ELSE rest
        hold == IF more THEN Left(value[floor], Word - p) ELSE whole[floor]
    IN  [i \in 0 .. (IF left > 0 THEN last ELSE last - 1) |->
            IF i < last THEN whole[i]
            ELSE LastWord(hold, prefix + left, base + last * 4)]

\* The place in memory is normalised by the alignment of the offset.
Placed(off) ==
    WordNormalised([byte |-> off.byte + entry.pos.base, bit |-> off.bit + entry.pos.offset, align |-> off.align])

\* A write starts at a word or stays within one, and its offset and that of
\* the register do not add up to more than a word.
Aligned(off, size) ==
    LET p == (off.byte % 4) * Byte + off.bit + entry.pos.offset
    IN  p = 0 \/ p + size <= Word

\* write_cmd, with as many bytes of data as needed.
WriteCmd(offset, length) ==
    LET off == MakeBB(offset[1], offset[2])
        len == WordNormalised(MakeBB(length[1], length[2]))
        size == len.byte * Byte + len.bit
        bytes == (size + Byte - 1) \div Byte
        at == Placed(off)
        value == [i \in 0 .. size \div Word |-> WordOf(bytes, i)]
    IN  /\ off.byte * Byte + off.bit + size <= EntryBits(entry.len)
        /\ map' = WordsStored(at.byte, Written(at.byte, at.bit, value, size))
        /\ done' = [request |-> "write", aligned |-> Aligned(off, size),
                    from |-> off.byte * Byte + off.bit, size |-> size]
        /\ UNCHANGED entry

\* The i-th word of a read without a shift; the last one may be partial.
ReadWord(at, amount, i) ==
    IF i < amount.byte \div 4 THEN WordAt(at.byte + i * 4) ELSE First(WordAt(at.byte + i * 4), amount.bit)

\* With a shift: what is carried over is taken from the word put together, not
\* from the one in memory, so that only the first word is right.
ShiftedWord(at, amount, i) ==
    LET shifted[j \in Nat] ==
            Or(Left(IF j = 0 THEN WordAt(at.byte) ELSE shifted[j - 1], at.bit),
               Right(WordAt(at.byte + (j + 1) * 4), Word - at.bit))
    IN  IF amount.byte = 0 THEN First(Left(WordAt(at.byte), at.bit), amount.bit) ELSE shifted[i]

\* read_register and read_cmd.  More words are taken if the shift moves the
\* bits that are left across the end of one, and "the incorrect number of
\* bytes" aborts the server.
ReadCmd(offset, length) ==
    LET start == WordNormalised(MakeBB(offset[1], offset[2]))
        amount == WordNormalised(MakeBB(length[1], length[2]))
        first == WordNormalised(MakeBB(entry.pos.base, entry.pos.offset))
        extent == WordNormalised(MakeBB(entry.len.base, entry.len.offset))
        at == AddBB(first, start)
        grab == IF at.bit + amount.bit > Word THEN amount.byte + 4 ELSE amount.byte
        transfer == amount.byte + (amount.bit + Byte - 1) \div Byte
        got == IF at.bit = 0 THEN amount.byte ELSE grab
    IN  /\ ~Exceeds(AddBB(first, extent), WordNormalised(MakeBB(MapSize, 0)))
        /\ ~Exceeds(start, extent)
        /\ ~Exceeds(AddBB(start, amount), extent)
        /\ transfer > 0
        /\ done' = [request |-> IF got # amount.byte THEN "abort" ELSE "read",
                    from |-> start.byte * Byte + start.bit,
                    size |-> amount.byte * Byte + amount.bit,
                    value |-> [k \in 0 .. transfer * Byte - 1 |->
                                 (IF at.bit = 0 THEN ReadWord(at, amount, k \div Word)
                                                ELSE ShiftedWord(at, amount, k \div Word))[k % Word]]]
        /\ UNCHANGED <<entry, map>>

-----------------------------------------------------------------------------

\* Whatever the memory holds now is named afresh before the next request.
Renamed ==
    /\ done # NoRequest
    /\ done' = NoRequest /\ map' = Pristine
    /\ UNCHANGED entry

RegistersNext ==
    \/ \E position \in Positions, extent \in Extents : RegisterCmd(position, extent)
    \/ /\ entry # NoEntry /\ done = NoRequest
       /\ \/ \E r \in WordRanges : WordWriteCmd(r[1], r[2]) \/ WordReadCmd(r[1], r[2])
          \/ \E r \in Ranges : WriteCmd(r[1], r[2]) \/ ReadCmd(r[1], r[2])
    \/ Renamed

RegistersSpec == RegistersInit /\ [][RegistersNext]_rvars

-----------------------------------------------------------------------------

\* A write changes the bits it is asked to and no other, so that neighbours
\* in the same word are safe, and puts its data there in order, wherever the
\* register starts.  "Subject to alignment constraints" for ?write: outside of
\* them its data are put in place just the same, if no word is skipped.
WritesExact ==
    done.request = "write" /\ done.aligned =>
        LET from == EntryBits(entry.pos) + done.from
        IN  map = [k \in Bits |-> IF k - from \in 0 .. done.size - 1 THEN {<<"data", k - from>>} ELSE {<<"map", k>>}]

\* A read returns the bits it is asked for, in order.
Returned == \A k \in 0 .. done.size - 1 : done.value[k] = map[EntryBits(entry.pos) + done.from + k]

\* Wherever the register starts: ?wordread, and ?read of what starts at a word
\* or is not longer than one, and does not abort.
ReadsExact ==
    LET shift == (EntryBits(entry.pos) + done.from) % Word
    IN  done.request = "wordread" \/ (done.request = "read" /\ (shift = 0 \/ done.size <= Word))
            => Returned

\* What is written is found where it belongs, and what is read is what is
\* there, to the bit.
TransfersExact == WritesExact /\ ReadsExact

\* "COMPLEX: start at bit offset, read arb bytes and bits => shift, then copy":
\* the same for any ?read that returns something.
ReadsShifted == done.request = "read" => Returned

=============================================================================
