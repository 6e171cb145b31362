-------------------------------- MODULE Md5 --------------------------------
(***************************************************************************)
(* How GenerateMD5 (Md5.cc) cuts a message into blocks: the buffer of      *)
(* md5_update, the padding and the length of md5_finish.  The compression  *)
(* of a block is not computed: ctx.state is the sequence of the blocks     *)
(* md5_process was given, which determines the digest.                     *)
(***************************************************************************)
EXTENDS Integers, Sequences

CONSTANTS
    Block,    \* the 64 bytes of a block
    WordLen,  \* the 4 bytes of a word
    Word,     \* the 2^32 to which total[0] is cut
    MaxLen    \* bound: bytes of a message

\* The messages of the program have at most 10 bytes, so that their number of
\* bits fits into a word.
ASSUME Md5Assumption ==
    /\ WordLen \in Nat \ {0} /\ Block \in Nat /\ Block > 2 * WordLen
    /\ Word \in Nat /\ Word % (8 * Block) = 0
    /\ MaxLen \in Nat /\ 8 * MaxLen < Word

VARIABLES pc, len, ctx, msglen

vars == <<pc, len, ctx, msglen>>

\* A byte is known by where it comes from: a place in the message, or a number of
\* bits and a place in it; x80, zero and junk are the first byte of md5_padding,
\* the others, and what an uninitialized buffer holds.
Bytes == ({"msg"} \X (1..MaxLen)) \union ({"len"} \X ((0..Word) \X (1..WordLen)))
            \union {<<"x80", 0>>, <<"zero", 0>>, <<"junk", 0>>}

message == [i \in 1..len |-> <<"msg", i>>]
md5_padding == [i \in 1..Block |-> IF i = 1 THEN <<"x80", 0>> ELSE <<"zero", 0>>]

\* The bytes of a word, the low one first.
PUT_UINT32(n) == [j \in 1..WordLen |-> <<"len", <<n, j>>>>]

\* Junk in the buffer: md5_starts does not touch it.
md5_starts == [total |-> <<0, 0>>, state |-> <<>>, buffer |-> [i \in 1..Block |-> <<"junk", 0>>]]

md5_process(state, data) == Append(state, data)

memcpy(buffer, at, input) ==
    [i \in 1..Block |-> IF i - at \in 1..Len(input) THEN input[i - at] ELSE buffer[i]]

-----------------------------------------------------------------------------
\* (Uncut and SixtyFits are seeded bugs.)
Uncut(n) == n
Cut(n) == n % Word

\* uint32 has 64 bits, and what total[0] is compared with is not cut.
Counted(total, length) ==
    LET low == Cut(total[1] + 8 * length) IN
    <<low, total[2] + (8 * length) \div Word + (IF low < 8 * length THEN 1 ELSE 0)>>

Completes(left, length) == left > 0 /\ length >= Block - left

md5_update(c, input) ==
    LET length == Len(input)
        left   == (c.total[1] \div 8) % Block
        head   == IF Completes(left, length) THEN Block - left ELSE 0
        filled == memcpy(c.buffer, left, SubSeq(input, 1, head))
        whole  == (length - head) \div Block
        rest   == SubSeq(input, head + Block * whole + 1, length)
    IN  [total  |-> IF length = 0 THEN c.total ELSE Counted(c.total, length),
         state  |-> (IF head > 0 THEN md5_process(c.state, filled) ELSE c.state)
                      \o [k \in 1..whole |-> SubSeq(input, head + Block * (k - 1) + 1,
                                                           head + Block * k)],
         buffer |-> memcpy(filled, IF head > 0 THEN 0 ELSE left, rest)]

\* 56 - last or 120 - last
SixtyFits(last) ==
    (IF last <= Block - 2 * WordLen THEN Block ELSE 2 * Block) - 2 * WordLen - last
padn(last) == (IF last < Block - 2 * WordLen THEN Block ELSE 2 * Block) - 2 * WordLen - last

-----------------------------------------------------------------------------
Init == pc = "starts" /\ len \in 0..MaxLen /\ ctx = md5_starts /\ msglen = <<>>

Message ==
    /\ pc = "starts" /\ pc' = "finish"
    /\ ctx' = md5_update(ctx, message)
    /\ UNCHANGED <<len, msglen>>

\* md5_finish takes the length before it counts the padding.
Padding ==
    /\ pc = "finish" /\ pc' = "msglen"
    /\ msglen' = PUT_UINT32(ctx.total[1]) \o PUT_UINT32(ctx.total[2])
    /\ ctx' = md5_update(ctx, SubSeq(md5_padding, 1, padn((ctx.total[1] \div 8) % Block)))
    /\ UNCHANGED len

Length ==
    /\ pc = "msglen" /\ pc' = "done"
    /\ ctx' = md5_update(ctx, msglen)
    /\ UNCHANGED <<len, msglen>>

GenerateMD5 == Message \/ Padding \/ Length

Next == GenerateMD5 \/ (pc = "done" /\ UNCHANGED vars)

Spec == Init /\ [][Next]_vars

-----------------------------------------------------------------------------
\* The sums of md5_update stay words and its copies stay within the buffer.
TypeOK ==
    /\ pc \in {"starts", "finish", "msglen", "done"}
    /\ len \in 0..MaxLen
    /\ ctx.total[1] \in 0..(Word - 1) /\ ctx.total[2] \in Nat
    /\ \A k \in 1..Len(ctx.state) : ctx.state[k] \in [1..Block -> Bytes]
    /\ ctx.buffer \in [1..Block -> Bytes]
    /\ \A i \in 1..Len(msglen) : msglen[i] \in Bytes

\* RFC 1321: the message, the byte 0x80, as few zeros as fill the last block,
\* and the number of bits in two words, low word and low byte first.
Bits(j) == IF j <= WordLen THEN <<(8 * len) % Word, j>> ELSE <<(8 * len) \div Word, j - WordLen>>

Padded ==
    LET zeros == CHOOSE k \in 0..(Block - 1) : (len + 1 + k + 2 * WordLen) % Block = 0 IN
    message \o <<<<"x80", 0>>>> \o [i \in 1..zeros |-> <<"zero", 0>>]
            \o [j \in 1..(2 * WordLen) |-> <<"len", Bits(j)>>]

\* Md5.cc:2 "RFC 1321 compliant": whatever the length of the message, its end at
\* any place of a block, the blocks compressed are those of the padded message,
\* in order, and nothing the buffer held before is among them.
DigestIsRFC ==
    pc = "done" =>
        ctx.state = [k \in 1..(Len(Padded) \div Block) |->
                        SubSeq(Padded, Block * (k - 1) + 1, Block * k)]
=============================================================================
