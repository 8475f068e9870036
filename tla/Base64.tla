------------------------------- MODULE Base64 -------------------------------
(***************************************************************************)
(* base64_encode and base64_decode of crypt/base64.c, a step per pass of   *)
(* the outer loop of each.  A byte is a number; so is a character, its     *)
(* code.  The text that is decoded is one that was encoded.                *)
(***************************************************************************)
EXTENDS Integers, Sequences
LOCAL INSTANCE FiniteSetsExt

CONSTANTS
    Bytes,          \* the bytes of the data
    MaxData         \* a bound on their number

VARIABLES
    plain,          \* the data
    coded,          \* what base64_encode has written
    decoded,        \* what base64_decode has written
    tmp,            \* the bytes or characters that the loop has read
    doing64         \* "encode", "decode" or "done"

base64Vars == <<plain, coded, decoded, tmp, doing64>>

(* The array base: A-Z, a-z, 0-9, +, /, =. *)
base == [p \in 0..64 |-> IF p < 26 THEN 65 + p
                         ELSE IF p < 52 THEN 97 + p - 26
                         ELSE IF p < 62 THEN 48 + p - 52
                         ELSE <<43, 47, 61>>[p - 61]]

find_pos(ch) == Max({p \in DOMAIN base : base[p] = ch})

Base64Init ==
    /\ \E n \in 1..MaxData : plain \in [1..n -> Bytes]
    /\ coded = <<>> /\ decoded = <<>> /\ tmp = 0 /\ doing64 = "encode"

-----------------------------------------------------------------------------
(* The numbers of s in one, w bits each, those that are missing from a     *)
(* group of n being 0; and its k-th digit of w bits from the left.         *)
joined(s, n, w) ==
    LET go[k \in 0..n] == IF k = 0 THEN 0
                          ELSE go[k - 1] * 2^w + IF k <= Len(s) THEN s[k] ELSE 0
    IN  go[n]
digit(prepare, k, w) == (prepare \div 2^(24 - w * k)) % 2^w

Smaller(a, b) == IF a < b THEN a ELSE b

group(s, n) == SubSeq(s, tmp + 1, Smaller(tmp + n, Len(s)))

base64_encode ==
    LET bytes == group(plain, 3)
        prepare == joined(bytes, 3, 8)
        changed == [i \in 0..3 |-> IF Len(bytes) < i THEN 64 ELSE digit(prepare, i + 1, 6)]
    IN  /\ doing64 = "encode"
        /\ IF tmp < Len(plain)
           THEN /\ coded' = coded \o [i \in 1..4 |-> base[changed[i - 1]]]
                /\ tmp' = tmp + Len(bytes)
                /\ UNCHANGED doing64
           ELSE doing64' = "decode" /\ tmp' = 0 /\ UNCHANGED coded
        /\ UNCHANGED <<plain, decoded>>

(* The '=' among the last three characters. *)
equal_count == Quantify({0, 1, 2}, LAMBDA k : coded[Len(coded) - k] = base[64])

base64_decode ==
    LET text == SubSeq(coded, 1, Len(coded) - equal_count)
        chars == group(text, 4)
        prepare == joined([i \in 1..Len(chars) |-> find_pos(chars[i])], 4, 6)
    IN  /\ doing64 = "decode"
        /\ IF tmp < Len(text)
           THEN /\ decoded' = decoded \o [i \in 1..Smaller(3, Len(chars)) |-> digit(prepare, i, 8)]
                /\ tmp' = tmp + Len(chars)
                /\ UNCHANGED doing64
           ELSE doing64' = "done" /\ UNCHANGED <<decoded, tmp>>
        /\ UNCHANGED <<plain, coded>>

Base64Next == base64_encode \/ base64_decode

-----------------------------------------------------------------------------
(* What the functions allocate. *)
encode_len == (Len(plain) \div 3 + (IF Len(plain) % 3 > 0 THEN 1 ELSE 0)) * 4 + 1
decode_len == (Len(coded) \div 4) * 3 + <<4, 4, 3, 2>>[equal_count + 1]

(* The b-th bit of the data from the left, 0 behind its end. *)
bit(b) ==
    LET k == (b - 1) \div 8 + 1
    IN  IF k > Len(plain) THEN 0 ELSE (plain[k] \div 2^(7 - ((b - 1) % 8))) % 2

(* The text of base64_encode is six bits of the data after the other, then *)
(* '=' up to a multiple of four; base64_decode gives the data back, and    *)
(* behind it only zeros, with which a C string ends; neither writes behind *)
(* what it allocated, the final zero included.                             *)
Base64Right ==
    /\ \A c \in 1..Len(coded) :
         coded[c] = IF 6 * (c - 1) >= 8 * Len(plain) THEN base[64]
                    ELSE base[32 * bit(6 * c - 5) + 16 * bit(6 * c - 4) + 8 * bit(6 * c - 3)
                              + 4 * bit(6 * c - 2) + 2 * bit(6 * c - 1) + bit(6 * c)]
    /\ Len(coded) + 1 <= encode_len
    /\ doing64 # "encode" => Len(decoded) + 1 <= decode_len
    /\ \A k \in 1..Len(decoded) : decoded[k] = IF k <= Len(plain) THEN plain[k] ELSE 0
    /\ doing64 = "decode" => Len(coded) % 4 = 0
    /\ doing64 = "done" => Len(decoded) >= Len(plain)
=============================================================================
