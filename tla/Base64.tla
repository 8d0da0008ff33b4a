------------------------------- MODULE Base64 -------------------------------
(***************************************************************************)
(* Base64::decode_forgiven: the decoder of the repository, that skips what *)
(* it does not know.  It runs twice: without a buffer to learn the size,   *)
(* and again to fill a buffer of that size.  The encoder is mbedtls's.     *)
(***************************************************************************)
EXTENDS Transformations

b64_pad == 61

b64_reverse_t(c) ==
    CASE IsUpper(c)      -> c - 65
      [] IsLower(c)      -> c - 71
      [] IsDigit(c)      -> c + 4
      [] c \in {43, 45}  -> 62
      [] c \in {47, 95}  -> 63
      [] OTHER           -> -1

(* One character of the alphabet.  j counts whole bytes, part holds the    *)
(* bits of the next one, top is the highest index written so far.          *)
Decodes64(s, ch) ==
    LET whole(bits, rest) == [s EXCEPT !.i = @ + 1, !.ch = ch, !.j = @ + 1,
                                       !.out = Append(@, s.part + bits), !.part = rest]
    IN  CASE s.i % 4 = 0 -> [s EXCEPT !.i = @ + 1, !.ch = ch, !.part = 4 * ch, !.top = s.j]
          [] s.i % 4 = 1 -> [whole(ch \div 16, 16 * (ch % 16)) EXCEPT !.top = s.j + 1]
          [] s.i % 4 = 2 -> [whole(ch \div 4, 64 * (ch % 4)) EXCEPT !.top = s.j + 1]
          [] s.i % 4 = 3 -> whole(ch, 0)

EngineRound(in, s, p) ==
    LET ch == b64_reverse_t(in[p])
        lastPad == p = Len(in) \/ in[p + 1] # b64_pad
    IN  CASE s.dead -> s
          [] ~s.dead /\ in[p] = b64_pad ->
               [s EXCEPT !.ch = b64_pad, !.dead = lastPad /\ s.i % 4 = 1]
          [] ~s.dead /\ in[p] # b64_pad ->
               IF ch < 0 THEN [s EXCEPT !.ch = -1] ELSE Decodes64(s, ch)

(* What follows the loop looks at the last value, not at the last byte:    *)
(* the digit 9 has the value that "=" has as a byte.                       *)
AfterLoop(s) ==
    LET ends == s.ch = b64_pad
        k    == IF ends /\ s.i % 4 = 2 THEN s.j + 1 ELSE s.j
    IN  [size |-> IF s.dead \/ (ends /\ s.i % 4 = 1) THEN 0 ELSE k + 1,
         top  |-> IF ends /\ s.i % 4 \in {2, 3} /\ k > s.top THEN k
                  ELSE IF s.j > s.top THEN s.j ELSE s.top,
         out  |-> s.out]

decode_forgiven_engine(in) ==
    LET first == [i |-> 0, j |-> 0, ch |-> 0, part |-> 0, out |-> << >>, top |-> 0,
                  dead |-> FALSE]
    IN  AfterLoop(Carry([p \in 1..Len(in) |-> p], first, LAMBDA t, p : EngineRound(in, t, p)))

(* What the second pass leaves, and whether it had room for it.            *)
SecondPass(e) == [out |-> IF e.size = 0 THEN << >> ELSE e.out,
                  fits |-> e.size = 0 \/ e.top < e.size]
base64HelperForgiven(in) == SecondPass(decode_forgiven_engine(in))

base64DecodeExt(in) == Result(base64HelperForgiven(in).out, in # << >>)

(* mbedtls_base64_encode.                                                  *)
Letter64(v) ==
    CASE v < 26 -> 65 + v
      [] v \in 26..51 -> 71 + v
      [] v \in 52..61 -> v - 4
      [] v = 62 -> 43
      [] v = 63 -> 47

Encode64(in) ==
    LET groups == (Len(in) + 2) \div 3
        at(k)  == IF k <= Len(in) THEN in[k] ELSE 0
        bits(g) == 65536 * at(3 * g - 2) + 256 * at(3 * g - 1) + at(3 * g)
        letter(p) == LET g == (p + 3) \div 4
                         q == (p - 1) % 4
                     IN  IF 3 * g - 2 + q - 1 > Len(in) /\ q > 1 THEN b64_pad
                         ELSE Letter64((bits(g) \div 64^(3 - q)) % 64)
    IN  [p \in 1..4 * groups |-> letter(p)]

base64Encode(in) == Result(Encode64(in), in # << >>)
=============================================================================
