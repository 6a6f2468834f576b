-------------------------------- MODULE Crc8 --------------------------------
(***************************************************************************)
(* The CRC of the BiDiBus (crc_8bit.c, crc_8bit.h): the table the firmware  *)
(* steps through a byte at a time, and the polynomial it stands for.        *)
(***************************************************************************)
EXTENDS Naturals, Sequences

Byte == 0..255

Bit(x, i) == (x \div 2^i) % 2

Xor(x, y) ==
  LET Sum(i) == (Bit(x, i) + Bit(y, i)) % 2
  IN  Sum(0) + 2 * Sum(1) + 4 * Sum(2) + 8 * Sum(3)
        + 16 * Sum(4) + 32 * Sum(5) + 64 * Sum(6) + 128 * Sum(7)

\* The table; crc_array[i + 1] is the code's crc_array[i].
crc_array == <<
      0,  94, 188, 226,  97,  63, 221, 131, 194, 156, 126,  32, 163, 253,  31,  65,
    157, 195,  33, 127, 252, 162,  64,  30,  95,   1, 227, 189,  62,  96, 130, 220,
     35, 125, 159, 193,  66,  28, 254, 160, 225, 191,  93,   3, 128, 222,  60,  98,
    190, 224,   2,  92, 223, 129,  99,  61, 124,  34, 192, 158,  29,  67, 161, 255,
     70,  24, 250, 164,  39, 121, 155, 197, 132, 218,  56, 102, 229, 187,  89,   7,
    219, 133, 103,  57, 186, 228,   6,  88,  25,  71, 165, 251, 120,  38, 196, 154,
    101,  59, 217, 135,   4,  90, 184, 230, 167, 249,  27,  69, 198, 152, 122,  36,
    248, 166,  68,  26, 153, 199,  37, 123,  58, 100, 134, 216,  91,   5, 231, 185,
    140, 210,  48, 110, 237, 179,  81,  15,  78,  16, 242, 172,  47, 113, 147, 205,
     17,  79, 173, 243, 112,  46, 204, 146, 211, 141, 111,  49, 178, 236,  14,  80,
    175, 241,  19,  77, 206, 144, 114,  44, 109,  51, 209, 143,  12,  82, 176, 238,
     50, 108, 142, 208,  83,  13, 239, 177, 240, 174,  76,  18, 145, 207,  45, 115,
    202, 148, 118,  40, 171, 245,  23,  73,   8,  86, 180, 234, 105,  55, 213, 139,
     87,   9, 235, 181,  54, 104, 138, 212, 149, 203,  41, 119, 244, 170,  72,  22,
    233, 183,  85,  11, 136, 214,  52, 106,  43, 117, 151, 201,  74,  20, 246, 168,
    116,  42, 200, 150,  21,  75, 169, 247, 182, 232,  10,  84, 215, 137, 107,  53 >>

(* Fault: the byte replaces the register instead of being added to it. *)
crc8_forget(crc, data) == crc_array[data + 1]

crc8_update(crc, data) == crc_array[Xor(crc, data) + 1]

-----------------------------------------------------------------------------
(* Reference: division by x^8 + x^5 + x^4 + 1, least significant bit first. *)

Polynomial == 140   \* 0x8C: the reversed coefficients without x^8

Shifted == [x \in Byte |-> IF Bit(x, 0) = 1 THEN Xor(x \div 2, Polynomial) ELSE x \div 2]

DivideByte == [x \in Byte |->
  LET after[i \in 0..8] == IF i = 0 THEN x ELSE Shifted[after[i-1]]
  IN  after[8]]

\* Remainder of a string of bytes.
Remainder(bytes) ==
  LET after[i \in 0..Len(bytes)] ==
        IF i = 0 THEN 0 ELSE DivideByte[Xor(after[i-1], bytes[i])]
  IN  after[Len(bytes)]

\* The table of the firmware is the table of the polynomial.
ASSUME TableIsRemainder == \A b \in Byte : crc_array[b + 1] = DivideByte[b]
=============================================================================
