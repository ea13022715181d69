------------------------------ MODULE Elements ------------------------------
(***************************************************************************)
(* json_tools.c: how a typed element of a template is written into a file  *)
(* (jst_load_element) and read from it (jst_store_element).                *)
(*                                                                         *)
(* Memory is the set of the bits that are 1: bit 8*p + k is bit k of byte  *)
(* p.  An element's type is a pair of its name and its number: <<"bit",3>> *)
(* is bit3_t, <<"hex",2>> hex[2], <<"uint",0>> plain uint.  A JSON number  *)
(* is its valueint, which cJSON saturates, as the set of its bits in 0..31 *)
(* (two's complement); a JSON string is the bytes that its characters, or  *)
(* for hex its pairs of digits, stand for.  Not modelled: float, double.   *)
(***************************************************************************)
EXTENDS Integers, FiniteSetsExt

NoValue == [kind |-> "none"]
Number(bits) == [kind |-> "number", bits |-> bits]
String(len, bits) == [kind |-> "string", len |-> len, bits |-> bits]

IsValue(v) ==
    \/ v = NoValue
    \/ v = Number(v.bits) /\ v.bits \subseteq Nat
    \/ v = String(v.len, v.bits) /\ v.len \in Nat /\ v.bits \subseteq 0..(8 * v.len - 1)

Least(i, j) == IF i < j THEN i ELSE j

\* jst_typesize().  More than eight bits are taken for eight.
TypeSize(type) ==
    LET name == type[1]
        n == type[2]
        As(index, bits) == [index |-> index, bits |-> bits]
    IN  CASE name = "bitmask" -> As("bitmask", 0)
          [] name = "bool" -> As("bit", 1)
          [] name = "bit" -> As(IF n = 0 THEN "bitmask" ELSE "bit", Least(n, 8))
          [] name = "char" -> IF n = 0 THEN As("int", 8) ELSE As("string", 8 * n)
          [] name = "hex" -> As("hex", IF n = 0 THEN 8 ELSE 8 * n)
          [] name \in {"int", "uint"} -> As(name, IF n = 0 THEN 32 ELSE n)
          [] name = "long" -> As("int", 32)
          [] name = "short" -> As("int", 16)
          [] OTHER -> As("unknown", 0)

\* A plausible slip: the mask is made one bit wider than the field.
FieldWide(bitpos, n) == {k \in bitpos..(bitpos + n) : k < 32}

\* The bits of a bit field in the four bytes that are changed at a time.
Field(bitpos, n) == {k \in bitpos..(bitpos + n - 1) : k < 32}

\* The bits of memory, from address a, that belong to an element.
ElementBits(a, bitpos, type) ==
    LET i == TypeSize(type)
        first == IF i.index = "bit" THEN bitpos ELSE 0
    IN  {a + k : k \in first..(first + i.bits - 1)}

(* jst_load_element(): memory m after the value is written at bit address  *)
(* a, of a place with limit bytes.  A number has 32 bits, also for a type  *)
(* of 64.  A hex string for a number is written whole, whatever the type's *)
(* size.  What follows the end of a text that is too short is junk.        *)
LoadElement(m, a, limit, bitpos, type, value, junk) ==
    LET i == TypeSize(type)
        bytes == i.bits \div 8
        Put(field, bits) == (m \ {a + k : k \in field}) \cup {a + k : k \in bits}
        Fit == bytes <= limit
        n == IF value.kind = "string" THEN 8 * value.len ELSE 32
        text == {k \in value.bits : k < i.bits} \cup {k \in junk : n + 8 <= k /\ k < i.bits}
    IN  IF limit <= 0 \/ value = NoValue THEN m
        ELSE CASE i.index = "bit" ->
                    IF 1 + ((bitpos + i.bits) \div 8) > limit THEN m
                    ELSE LET field == Field(bitpos, i.bits)
                         IN  Put(field, {k \in field : k - bitpos \in value.bits})
               [] i.index = "string" /\ value.kind = "string" /\ Fit -> Put(0..(i.bits - 1), text)
               [] i.index = "hex" /\ value.kind = "string" /\ Fit ->
                    Put(0..(Least(n, i.bits) - 1), {k \in value.bits : k < i.bits})
               [] i.index \in {"int", "uint"} /\ Fit ->
                    IF value.kind = "string" THEN Put(0..(Max({n, i.bits}) - 1), value.bits)
                    ELSE Put(0..(i.bits - 1), {k \in value.bits : k < i.bits})
               [] OTHER -> m

\* The valueint of a number of n bits that is printed and parsed again.
ValueInt(bits, n, signed) ==
    LET negative == signed /\ (n - 1) \in bits
        top == {k \in bits : k >= 31}
    IN  IF negative
        THEN IF n <= 32 THEN bits \cup n..31
             ELSE IF top = 31..(n - 1) THEN bits \cap 0..31 ELSE {31}
        ELSE IF top = {} THEN bits ELSE 0..30

\* A plausible slip: the byte in which a field has less than eight bits is not read.
ReadShort(bitpos, n) == {k \in 0..(n - 1) : bitpos + k < 8 * (n \div 8)}

\* The bits of a bit field in the bytes that are read for it.
Read(bitpos, n) == {k \in 0..(n - 1) : bitpos + k < 8 * (1 + (n \div 8))}

(* jst_store_element(): the value of an element in memory.  Of a bit field *)
(* the first 1 + n/8 bytes are read.  A text ends at its first zero byte.  *)
StoreElement(m, a, bitpos, type) ==
    LET i == TypeSize(type)
        n == i.bits
        read == {k \in 0..(n - 1) : (a + k) \in m}
        zeros == {p \in 0..(n \div 8) : p = n \div 8 \/ read \cap (8 * p)..(8 * p + 7) = {}}
        len == Min(zeros)
    IN  CASE n = 0 -> NoValue
          [] i.index = "bit" -> Number({k \in Read(bitpos, n) : (a + bitpos + k) \in m})
          [] i.index = "string" -> String(len, {k \in read : k < 8 * len})
          [] i.index = "hex" -> String(n \div 8, read)
          [] i.index \in {"int", "uint"} -> Number(ValueInt(read, n, i.index = "int"))
          [] OTHER -> NoValue

=============================================================================
