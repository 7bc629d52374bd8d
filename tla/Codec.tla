-------------------------------- MODULE Codec --------------------------------
(***************************************************************************)
(* The index of a series is its quadtree written into one slice of bytes   *)
(* (qNode.compress, appendUvarint, readUvarint in qtree.go; setCompressed  *)
(* in series.go).  A byte is a number below 2 * Radix; a variable-length   *)
(* integer keeps Radix values per byte and uses the other half of the byte *)
(* for "more follows".  With Radix = 128 this is the code's format; a      *)
(* small Radix makes small numbers take several bytes.                     *)
(* Addresses are the code's, from 0, so data[addr] is data[addr + 1] here. *)
(***************************************************************************)
EXTENDS Integers, SequencesExt

CONSTANT Radix        \* 0x80 in the code.

ASSUME RadixAssumption == Radix \in Nat \ {0, 1}

HeaderLen == 5        \* The index kind and the length in four bytes.
MaxUvarintLen == 10   \* readUvarint gives up after that many bytes.

At(data, addr) == data[addr + 1]

(* The bytes of x, least significant first. *)
Uvarint[x \in Nat] ==
    IF x < Radix THEN <<x>>
    ELSE <<Radix + (x % Radix)>> \o Uvarint[x \div Radix]

(* The value of the integer at addr, and the address after it.  Each byte  *)
(* adds its lower half to Radix times the value of the bytes after it.     *)
ReadUvarint(data, addr) ==
    LET Ends(k) == addr + k < Len(data) /\ At(data, addr + k) < Radix
        last == CHOOSE k \in 0 .. MaxUvarintLen - 1 :
                    Ends(k) /\ \A m \in 0 .. k - 1 : ~ Ends(m)
        value[a \in addr .. addr + last] ==
            (At(data, a) % Radix)
                + IF a = addr + last THEN 0 ELSE Radix * value[a + 1]
    IN  IF Ends(0) THEN [value |-> At(data, addr), addr |-> addr + 1]
        ELSE IF \E k \in 1 .. MaxUvarintLen - 1 : Ends(k)
        THEN [value |-> value[addr], addr |-> addr + last + 1]
        ELSE [value |-> 0, addr |-> -1]

(* sort.Ints: where item k goes, and the items in their places. *)
Rank(items, k) ==
    Cardinality({j \in DOMAIN items :
        items[j] < items[k] \/ (items[j] = items[k] /\ j <= k)})

Sorted(items) ==
    [r \in DOMAIN items |->
        items[CHOOSE k \in DOMAIN items : Rank(items, k) = r]]

(* The bytes of the items from the k-th on, each written as the difference *)
(* from the one before.                                                    *)
Differences(sorted) ==
    LET bytes[k \in 1 .. Len(sorted) + 1] ==
            IF k > Len(sorted) THEN <<>>
            ELSE Uvarint[sorted[k] - IF k = 1 THEN 0 ELSE sorted[k - 1]]
                     \o bytes[k + 1]
    IN  bytes

(* The item numbers of a node: sorted, counted, as differences. *)
CompressItems(items) == Uvarint[Len(items)] \o Differences(Sorted(items))[1]

(* A slip: the length is short by one. *)
SizedShort(dst2) == Uvarint[Len(dst2) - 1] \o dst2

(* A quad's bytes, preceded by their number. *)
Sized(dst2) == Uvarint[Len(dst2)] \o dst2

(* A node is its items and then 0, or 1 and its four quads, each preceded  *)
(* by its length; 0 stands for a quad that is nil.                         *)
Compress(tree) ==
    LET compress[n \in DOMAIN tree] ==
            LET quad(q) ==
                    IF tree[n].quads[q] = 0 THEN <<0>>
                    ELSE Sized(compress[tree[n].quads[q]])
            IN  CompressItems(tree[n].items)
                  \o IF ~ tree[n].split THEN <<0>>
                     ELSE <<1>> \o quad(0) \o quad(1) \o quad(2) \o quad(3)
    IN  compress

(* binary.LittleEndian.PutUint32 and Uint32. *)
Byte == 2 * Radix

PutUint32(x) == <<x % Byte, (x \div Byte) % Byte,
                  ((x \div Byte) \div Byte) % Byte,
                  (((x \div Byte) \div Byte) \div Byte) % Byte>>

Uint32(data) == data[2] + Byte * (data[3] + Byte * (data[4] + Byte * data[5]))

(* The whole index: the kind, the length of everything, the root. *)
SetCompressed(kind, tree) ==
    LET body == Compress(tree)[1]
    IN  <<kind>> \o PutUint32(HeaderLen + Len(body)) \o body

(* What the searches read: data[:n:n] for the length n in the header. *)
Readable(data) == SubSeq(data, 1, Uint32(data))
=============================================================================
