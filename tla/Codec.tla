------------------------------- MODULE Codec -------------------------------
(***************************************************************************)
(* The byte layouts that the serialize and deserialize methods of the      *)
(* repository write and read.  A layout is a list of items (WireFormats    *)
(* has one per method); this module says what writing and reading them     *)
(* does.  A byte is a number below 256, so the order of the bytes of an    *)
(* integer and every length matter as they do in the code.                 *)
(***************************************************************************)
EXTENDS Integers, Sequences, SequencesExt

Byte == 0..255

\* Values are below 2^24: three bytes tell the two byte orders apart.
Huge == 256 * 256 * 256

\* An item: its kind, the field it holds, the width of its integer (the
\* value, or the count or length in front of it) and the layout of its parts;
\* of an enumeration, its largest value.
Item(k, n, w, of) == [kind |-> k, name |-> n, width |-> w, of |-> of, flag |-> ""]
LE(n, w)         == Item("le", n, w, <<>>)
BE(n, w)         == Item("be", n, w, <<>>)
Raw(n, w)        == Item("le", n, w, <<>>)
Unread(n, w)     == Item("unread", n, w, <<>>)
Enum(n, max)     == Item("enum", n, 1, max)
IfThere(n)       == Item("ifthere", n, 1, <<>>)
TextLE(n, w)     == Item("textle", n, w, <<>>)
TextBE(n, w)     == Item("textbe", n, w, <<>>)
ListLE(n, w, of) == Item("listle", n, w, of)
ListBE(n, w, of) == Item("listbe", n, w, of)
Sized(n, w, of)  == Item("sized", n, w, of)
Rest(n, of)      == Item("rest", n, 0, of)
RestIf(n, f, of) == [Item("restif", n, 0, of) EXCEPT !.flag = f]

\* A layout: the size below which its data is refused, whether data left
\* over is refused too, the width of the length in front of it as an element
\* of a list (0: none, its size is fixed), and whether the method tests that
\* an item is there before it reads it.
Layout(size, items) ==
    [size |-> size, exact |-> FALSE, prefix |-> 0, tested |-> TRUE, items |-> items]
Exact(layout)       == [layout EXCEPT !.exact = TRUE]
Untested(layout)    == [layout EXCEPT !.tested = FALSE]
Prefixed(w, layout) == [layout EXCEPT !.prefix = w]

\* The parts of the value v of an item: those that have a layout of their own.
Parts(it, v) == CASE it.kind \in {"listle", "listbe", "restif"} -> v
                  [] it.kind \in {"sized", "rest"} -> <<v>>
                  [] OTHER -> <<>>

\* The i-th least significant byte of v, and v in w bytes.
Digit(v, i) == CASE i = 1 -> v % 256
                 [] i = 2 -> (v \div 256) % 256
                 [] i = 3 -> v \div (256 * 256)
                 [] OTHER -> 0
BytesLE(v, w) == [i \in 1..w |-> Digit(v, i)]
BytesBE(v, w) == Reverse(BytesLE(v, w))

\* The number that bytes hold, the least significant first; Huge stands for
\* every number outside the range of the values.
NumberLE(b) ==
    LET At(i) == IF i <= Len(b) THEN b[i] ELSE 0
    IN  IF \E i \in 4..Len(b) : b[i] # 0 THEN Huge
        ELSE At(1) + 256 * At(2) + 256 * 256 * At(3)
BigEndian(kind)    == kind \in {"be", "textbe", "listbe"}
Number(kind, b)    == IF BigEndian(kind) THEN NumberLE(Reverse(b)) ELSE NumberLE(b)
Bytes(kind, v, w)  == IF BigEndian(kind) THEN BytesBE(v, w) ELSE BytesLE(v, w)

-----------------------------------------------------------------------------
\* Writing.  The parts of an item come as the bytes they were written as.
Concat(chunks, n) ==
    LET upto[k \in 0..n] == IF k = 0 THEN <<>> ELSE upto[k - 1] \o chunks[k]
    IN  upto[n]

WithLength(w, bytes) == BytesLE(Len(bytes), w) \o bytes

\* The integer in front: the value itself, or a count or length of what follows.
InFront(it, v, parts) ==
    CASE it.kind \in {"textle", "textbe", "listle", "listbe"} -> Len(v)
      [] it.kind = "sized" -> Len(parts[1])
      [] it.kind \in {"rest", "restif"} -> 0
      [] OTHER -> v

Behind(it, v, parts) ==
    CASE it.kind \in {"textle", "textbe"} -> v
      [] it.kind \in {"listle", "listbe", "restif"} ->
            Concat([e \in 1..Len(v) |-> WithLength(it.of.prefix, parts[e])], Len(v))
      [] it.kind \in {"sized", "rest"} -> parts[1]
      [] OTHER -> <<>>

WriteItem(it, v, parts) ==
    Bytes(it.kind, InFront(it, v, parts), it.width) \o Behind(it, v, parts)

\* serialize: the items one after the other.
WriteLayout(layout, rec, parts) ==
    Concat([k \in 1..Len(layout.items) |->
                WriteItem(layout.items[k], rec[layout.items[k].name], parts[k])],
           Len(layout.items))

\* A method calls those of the parts, which are at most three levels deep: a
\* block response holds a block, that a certificate, and that its signers.
PartsAt(layout, rec, k) == Parts(layout.items[k], rec[layout.items[k].name])
Write0(layout, rec) == WriteLayout(layout, rec, [k \in 1..Len(layout.items) |-> <<>>])
Parts1(layout, rec) ==
    [k \in 1..Len(layout.items) |-> [e \in 1..Len(PartsAt(layout, rec, k)) |->
        Write0(layout.items[k].of, PartsAt(layout, rec, k)[e])]]
Write1(layout, rec) == WriteLayout(layout, rec, Parts1(layout, rec))
Parts2(layout, rec) ==
    [k \in 1..Len(layout.items) |-> [e \in 1..Len(PartsAt(layout, rec, k)) |->
        Write1(layout.items[k].of, PartsAt(layout, rec, k)[e])]]
Write2(layout, rec) == WriteLayout(layout, rec, Parts2(layout, rec))
Parts3(layout, rec) ==
    [k \in 1..Len(layout.items) |-> [e \in 1..Len(PartsAt(layout, rec, k)) |->
        Write2(layout.items[k].of, PartsAt(layout, rec, k)[e])]]
Write(layout, rec) == WriteLayout(layout, rec, Parts3(layout, rec))

-----------------------------------------------------------------------------
\* Reading ends in a value and the position after it, in the exception a
\* method throws, or in a read past the end that no test prevents.  The
\* methods of the parts come as functions of the bytes they are given.
Got(v, at) == [ended |-> "read", rec |-> v, at |-> at]
Threw      == [ended |-> "threw", rec |-> <<>>, at |-> 0]
Overran    == [ended |-> "overran", rec |-> <<>>, at |-> 0]
Missing(of) == IF of.tested THEN Threw ELSE Overran

\* The bytes a..b of data are read as a part; the position after them is b + 1.
ReadPart(part, data, a, b) ==
    LET r == part[SubSeq(data, a, b)]
    IN  IF r.ended = "read" THEN Got(r.rec, b + 1) ELSE r

\* One more element of a list after those in before.
ReadElement(of, part, data, before, missing) ==
    LET head == before.at + of.prefix
        len  == IF of.prefix = 0 THEN of.size
                ELSE NumberLE(SubSeq(data, before.at, head - 1))
        e    == ReadPart(part, data, head, (head + len) - 1)
    IN  IF before.ended # "read" THEN before
        ELSE IF head - 1 > Len(data) \/ (head + len) - 1 > Len(data) THEN missing
        ELSE IF e.ended # "read" THEN e
        ELSE Got(Append(before.rec, e.rec), e.at)

\* n elements from position at on.  The loop ends at the first that is
\* missing; every element takes eight bytes or more, so that at most one more
\* than there is room for is tried.
ReadList(of, part, n, data, at, missing) ==
    LET room == Len(data) \div 8
        tried == IF n > room THEN room + 1 ELSE n
        read[k \in 0..tried] ==
            IF k = 0 THEN Got(<<>>, at)
            ELSE ReadElement(of, part, data, read[k - 1], missing)
    IN  read[tried]

\* What follows the integer num in front of an item, from position end on.
ReadBehind(layout, it, part, data, end, num, rec) ==
    LET tail == ReadPart(part, data, end, Len(data))
        last == (end + num) - 1
    IN  CASE it.kind \in {"le", "be", "ifthere"} -> Got(num, end)
          [] it.kind = "enum" -> IF num > it.of THEN Threw ELSE Got(num, end)
          [] it.kind = "unread" -> Got(0, end)
          [] it.kind \in {"listle", "listbe"} ->
                ReadList(it.of, part, num, data, end, Missing(layout))
          [] it.kind = "rest" -> tail
          [] it.kind = "restif" ->
                IF rec[it.flag] # 1 THEN Got(<<>>, end)
                ELSE IF tail.ended = "read" THEN Got(<<tail.rec>>, tail.at) ELSE tail
          [] it.kind \in {"textle", "textbe", "sized"} ->
                IF last > Len(data) THEN Missing(layout)
                ELSE IF it.kind = "sized" THEN ReadPart(part, data, end, last)
                ELSE Got(SubSeq(data, end, last), last + 1)

\* One item of layout at position at, after the fields in rec.
ReadItem(layout, it, part, data, at, rec) ==
    LET end == at + it.width
    IN  IF end - 1 > Len(data)
        THEN IF it.kind = "ifthere" THEN Got(0, at) ELSE Missing(layout)
        ELSE ReadBehind(layout, it, part, data, end,
                        Number(it.kind, SubSeq(data, at, end - 1)), rec)

\* The fields so far and one more.
WithField(rec, name, v) ==
    [x \in DOMAIN rec \cup {name} |-> IF x = name THEN v ELSE rec[x]]

ReadField(layout, it, part, data, before) ==
    LET got == ReadItem(layout, it, part, data, before.at, before.rec)
    IN  IF before.ended # "read" THEN before
        ELSE IF got.ended # "read" THEN got
        ELSE Got(WithField(before.rec, it.name, got.rec), got.at)

ReadItems(layout, data, parts) ==
    LET read[k \in 0..Len(layout.items)] ==
            IF k = 0 THEN Got([x \in {} |-> 0], 1)
            ELSE ReadField(layout, layout.items[k], parts[k], data, read[k - 1])
    IN  read

\* deserialize: the test of the size, then the items; data left over is
\* ignored unless the layout is exact.
ReadLayout(layout, data, parts) ==
    LET all == ReadItems(layout, data, parts)[Len(layout.items)]
    IN  IF Len(data) < layout.size THEN Threw
        ELSE IF layout.exact /\ all.ended = "read" /\ all.at # Len(data) + 1 THEN Threw
        ELSE all

Read0(layout, data) ==
    ReadLayout(layout, data, [k \in 1..Len(layout.items) |-> <<>>])
Readers1(layout) ==
    [k \in 1..Len(layout.items) |-> [s \in Seq(Byte) |-> Read0(layout.items[k].of, s)]]
Read1(layout, data) == ReadLayout(layout, data, Readers1(layout))
Readers2(layout) ==
    [k \in 1..Len(layout.items) |-> [s \in Seq(Byte) |-> Read1(layout.items[k].of, s)]]
Read2(layout, data) == ReadLayout(layout, data, Readers2(layout))
Readers3(layout) ==
    [k \in 1..Len(layout.items) |-> [s \in Seq(Byte) |-> Read2(layout.items[k].of, s)]]
Read(layout, data) == ReadLayout(layout, data, Readers3(layout))

-----------------------------------------------------------------------------
\* The values that fit a layout: an integer fits its bytes, a count and a
\* length theirs, and what depends on a flag is there when the flag says so.
Limit(w) == CASE w = 0 -> 1 [] w = 1 -> 256 [] w = 2 -> 256 * 256 [] OTHER -> Huge
FitsItem(it, v, rec, parts) ==
    /\ InFront(it, v, parts) \in 0..(Limit(it.width) - 1)
    /\ it.kind = "enum" => v <= it.of
    /\ it.kind \in {"textle", "textbe"} => v \in Seq(Byte)
    /\ it.kind \in {"listle", "listbe", "restif"} =>
          /\ v \in Seq(Range(v))
          /\ \A e \in 1..Len(v) : it.of.prefix # 0 => Len(parts[e]) < Limit(it.of.prefix)
    /\ it.kind = "restif" => IF rec[it.flag] = 1 THEN Len(v) = 1 ELSE v = <<>>
FitsLayout(layout, rec, parts) ==
    /\ rec = [x \in {layout.items[k].name : k \in 1..Len(layout.items)} |-> rec[x]]
    /\ \A k \in 1..Len(layout.items) :
          FitsItem(layout.items[k], rec[layout.items[k].name], rec, parts[k])
Fits0(layout, rec) ==
    /\ FitsLayout(layout, rec, [k \in 1..Len(layout.items) |-> <<>>])
    /\ \A k \in 1..Len(layout.items) : PartsAt(layout, rec, k) = <<>>
Fits1(layout, rec) ==
    /\ FitsLayout(layout, rec, Parts1(layout, rec))
    /\ \A k \in 1..Len(layout.items) : \A e \in 1..Len(PartsAt(layout, rec, k)) :
          Fits0(layout.items[k].of, PartsAt(layout, rec, k)[e])
Fits2(layout, rec) ==
    /\ FitsLayout(layout, rec, Parts2(layout, rec))
    /\ \A k \in 1..Len(layout.items) : \A e \in 1..Len(PartsAt(layout, rec, k)) :
          Fits1(layout.items[k].of, PartsAt(layout, rec, k)[e])
Fits(layout, rec) ==
    /\ FitsLayout(layout, rec, Parts3(layout, rec))
    /\ \A k \in 1..Len(layout.items) : \A e \in 1..Len(PartsAt(layout, rec, k)) :
          Fits2(layout.items[k].of, PartsAt(layout, rec, k)[e])
=============================================================================
