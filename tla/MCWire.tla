------------------------------- MODULE MCWire -------------------------------
(***************************************************************************)
(* Wire with messages of every type: all lists empty, with one and with    *)
(* two elements, every flag set and clear, and integers whose bytes differ. *)
(***************************************************************************)
EXTENDS Wire

RECURSIVE Sample(_, _, _)

\* A message of the layout whose lists have n elements and whose flags are f.
Sample(layout, n, f) ==
    LET Value(i) ==
            LET it == layout.items[i]
            IN  CASE it.kind \in {"textle", "textbe"} -> [k \in 1..n |-> 7 * k]
                  [] it.kind \in {"listle", "listbe"} ->
                        [k \in 1..n |-> Sample(it.of, n, f)]
                  [] it.kind \in {"sized", "rest"} -> Sample(it.of, n, f)
                  [] it.kind = "restif" ->
                        IF f = 0 THEN <<>> ELSE <<Sample(it.of, n, f)>>
                  [] it.width = 1 -> f
                  [] OTHER -> 66051 + 257 * i + n
        Index(name) == CHOOSE i \in DOMAIN layout.items : layout.items[i].name = name
    IN  [name \in {layout.items[i].name : i \in DOMAIN layout.items} |-> Value(Index(name))]

MCMessages == {[type |-> t, fields |-> Sample(Writers[t], n, f)] :
                    t \in DOMAIN Writers, n \in 0..2, f \in {0, 1}}

\* A hash that depends on every byte and on their order.
RECURSIVE Mix(_, _, _)
Mix(bytes, a, b) ==
    IF a = b THEN bytes[a] + 1
    ELSE LET m == (a + b) \div 2
         IN  (Mix(bytes, a, m) * 257 + Mix(bytes, m + 1, b) * 263 + b - a) % 65521
MCBlake3(bytes) == IF bytes = <<>> THEN 0 ELSE Mix(bytes, 1, Len(bytes))
=============================================================================
