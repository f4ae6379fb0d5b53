----------------------------- MODULE MCMempool -----------------------------
(* Constants of the runs of Mempool: three addresses, the third without an *)
(* account, and five transactions, two of which share a hash.              *)
EXTENDS Mempool

CONSTANTS a, b, c

Tx(from, to, amount, nonce, fee, gas, key) ==
  [from |-> from, to |-> to, amount |-> amount, nonce |-> nonce, fee |-> fee,
   gas_limit |-> gas, chain_id |-> chain_id, signature |-> key]

MCTransactions ==
  { Tx(a, b, 1, 0, 2, 1, a), Tx(a, b, 1, 0, 2, 1, b),
    Tx(a, zero_address, 0, 0, 1, 1, a),
    Tx(a, a, 1, 1, 1, 2, a),
    Tx(b, a, 0, 0, 1, 1, b) }

\* Amount and fee together are 0 in the run's width of 16.
WrappingTransactions == {Tx(a, b, 15, 0, 1, 1, a)}

MCAllocation == (a :> 6) @@ (b :> 1)
=============================================================================
