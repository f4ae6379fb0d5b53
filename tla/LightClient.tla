---------------------------- MODULE LightClient ----------------------------
(***************************************************************************)
(* A light client that follows the chain by header proofs: it starts from  *)
(* a state its owner trusts, and full nodes send it headers with their     *)
(* certificates and the validator sets of new epochs, in any order, more   *)
(* than once or not at all.                                                *)
(*                                                                         *)
(* The senders are truthful about who is a validator and how much stake    *)
(* there is: verify_header computes the Merkle proof of every signer and   *)
(* ignores the outcome, and takes the total stake from the proof.  What it *)
(* does check is modelled as it is.  Faulty validators also sign blocks    *)
(* that are not on the chain.                                              *)
(***************************************************************************)
EXTENDS StakeSums, MerkleTree

CONSTANTS Validators,   \* everyone who is a validator in some epoch
          FaultySigners, \* those who sign more than the chain's blocks
          MembersOf,    \* the validator set of every epoch, in its order
          Stake,        \* bonded_stake
          EpochLength,  \* blocks of an epoch
          MaxChainHeight, \* bound: the height of the chain
          MaxRestarts   \* bound: how often a client is made anew

Heights == 0..MaxChainHeight
EpochOf(h) == h \div EpochLength
Epochs == {EpochOf(h) : h \in Heights}
Members(e) == {MembersOf[e][i] : i \in DOMAIN MembersOf[e]}
TotalStake(e) == StakeSum(Members(e), Stake)

ASSUME LightClientAssumption ==
    /\ EpochLength \in Nat \ {0} /\ MaxChainHeight \in Nat /\ MaxRestarts \in Nat
    /\ FaultySigners \subseteq Validators /\ IsFiniteSet(Validators)
    /\ Stake \in [Validators -> Nat]
    /\ MembersOf \in [Epochs -> Seq(Validators)]

\* No epoch's faulty validators reach two thirds of its stake.
ASSUME FaultyAssumption ==
    \A e \in Epochs : TotalStake(e) > 0 /\ 3 * StakeSum(FaultySigners \cap Members(e), Stake) < 2 * TotalStake(e)

VARIABLES head,         \* the height of the chain
          state,        \* LightClientState
          initialized,  \* initialized_
          restarts

lightVars == <<head, state, initialized, restarts>>

\* A block is its height and its branch; its hash is the block itself, and
\* a block off the chain has its parent on the chain.
Branches == {"chain", "fork"}
BlockAt(h, branch) == [height |-> h, branch |-> branch]
Parent(b) == BlockAt(b.height - 1, "chain")
Signs(v, b) == b.branch = "chain" \/ v \in FaultySigners

SetRoot(e) == RootOfList(MembersOf[e])

LightClientState(e, root, h, hash) ==
    [current_epoch |-> e, validator_set_root |-> root,
     finalized_height |-> h, finalized_block_hash |-> hash]

LightInit ==
    /\ head = 0
    /\ state = LightClientState(0, <<>>, 0, BlockAt(0, "chain"))
    /\ initialized = FALSE
    /\ restarts = 0

\* The validators finalize the next block.
Extend ==
    /\ head < MaxChainHeight
    /\ head' = head + 1
    /\ UNCHANGED <<state, initialized, restarts>>

\* initialize: from the trusted state at height h.
Initialize(h) ==
    /\ ~initialized
    /\ state' = LightClientState(EpochOf(h), SetRoot(EpochOf(h)), h, BlockAt(h, "chain"))
    /\ initialized' = TRUE
    /\ UNCHANGED <<head, restarts>>

\* A client that ends and is made anew has no state.
Restart ==
    /\ initialized /\ restarts < MaxRestarts
    /\ state' = LightClientState(0, <<>>, 0, BlockAt(0, "chain"))
    /\ initialized' = FALSE
    /\ restarts' = restarts + 1
    /\ UNCHANGED head

\* Mutant: more than one third.
HasThird(signers, total) == 3 * StakeSum(signers, Stake) >= total
HasSupermajority(signers, total) == total # 0 /\ 3 * StakeSum(signers, Stake) >= 2 * total

VerifyAggregatedSignature(block, signers) == signers # {} /\ \A v \in signers : Signs(v, block)

\* The checks of verify_header on the header of block and its signers.
HeaderVerified(block, signers) ==
    /\ EpochOf(block.height) = state.current_epoch
    /\ block.height > state.finalized_height
    /\ block.height = state.finalized_height + 1 => Parent(block) = state.finalized_block_hash
    /\ HasSupermajority(signers, TotalStake(EpochOf(block.height)))
    /\ VerifyAggregatedSignature(block, signers)

VerifyHeader(block, signers) ==
    /\ initialized
    /\ HeaderVerified(block, signers)
    /\ state' = [state EXCEPT !.finalized_height = block.height, !.finalized_block_hash = block]
    /\ UNCHANGED <<head, initialized, restarts>>

\* Mutant: the epoch advances and the root stays.
UpdateEpochOnly(e, root, stakeSigned) ==
    /\ initialized
    /\ e = state.current_epoch + 1
    /\ stakeSigned # 0
    /\ state' = [state EXCEPT !.current_epoch = e]
    /\ UNCHANGED <<head, initialized, restarts>>
\* Mutant: the next epoch is taken from the finalized height.
UpdateEpochInOrder(e, root, stakeSigned) ==
    /\ initialized
    /\ e = state.current_epoch + 1
    /\ e = EpochOf(state.finalized_height + 1)
    /\ stakeSigned # 0
    /\ state' = [state EXCEPT !.current_epoch = e, !.validator_set_root = root]
    /\ UNCHANGED <<head, initialized, restarts>>
\* update_epoch: of the certificate only the stated stake is looked at.
UpdateEpoch(e, root, stakeSigned) ==
    /\ initialized
    /\ e = state.current_epoch + 1
    /\ stakeSigned # 0
    /\ state' = [state EXCEPT !.current_epoch = e, !.validator_set_root = root]
    /\ UNCHANGED <<head, initialized, restarts>>

\* What full nodes send: certificates of blocks up to the head, whoever of
\* the epoch's members signed them, and transitions the chain has made.
ReceiveHeader(h) ==
    \E branch \in Branches : \E signers \in SUBSET Members(EpochOf(h)) :
        VerifyHeader(BlockAt(h, branch), signers)
ReceiveEpoch(e) ==
    \E stakeSigned \in {0, TotalStake(e - 1)} : UpdateEpoch(e, SetRoot(e), stakeSigned)

LightNext ==
    \/ Extend
    \/ \E h \in 0..head : Initialize(h)
    \/ Restart
    \/ \E h \in 0..head : ReceiveHeader(h)
    \/ \E e \in 1..EpochOf(head) : ReceiveEpoch(e)

\* Full nodes keep sending the newest header and the transitions, and the
\* owner of a client initializes it.
LightFairness ==
    /\ WF_lightVars(\E h \in 0..head : Initialize(h))
    /\ WF_lightVars(ReceiveHeader(head))
    /\ WF_lightVars(\E e \in 1..EpochOf(head) : ReceiveEpoch(e))

LightSpec == LightInit /\ [][LightNext]_lightVars /\ LightFairness

-----------------------------------------------------------------------------
(* Properties.                                                             *)

LightTypeOK ==
    /\ head \in Heights
    /\ state.current_epoch \in Epochs
    /\ state.finalized_height \in 0..head
    /\ state.finalized_block_hash \in [height : Heights, branch : Branches]
    /\ initialized \in BOOLEAN
    /\ restarts \in 0..MaxRestarts

\* Skipped headers, skipped epochs and blocks that faulty validators sign
\* off the chain never lead the client away from it: the block it holds as
\* final is the chain's block at the height it holds, of an epoch it passed.
ClientOnChain ==
    /\ state.finalized_block_hash = BlockAt(state.finalized_height, "chain")
    /\ EpochOf(state.finalized_height) <= state.current_epoch

\* The root the client holds belongs to its epoch: every member's proof
\* verifies against it, at the member's own leaf and for nobody else.
MembersProvable ==
    initialized =>
        LET set    == MembersOf[state.current_epoch]
            leaves == [i \in DOMAIN set |-> <<set[i]>>]
        IN  \A i \in DOMAIN set : \A v \in Validators :
                VerifyProof([GenerateProof(leaves, i - 1) EXCEPT !.leaf_hash = <<v>>],
                            state.validator_set_root)
                  <=> v = set[i]

\* A client that misses headers, transitions or its own state still reaches
\* the head of the chain, and is there again and again.
ClientCatchesUp == []<>(initialized /\ state.finalized_height = head)
=============================================================================
