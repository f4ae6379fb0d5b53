--------------------------- MODULE FeesAndSupply ---------------------------
(***************************************************************************)
(* Two engines that follow the blocks: FeeMarket moves the base fee        *)
(* towards the demand for gas, and MonetaryPolicyEngine books issuance and *)
(* burned fees and splits an epoch's issuance among the validators.  The   *)
(* code computes with doubles; here the arithmetic is exact, and the       *)
(* rounding (half away from zero) is the code's.                           *)
(***************************************************************************)
EXTENDS StakeSums

CONSTANTS InitialBaseFee, MaxGasValues,  \* limits of a block's gas
          InitialSupply, BondedValues,   \* bonded stakes that occur
          Coefficients,                  \* issuance coefficients, in hundredths
          BlocksPerYear, BurnValues,     \* fees burned in a block
          SupplyWidth,                         \* 2^64
          ValidatorStakes,               \* validator_stakes of distribute_rewards
          MaxBlocks                      \* bound: blocks that are booked

ASSUME FeesAssumption ==
    /\ InitialBaseFee \in Nat \ 0..3 /\ MaxGasValues \subseteq Nat
    /\ SupplyWidth \in Nat /\ InitialSupply \in 0..(SupplyWidth - 1)
    /\ BlocksPerYear \in Nat \ {0} /\ BondedValues \subseteq Nat /\ BurnValues \subseteq Nat
    /\ IsFiniteSet(DOMAIN ValidatorStakes) /\ ValidatorStakes \in [DOMAIN ValidatorStakes -> Nat]
    /\ MaxBlocks \in Nat

VARIABLES base_fee, target_gas,             \* FeeMarketState
          supply, bonded, k, issued, burned, \* MonetaryPolicyState and params_.k
          opening,                           \* history: the supply at the last reset
          blocks                             \* blocks booked

marketVars == <<base_fee, target_gas, supply, bonded, k, issued, burned, opening, blocks>>

Minimum(a, b) == IF a < b THEN a ELSE b
Maximum(a, b) == IF a < b THEN b ELSE a
\* std::round of n / d
Round(n, d) == (2 * n + d) \div (2 * d)

\* Mutant: the product is truncated.
NextTruncated(gas_used) ==
    IF target_gas = 0 THEN base_fee
    ELSE LET delta == Maximum(-target_gas, Minimum(target_gas, gas_used - target_gas))
         IN  Maximum(1, (base_fee * (8 * target_gas + delta)) \div (8 * target_gas))
\* calculate_next_base_fee: an eighth up or down at most, never below 1.
CalculateNextBaseFee(gas_used) ==
    IF target_gas = 0 THEN base_fee
    ELSE LET delta == Maximum(-target_gas, Minimum(target_gas, gas_used - target_gas))
         IN  Maximum(1, Round(base_fee * (8 * target_gas + delta), 8 * target_gas))

\* calculate_issuance_rate times the supply, per block: the supply cancels
\* out unless it is 0.
PerBlockIssuance == IF supply = 0 THEN 0 ELSE Round(k * bonded, 100 * BlocksPerYear)

MarketInit ==
    /\ base_fee = InitialBaseFee
    /\ target_gas \in {g \div 2 : g \in MaxGasValues}
    /\ supply = InitialSupply
    /\ bonded \in BondedValues
    /\ k = 10
    /\ issued = 0 /\ burned = 0
    /\ opening = InitialSupply
    /\ blocks = 0

\* update_base_fee
UpdateBaseFee(gas_used) ==
    /\ blocks < MaxBlocks /\ blocks' = blocks + 1
    /\ base_fee' = CalculateNextBaseFee(gas_used)
    /\ UNCHANGED <<target_gas, supply, bonded, k, issued, burned, opening>>

\* set_max_gas_per_block
SetMaxGasPerBlock(max_gas) ==
    /\ target_gas' = max_gas \div 2
    /\ UNCHANGED <<base_fee, supply, bonded, k, issued, burned, opening, blocks>>

\* update_supply: the sum wraps when more is burned than there is.
UpdateSupply(fees) ==
    /\ blocks < MaxBlocks /\ blocks' = blocks + 1
    /\ supply' = (supply + PerBlockIssuance - fees) % SupplyWidth
    /\ issued' = (issued + PerBlockIssuance) % SupplyWidth
    /\ burned' = (burned + fees) % SupplyWidth
    /\ UNCHANGED <<base_fee, target_gas, bonded, k, opening>>

\* distribute_rewards: what it pays to every eligible validator with a
\* withdrawal address, its rounded share of the epoch's issuance.  It
\* changes nothing, so a second call pays again.
DistributeRewards(jailed, payable) ==
    LET eligible == DOMAIN ValidatorStakes \ jailed
        total    == StakeSum(eligible, ValidatorStakes)
    IN  [v \in {w \in eligible \cap payable : total # 0} |-> Round(ValidatorStakes[v] * issued, total)]

\* set_issuance_coefficient refuses what is out of bounds.
SetIssuanceCoefficient(new_k) ==
    /\ new_k \in 5..20
    /\ k' = new_k
    /\ UNCHANGED <<base_fee, target_gas, supply, bonded, issued, burned, opening, blocks>>

UpdateBondedStake(b) ==
    /\ bonded' = b
    /\ UNCHANGED <<base_fee, target_gas, supply, k, issued, burned, opening, blocks>>

\* Mutant: the issuance is not reset.
ResetBurnedOnly ==
    /\ burned' = 0
    /\ opening' = supply
    /\ UNCHANGED <<base_fee, target_gas, supply, bonded, k, issued, blocks>>
\* reset_epoch_counters
ResetEpochCounters ==
    /\ issued' = 0 /\ burned' = 0
    /\ opening' = supply
    /\ UNCHANGED <<base_fee, target_gas, supply, bonded, k, blocks>>

MarketNext ==
    \/ \E gas \in {0, target_gas, target_gas + 1, 2 * target_gas, 3 * target_gas} : UpdateBaseFee(gas)
    \/ \E g \in MaxGasValues : SetMaxGasPerBlock(g)
    \/ \E f \in BurnValues : UpdateSupply(f)
    \/ \E c \in Coefficients : SetIssuanceCoefficient(c)
    \/ \E b \in BondedValues : UpdateBondedStake(b)
    \/ ResetEpochCounters

MarketSpec == MarketInit /\ [][MarketNext]_marketVars

-----------------------------------------------------------------------------
(* Properties.                                                             *)

\* Rounding never traps the base fee: however long blocks stay empty, a full
\* block still raises it and a block at the target leaves it alone.
FeeStaysResponsive ==
    target_gas # 0 =>
        /\ CalculateNextBaseFee(2 * target_gas) > base_fee
        /\ CalculateNextBaseFee(target_gas) = base_fee
        /\ CalculateNextBaseFee(0) <= base_fee

\* Whenever rewards are distributed and whoever is jailed, what is paid out
\* is backed by the tokens the epoch added to the supply, whatever was
\* burned, reset or reconfigured in between: the two differ by half a token
\* per validator, for the rounding, at most.
RewardsBacked ==
    \A jailed \in SUBSET DOMAIN ValidatorStakes :
        LET minted  == (supply + burned - opening) % SupplyWidth
            rewards == DistributeRewards(jailed, DOMAIN ValidatorStakes)
            total   == StakeSum(DOMAIN rewards, rewards)
        IN  DOMAIN rewards # {} =>
                /\ 2 * (total - minted) <= Cardinality(DOMAIN rewards)
                /\ 2 * (minted - total) <= Cardinality(DOMAIN rewards)
=============================================================================
