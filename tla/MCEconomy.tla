----------------------------- MODULE MCEconomy -----------------------------
(***************************************************************************)
(* Governance, the genesis builder and the fee and supply engines.  They   *)
(* share no state in the repository, so a behaviour exercises one of them: *)
(* interleaving all three would only multiply their states.                *)
(***************************************************************************)
EXTENDS GovernanceModule, GenesisBuilder, FeesAndSupply

CONSTANTS a, b, c
VARIABLE part

MCSubmissions ==
    {[parameter |-> "IssuanceCoefficient", value |-> [size |-> 8, number |-> 5], backers |-> <<a>>],
     [parameter |-> "BlockSize", value |-> [size |-> 8, number |-> 1], backers |-> <<b, b>>],
     [parameter |-> "ValidatorSetSize", value |-> [size |-> 8, number |-> 501], backers |-> <<b>>]}
MCAddressOrder == <<a, b, c>>
MCCandidates == {<<>>, <<3>>, <<2, 4, 3>>, <<1, 4>>, <<2, 1, 2>>}
MCStakes == [v \in {a, b, c} |-> IF v = c THEN 2 ELSE 1]

EconomyInit ==
    /\ part \in {"governance", "genesis", "market"}
    /\ GovernanceInit /\ GenesisInit /\ MarketInit
    /\ part # "governance" => stake = [v \in Voters |-> 0]
    /\ part # "market" => target_gas = 2 /\ bonded = 0

EconomyNext ==
    /\ UNCHANGED part
    /\ \/ part = "governance" /\ GovernanceNext /\ UNCHANGED <<genesisVars, marketVars>>
       \/ part = "genesis" /\ GenesisNext /\ UNCHANGED <<govVars, marketVars>>
       \/ part = "market" /\ MarketNext /\ UNCHANGED <<govVars, genesisVars>>

EconomySpec == EconomyInit /\ [][EconomyNext]_<<govVars, genesisVars, marketVars, part>>
=============================================================================
