------------------------ MODULE MCFeeSharingCollector ------------------------
(* Two stakers, of whom either may have no stake at times, and a vesting   *)
(* contract; RBTC and one other token.                                     *)
EXTENDS FeeSharingCollector, TLC

CONSTANTS alice, bob, vest, rbtc, sov

MCUsers       == {alice, bob}
MCClaimers    == {alice}
MCVestings    == {vest}
MCRbtcTokens  == {rbtc}
MCOtherTokens == {sov}

MCSnapshots ==
    {alice :> 1 @@ bob :> 1 @@ vest :> 1,
     alice :> 0 @@ bob :> 2 @@ vest :> 1}

Request(r, o, s) == [rbtc |-> r, other |-> o, skipped |-> s]
From(t, n)       == [token |-> t, from |-> n]

MCRequests ==
    {Request(<<rbtc>>, <<sov>>, <<>>),
     Request(<<rbtc>>, <<>>, <<From(sov, 2)>>),
     Request(<<>>, <<sov>>, <<From(rbtc, 3)>>),
     Request(<<>>, <<>>, <<From(rbtc, 2), From(sov, 2)>>),
     Request(<<rbtc, rbtc>>, <<>>, <<>>)}
=============================================================================
