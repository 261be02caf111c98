------------------------------- MODULE Wrappers -------------------------------
(***************************************************************************)
(* The module wrappers of coreum-test-tube (src/module): which messages and  *)
(* queries each of them has a method for, and the types the method is        *)
(* declared with.  Messages and queries are named as the chain names them:   *)
(* name Issue stands for the type MsgIssue and its type URL, name Token for   *)
(* the path .../Query/Token and for QueryTokenRequest => QueryTokenResponse.  *)
(*                                                                         *)
(* A wrapper is two functions: execute takes a message to the response it is *)
(* declared to be answered with, query the path of a query to the query its   *)
(* request and response types belong to.                                     *)
(***************************************************************************)

\* A message answered by MsgXResponse, a query with the types of its own path.
Own(names) == [n \in names |-> n]

\* Messages of Coreum's own modules are answered by EmptyResponse.
Empty(names) == [n \in names |-> "EmptyResponse"]

AssetFT ==
  [execute |-> Empty({"Issue", "Mint", "Burn", "Freeze", "Unfreeze", "SetFrozen",
                      "GloballyFreeze", "GloballyUnfreeze", "Clawback",
                      "SetWhitelistedLimit", "TransferAdmin", "ClearAdmin",
                      "UpgradeTokenV1"}),
   query |-> Own({"Params", "Token", "TokenUpgradeStatuses", "Tokens", "Balance",
                  "FrozenBalances", "FrozenBalance", "WhitelistedBalances",
                  "WhitelistedBalance"})]

AssetNFT ==
  [execute |-> Empty({"IssueClass", "Mint", "Burn", "Freeze", "Unfreeze",
                      "AddToWhitelist", "RemoveFromWhitelist",
                      "AddToClassWhitelist", "RemoveFromClassWhitelist",
                      "ClassFreeze", "ClassUnfreeze"}),
   query |-> [path \in {"Params", "Class", "Classes", "Frozen", "ClassFrozen",
                        "ClassFrozenAccounts", "Whitelisted",
                        "WhitelistedAccountsForNFT", "ClassWhitelistedAccounts",
                        "BurntNFT", "BurntNFTsInClass"} |->
                IF path = "BurntNFTsInClass" THEN "BurntNFT" ELSE path]]

Authz ==
  [execute |-> Own({"Grant", "Revoke", "Exec"}),
   query |-> Own({"Grants", "GranterGrants", "GranteeGrants"})]

Bank ==
  [execute |-> Own({"Send"}), query |-> Own({"Balance", "AllBalances", "TotalSupply"})]

Dex ==
  [execute |-> Empty({"PlaceOrder", "CancelOrder", "CancelOrdersByDenom"}),
   query |-> Own({"Params", "OrderBookParams", "AccountDenomOrdersCount",
                  "OrderBookOrders", "OrderBooks", "Order", "Orders"})]

Distribution ==
  [execute |-> Own({}), query |-> Own({"DelegationRewards", "DelegationTotalRewards"})]

Gov ==
  [execute |-> Own({"SubmitProposal", "Vote"}), query |-> Own({"Proposal", "Params"})]

NFT ==
  [execute |-> Own({"Send"}),
   query |-> Own({"Balance", "Owner", "Supply", "NFTs", "NFT", "Class", "Classes"})]

Staking ==
  [execute |-> Own({"Delegate", "Undelegate", "CreateValidator"}),
   query |-> Own({"Params", "Validators", "Delegation", "UnbondingDelegation",
                  "DelegatorDelegations", "DelegatorUnbondingDelegations"})]

\* Its methods are written out, not generated: see Messages.
Wasm ==
  [execute |-> Own({"StoreCode", "InstantiateContract", "ExecuteContract"}),
   query |-> Own({"SmartContractState"})]

\* The wrappers whose methods fn_execute! and fn_query! generate.
Generated ==
  [assetft |-> AssetFT, assetnft |-> AssetNFT, authz |-> Authz, bank |-> Bank,
   dex |-> Dex, distribution |-> Distribution, gov |-> Gov, nft |-> NFT,
   staking |-> Staking]

-------------------------------------------------------------------------------
(* The chain's side, outside src/: what answers a message or a query. *)

MsgAnswer(module, msg) ==
  IF module \in {"assetft", "assetnft", "dex"} THEN "EmptyResponse" ELSE msg

QueryAnswer(path) == path
===============================================================================
