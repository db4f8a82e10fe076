---------------------------- MODULE MCAiSettings ----------------------------
(***************************************************************************)
(* Files and environments of the settings of AI: none, the example's, one  *)
(* that leaves sections out, one whose limits contradict the default; and  *)
(* variables that name one value of a section.                             *)
(***************************************************************************)
EXTENDS AiSettings, TLC

NoFile == [parsed |-> FALSE, says |-> <<>>]
YamlFile(given) == [parsed |-> TRUE, says |-> given]
Choice3 == ("enabled" :> "much") @@ ("provider" :> "much") @@ ("model" :> "much")
Money == ("monthlyBudgetUSD" :> "little") @@ ("alertThresholdPercent" :> "much")
Limits == ("perMinute" :> "little") @@ ("perDay" :> "much")
Flags == [f \in {"rcaMatching", "categorization", "logSummary"} |-> "much"]

ModelFiles ==
  {NoFile, YamlFile(Choice3 @@ Money), YamlFile(Choice3 @@ Money @@ Limits),
   YamlFile(Choice3 @@ Money @@ Limits @@ Flags),
   YamlFile(("enabled" :> "nothing") @@ Money @@ Limits @@ Flags @@ ("url" :> "much")),
   YamlFile(Choice3 @@ Money @@ ("perDay" :> "little") @@ Flags)}

ModelEnvirons ==
  {<<>>, "enabled" :> "much", "enabled" :> "nothing",
   ("alertEmail" :> "much") @@ ("perMinute" :> "much"),
   ("monthlyBudgetUSD" :> "nothing") @@ ("enabled" :> "much"),
   ("logSummary" :> "nothing") @@ ("url" :> "much") @@ ("ttlSeconds" :> "NaN"),
   ("localModel" :> "nothing") @@ ("localEnabled" :> "much") @@ ("enabled" :> "much"),
   ("localModel" :> "much") @@ ("sizeOverride" :> "nothing")}
=============================================================================
