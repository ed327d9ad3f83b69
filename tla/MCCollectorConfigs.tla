------------------------- MODULE MCCollectorConfigs -------------------------
(* Instances of CollectorConfigs for TLC.                                  *)
EXTENDS CollectorConfigs

SomeGroups == {"kubevirt.io", "apps"}
SomeKinds == {"VirtualMachine", "Deployment"}

Selects(gs, ks) == [apiGroups |-> gs, kinds |-> ks]
IncludeVMs == PlainRule("include", Selects({"kubevirt.io"}, {"VirtualMachine"}))
IncludeApps == PlainRule("include", Selects({"apps"}, {Any}))
ExcludeVMs == PlainRule("exclude", Selects({"kubevirt.io"}, {Any}))
ExcludeDeployments == PlainRule("exclude", Selects({"apps"}, {"Deployment"}))

\* The seeder ships the rule for virtual machines; people write these.
VMDefault == {IncludeVMs}
AppContents == {{IncludeApps}, {ExcludeDeployments}}
MixedContents == {{IncludeApps}, {ExcludeDeployments}, {IncludeApps, ExcludeVMs}}
=============================================================================
