---------------------------- MODULE MCCatalogSync -----------------------------
(***************************************************************************)
(* Constants for model checking CatalogSync: NVIDIA withdraws the retired  *)
(* and the legacy model and adds b, and the user has entries of every kind.*)
(***************************************************************************)
EXTENDS CatalogSync

CONSTANTS a, b, retired, legacy, own, template, none, limitB, manual,
          local, direct, other

MCModels == {a, b, retired, legacy, own}

\* The right limit of a happens to be the template.
MCRegistry == [m \in {a, b, retired} |-> IF m = b THEN limitB ELSE template]

MCListing == <<{a, retired, legacy, own}, {a, b, own}>>

UserConfig ==
    [p \in {local, direct, other} |->
        [ours |-> p # other,
         models |->
            CASE p = local -> [m \in MCModels |->
                     Entry(IF m = b THEN manual ELSE template, "the user's")]
              [] p = direct -> [m \in {a, b} |->
                     Entry(IF m = a THEN none ELSE template, "the user's")]
              [] p = other -> [m \in {retired} |-> Entry(none, NoObject)]]]

\* Our provider's name, but another endpoint.
ForeignConfig == [p \in {local} |-> [ours |-> FALSE, models |-> NoConfig]]

MCUserConfigs == {UserConfig, ForeignConfig}
=============================================================================
