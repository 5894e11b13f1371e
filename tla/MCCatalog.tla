----------------------------- MODULE MCCatalog ------------------------------
EXTENDS Catalog
CONSTANTS n1, n2
small == [valid |-> TRUE, values |-> [exposure |-> 2, replicas |-> 1]]
large == [valid |-> FALSE, values |-> [exposure |-> 1, replicas |-> 3]]
MCSpecs == {small, large}
MCRequests == {<<n1, small>>, <<n1, large>>, <<n2, small>>}
notLarge == [path |-> "replicas", op |-> "GT", value |-> 2]
MCRules == {notLarge, [path |-> "replicas", op |-> "LTE", value |-> 1]}
MCStarts == {[published |-> TRUE, driver |-> TRUE, profile |-> "default", curated |-> FALSE,
              policy |-> notLarge],
             [published |-> FALSE, driver |-> FALSE, profile |-> "tiny", curated |-> TRUE,
              policy |-> None]}
MCLimits == {None, 1}
=============================================================================
