---------------------------- MODULE MCManagedFiles ----------------------------
(* Two preparers, one private and one shared entry, two plugins, two versions: whatever   *)
(* state the marketplace was left in with a home in order, or the other way round.        *)
EXTENDS ManagedFiles

CONSTANTS sessions, skills, ucu, other

MarketplaceLeft ==
    /\ home[sessions] = "file" /\ home[skills] = "link"
    /\ links[other] # Own

HomeLeft == catalog = Plugins /\ \A p \in Plugins : cache[p] = {2} /\ links[p] = 2

MCInit == Init /\ (MarketplaceLeft \/ HomeLeft)

MCSpec == MCInit /\ [][Next]_vars /\ Fairness
=============================================================================
