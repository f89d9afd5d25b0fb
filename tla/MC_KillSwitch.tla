--------------------------- MODULE MC_KillSwitch ---------------------------
(***************************************************************************)
(* Small instances of KillSwitch for TLC.                                  *)
(***************************************************************************)
EXTENDS KillSwitch, TLC

\* Two operators, one of whom is also a compliance officer, and one pure
\* compliance officer: nobody may fill two seats.
MCPeople  == {"ann", "bob", "cleo"}
MCRolesOf == ("ann" :> {"operator"}) @@ ("bob" :> {"operator", "compliance"})
             @@ ("cleo" :> {"compliance"})

Op(p)   == [who |-> p, role |-> "operator"]
Comp(p) == [who |-> p, role |-> "compliance"]

\* One operator; one operator twice; both of them; one of them in both roles;
\* everyone a HARD reset needs.
TellingRequests ==
  {<<Op("ann")>>, <<Op("ann"), Op("ann")>>, <<Op("ann"), Op("bob")>>,
   <<Op("ann"), Op("bob"), Comp("bob")>>, <<Op("ann"), Op("bob"), Comp("cleo")>>}

=============================================================================
